------------------------- MODULE LastTickCodec_proofs -------------------------
(***************************************************************************)
(* Why GetLastProcessedTick misreads current records: the length of the    *)
(* protobuf ProcessedTick that SetLastProcessedTick writes.                 *)
(***************************************************************************)
EXTENDS LastTickCodec, SequenceTheorems, TLAPS

(* A varint's byte sequence has VarintLen bytes. *)
LEMMA VarintLength ==
    ASSUME NEW n \in Nat
    PROVE  /\ Varint(n) \in Seq(Nat)
           /\ Len(Varint(n)) = VarintLen(n)
<1>1. VarintLen(n) \in 1..5
  BY DEF VarintLen
<1>2. \A k \in 1..VarintLen(n) :
        ((n \div 128^(k - 1)) % 128) + (IF k < VarintLen(n) THEN 128 ELSE 0) \in Nat
  BY <1>1
<1>. QED
  BY <1>1, <1>2 DEF Varint

(* A field with a one-byte tag and an n-byte varint is 1 + n bytes long. *)
LEMMA FieldLength ==
    ASSUME NEW f \in Nat, NEW n \in Nat \ {0}
    PROVE  /\ <<Tag(f)>> \o Varint(n) \in Seq(Nat)
           /\ Len(<<Tag(f)>> \o Varint(n)) = 1 + VarintLen(n)
<1>1. <<Tag(f)>> \in Seq(Nat) /\ Len(<<Tag(f)>>) = 1
  BY DEF Tag
<1>2. Varint(n) \in Seq(Nat) /\ Len(Varint(n)) = VarintLen(n)
  BY VarintLength
<1>. QED
  BY <1>1, <1>2, ConcatProperties

(* SetLastProcessedTick's encoding of every tick in [2^21, 2^28) with an  *)
(* epoch in [128, 2^14), whatever the field numbers, is 8 bytes long, so   *)
(* GetLastProcessedTick (part_000:435) always takes it for the legacy      *)
(* uint64 format.                                                           *)
THEOREM CurrentRecordsLookLegacy ==
    ASSUME TickField \in Nat, EpochField \in Nat,
           NEW t \in 2^21..(2^28 - 1), NEW e \in 128..(2^14 - 1)
    PROVE  Len(MarshalProcessedTick(t, e)) = 8
<1>1. VarintLen(t) = 4 /\ VarintLen(e) = 2
  BY DEF VarintLen
<1>2. t \in Nat \ {0} /\ e \in Nat \ {0}
  OBVIOUS
<1>. DEFINE tp == <<Tag(TickField)>> \o Varint(t)
             ep == <<Tag(EpochField)>> \o Varint(e)
<1>3. tp \in Seq(Nat) /\ Len(tp) = 5
  <2>1. tp \in Seq(Nat) /\ Len(tp) = 1 + VarintLen(t)
    BY <1>2, FieldLength
  <2>. QED
    BY <1>1, <2>1
<1>6. ep \in Seq(Nat) /\ Len(ep) = 3
  <2>1. ep \in Seq(Nat) /\ Len(ep) = 1 + VarintLen(e)
    BY <1>2, FieldLength
  <2>. QED
    BY <1>1, <2>1
<1>4. MarshalProcessedTick(t, e) = IF TickField < EpochField THEN tp \o ep ELSE ep \o tp
  BY <1>2 DEF MarshalProcessedTick
<1>5. Len(tp \o ep) = 8 /\ Len(ep \o tp) = 8
  BY <1>3, <1>6, ConcatProperties
<1>. QED
  BY <1>4, <1>5

=============================================================================
