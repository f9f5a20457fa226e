---------------------------- MODULE LastTickCodec ----------------------------
(***************************************************************************)
(* The LastProcessedTick record: SetLastProcessedTick writes the per-epoch *)
(* tick (4 bytes little-endian) and the global ProcessedTick as protobuf   *)
(* (two uint32 varint fields, zero fields omitted; the schema is not part  *)
(* of the source, so the field numbers are constants);                     *)
(* GetLastProcessedTick reads any 8-byte value in the format of the        *)
(* earlier releases, a little-endian uint64 tick whose epoch is looked up  *)
(* in the per-epoch table, and decodes anything else as protobuf.          *)
(*                                                                         *)
(* Values are byte sequences. A uint32 tick read back is compared through  *)
(* its four little-endian bytes, which is what the == of the code compares *)
(* and keeps every number below 2^31.                                      *)
(***************************************************************************)
EXTENDS Naturals, Sequences, TLC

CONSTANTS
    TickValues,   \* tick numbers the archiver may record (1 .. 2^31 - 1)
    EpochValues,  \* epoch numbers (1 .. 2^16 - 1)
    TickField,    \* field numbers of ProcessedTick.tick_number and .epoch
    EpochField,   \* (1 .. 15: a one-byte tag)
    MaxWrites     \* bound on SetLastProcessedTick calls

None == [epoch |-> 0, bytes |-> <<>>]

VARIABLES
    value,     \* the LastProcessedTick key's value (<<>>: absent)
    perEpoch,  \* LastProcessedTickPerEpoch: epoch -> tick
    last,      \* the ProcessedTick last written, or None
    read,      \* what the last GetLastProcessedTick returned, or None
    writes

vars == <<value, perEpoch, last, read, writes>>

-----------------------------------------------------------------------------
(* binary.LittleEndian.PutUint32: the four bytes of a uint32. *)
LE32(n) == [k \in 1..4 |-> (n \div 256^(k - 1)) % 256]

(* binary.LittleEndian.PutUint64 of a uint32 tick: its bytes, then zeros. *)
LE64(n) == LE32(n) \o <<0, 0, 0, 0>>

(* The protobuf varint of n < 2^31: seven bits a byte, low group first,   *)
(* the top bit set on every byte but the last.                            *)
VarintLen(n) ==
    IF n < 2^7 THEN 1 ELSE IF n < 2^14 THEN 2 ELSE IF n < 2^21 THEN 3
    ELSE IF n < 2^28 THEN 4 ELSE 5

Varint(n) ==
    [k \in 1..VarintLen(n) |->
        ((n \div 128^(k - 1)) % 128) + (IF k < VarintLen(n) THEN 128 ELSE 0)]

(* The tag byte of a varint field (wire type 0). *)
Tag(field) == field * 8

(* proto.Marshal(&ProcessedTick{TickNumber, Epoch}): fields in number     *)
(* order, a field equal to zero left out.                                  *)
MarshalProcessedTick(t, e) ==
    LET tp == IF t = 0 THEN <<>> ELSE <<Tag(TickField)>> \o Varint(t)
        ep == IF e = 0 THEN <<>> ELSE <<Tag(EpochField)>> \o Varint(e)
    IN IF TickField < EpochField THEN tp \o ep ELSE ep \o tp

(* Decoding a varint that starts at position i of b. *)
VarintEnd(b, i) ==
    CHOOSE j \in i..Len(b) : b[j] < 128 /\ \A k \in i..(j - 1) : b[k] >= 128
VarintValue(b, i) ==
    LET n == VarintEnd(b, i) - i + 1
        acc[k \in 0..n] == IF k = 0 THEN 0
                           ELSE acc[k - 1] + ((b[i + k - 1] % 128) * 128^(k - 1))
    IN acc[n]

(* proto.Unmarshal into ProcessedTick of a well-formed encoding: a field  *)
(* tag, its varint, and possibly a second one.                            *)
UnmarshalProcessedTick(b) ==
    LET e1 == VarintEnd(b, 2)
        v1 == VarintValue(b, 2)
        two == e1 < Len(b)
        v2 == IF two THEN VarintValue(b, e1 + 2) ELSE 0
        fieldOf(tag) == IF b[1] = tag THEN v1
                        ELSE IF two /\ b[e1 + 1] = tag THEN v2 ELSE 0
    IN IF b = <<>> THEN [tick |-> 0, epoch |-> 0]
       ELSE [tick |-> fieldOf(Tag(TickField)), epoch |-> fieldOf(Tag(EpochField))]

-----------------------------------------------------------------------------
(* GetLastProcessedTicksPerEpoch and the loop over it: the epochs whose   *)
(* stored tick equals the legacy tick, as bytes; none gives epoch 0. The  *)
(* loop runs over a Go map, so which of several matches wins is open.    *)
LegacyEpochs(tickBytes) ==
    LET m == {e \in DOMAIN perEpoch : LE32(perEpoch[e]) = tickBytes}
    IN IF m = {} THEN {0} ELSE m

(* GetLastProcessedTick: the possible results for the stored value, as   *)
(* the tick's four bytes (uint32(LittleEndian.Uint64(value)) keeps the   *)
(* first four) and the epoch.                                             *)
GetLastProcessedTickResults ==
    IF Len(value) = 8
    THEN {[epoch |-> e, bytes |-> SubSeq(value, 1, 4)] :
              e \in LegacyEpochs(SubSeq(value, 1, 4))}
    ELSE LET u == UnmarshalProcessedTick(value)
         IN {[epoch |-> u.epoch, bytes |-> LE32(u.tick)]}

-----------------------------------------------------------------------------
(* A store of an earlier release (legacy 8-byte value and its per-epoch  *)
(* entry), or one without a LastProcessedTick yet.                        *)
Init ==
    /\ \/ value = <<>> /\ perEpoch = <<>> /\ last = None
       \/ \E t \in TickValues, e \in EpochValues :
            /\ value = LE64(t)
            /\ perEpoch = (e :> t)
            /\ last = [epoch |-> e, bytes |-> LE32(t)]
    /\ read = None
    /\ writes = 0

(* SetLastProcessedTick's batch: the per-epoch tick and the global       *)
(* ProcessedTick, committed together.                                     *)
SetLastProcessedTick(t, e) ==
    /\ writes < MaxWrites
    /\ perEpoch' = (e :> t) @@ perEpoch
    /\ value' = MarshalProcessedTick(t, e)
    /\ last' = [epoch |-> e, bytes |-> LE32(t)]
    /\ writes' = writes + 1
    /\ UNCHANGED read

(* GetLastProcessedTick: ErrNotFound (no result) for an absent key, the  *)
(* legacy or the protobuf reading otherwise.                              *)
GetLastProcessedTick ==
    /\ IF value = <<>> THEN read' = None
       ELSE \E r \in GetLastProcessedTickResults : read' = r
    /\ UNCHANGED <<value, perEpoch, last, writes>>

Next ==
    \/ \E t \in TickValues, e \in EpochValues : SetLastProcessedTick(t, e)
    \/ GetLastProcessedTick

Spec == Init /\ [][Next]_vars

-----------------------------------------------------------------------------
(* Encoding round trip (spec 8 item 5, 4.2): every GetLastProcessedTick  *)
(* on a stored value returns the tick and epoch SetLastProcessedTick       *)
(* stored last, in either format (the length check on the stored value,    *)
(* protobuf decoding, and the per-epoch lookup of the legacy format).       *)
RoundTrip ==
    [][value # <<>> /\ GetLastProcessedTick =>
         read'.bytes = last.bytes /\ read'.epoch = last.epoch]_vars

=============================================================================
