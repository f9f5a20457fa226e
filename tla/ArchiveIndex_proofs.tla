--------------------------- MODULE ArchiveIndex_proofs ---------------------------
(***************************************************************************)
(* The guarantee of the abstract index, for every value of the constants: *)
(* a reader finds every tick up to LastProcessedTick that is neither empty *)
(* nor skipped fully stored. Any pipeline that implements ArchiveIndex     *)
(* inherits it (Archiver_proofs!IndexedByRefinement).                      *)
(***************************************************************************)
EXTENDS ArchiveIndex, TLAPS

AbsInv == lastTick \in Nat /\ AbsIndexed

(* Records of a tick only accumulate: a tick fully stored stays so. *)
LEMMA FullyStoredStable ==
    ASSUME NEW t,
           tickData \subseteq tickData', tickTx \subseteq tickTx',
           transferIdx \subseteq transferIdx', assetIdx \subseteq assetIdx',
           FullyStored(t)
    PROVE  FullyStored(t)'
BY DEF FullyStored

LEMMA AbsInvInit == AbsInit => AbsInv
BY DEF AbsInit, AbsInv, AbsIndexed

LEMMA AbsInvNext ==
    ASSUME MaxTick \in Nat
    PROVE  AbsInv /\ [AbsNext]_absVars => AbsInv'
<1> SUFFICES ASSUME AbsInv, [AbsNext]_absVars PROVE AbsInv'
  OBVIOUS
<1>1. ASSUME NEW t \in Ticks, WriteTick(t) PROVE AbsInv'
  <2>1. ASSUME NEW u \in 1..lastTick', u \notin EmptyTicks, u \notin skippedTicks'
        PROVE  FullyStored(u)'
    <3>1. FullyStored(u)
      BY <1>1, <2>1 DEF WriteTick, AbsInv, AbsIndexed
    <3>. QED
      BY <1>1, <3>1, FullyStoredStable DEF WriteTick
  <2>. QED
    BY <1>1, <2>1 DEF WriteTick, AbsInv, AbsIndexed
<1>2. ASSUME NEW t \in Ticks, SkipTick(t) PROVE AbsInv'
  BY <1>2 DEF SkipTick, AbsInv, AbsIndexed, FullyStored
<1>3. ASSUME NEW t \in Ticks, CommitTick(t) PROVE AbsInv'
  <2>1. lastTick' = t /\ t \in Nat /\ lastTick < t
    BY <1>3 DEF CommitTick, Ticks
  <2>2. ASSUME NEW u \in 1..t, u \notin EmptyTicks, u \notin skippedTicks'
        PROVE  FullyStored(u)'
    <3>1. CASE u = t
      BY <1>3, <3>1, <2>2 DEF CommitTick, FullyStored
    <3>2. CASE u < t /\ lastTick < u
      <4>1. u \in (lastTick + 1)..(t - 1)
        BY <2>1, <3>2 DEF AbsInv
      <4>2. u \in skippedTicks /\ skippedTicks' = skippedTicks
        BY <1>3, <4>1 DEF CommitTick
      <4>. QED
        BY <2>2, <4>2
    <3>3. CASE u <= lastTick
      BY <1>3, <2>2, <3>3 DEF CommitTick, AbsInv, AbsIndexed, FullyStored
    <3>. QED
      BY <2>1, <3>1, <3>2, <3>3 DEF AbsInv
  <2>. QED
    BY <2>1, <2>2 DEF AbsInv, AbsIndexed
<1>4. CASE UNCHANGED absVars
  BY <1>4 DEF absVars, AbsInv, AbsIndexed, FullyStored
<1>. QED
  BY <1>1, <1>2, <1>3, <1>4 DEF AbsNext

(* Whatever implements the abstract index, readers may rely on every tick *)
(* up to LastProcessedTick that is neither empty nor skipped being fully  *)
(* stored (spec section 5).                                               *)
THEOREM AbsReadersSeeFullTicks ==
    ASSUME MaxTick \in Nat
    PROVE  AbsSpec => []AbsIndexed
<1>1. AbsInv => AbsIndexed
  BY DEF AbsInv
<1>. QED
  BY <1>1, AbsInvInit, AbsInvNext, PTL DEF AbsSpec

====
