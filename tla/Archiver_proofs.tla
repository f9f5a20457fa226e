---------------------------- MODULE Archiver_proofs ----------------------------
(***************************************************************************)
(* Proofs about the archiving pipeline of module Archiver, for every value *)
(* of its constants: type correctness, that no stored transaction or index *)
(* record is an orphan, and (for a node that neither repeats transactions  *)
(* nor has a dissenting first vote) that every tick up to                  *)
(* LastProcessedTick is fully indexed.                                     *)
(***************************************************************************)
EXTENDS Archiver, FiniteSetTheorems, SequenceTheorems, TLAPS

(* Store calls of ValidateTick that run after tick.Store committed. *)
AfterTickStored == {"storeTxs", "storeTransfers", "storeAssets",
                    "appendInterval", "setLastProcessed", "setIntervals"}
(* ... after tx.Store's TickTx batch committed. *)
AfterTxsStored == AfterTickStored \ {"storeTxs"}
(* ... after its IdentityTransferTxs batch committed. *)
AfterTransfersStored == AfterTxsStored \ {"storeTransfers"}
(* ... after its QxIdentityAssetTransfers batch committed. *)
AfterAssetsStored == AfterTransfersStored \ {"storeAssets"}

(* Strengthening of NoOrphanTransactions: the transactions the task holds *)
(* belong to the body of the tick it processes, and once tick.Store has   *)
(* committed that tick's TickData is there whenever it has transactions.  *)
OrphanInv ==
    /\ TypeOK
    /\ validTxs \subseteq Body[cur]
    /\ pc \in AfterTickStored /\ validTxs # {} => cur \in tickData
    /\ NoOrphanTransactions

(* Strengthening of ProcessedTicksIndexed. Between LastProcessedTick and  *)
(* the next tick every tick was skipped; while a tick is in flight its    *)
(* validated transactions are its whole body and each store call that     *)
(* has committed holds its share of them.                                 *)
IndexedInv ==
    /\ TypeOK
    /\ pc # "idle" => next = cur /\ validTxs = Body[cur]
    /\ pc = "setIntervals" => lastProcessed.tick = cur
    /\ pc # "setIntervals" => lastProcessed.tick < next
    /\ \A t \in Ticks : lastProcessed.tick < t /\ t < next => t \in skipped
    /\ pc \in AfterTickStored /\ cur \notin EmptyTicks => cur \in tickData
    /\ pc \in AfterTxsStored => validTxs \subseteq tickTx
    /\ pc \in AfterTransfersStored => validTxs \cap Transfers \subseteq transferIdx
    /\ pc \in AfterAssetsStored => validTxs \cap AssetTxs \subseteq assetIdx
    /\ ProcessedTicksIndexed

-----------------------------------------------------------------------------
(***************************************************************************)
(* Lemmas about the operators of the model.                                *)
(***************************************************************************)

(* What tx.Validate accepts is a set of digests of the tick body. *)
LEMMA ValidateTxsSubset ==
    ASSUME NEW s, NEW D, ValidateTxs(s, D).ok
    PROVE  ValidateTxs(s, D).txs \subseteq D
BY DEF ValidateTxs

(* When the node answers with distinct transactions (no repetition), what *)
(* tx.Validate accepts is the whole body: as many distinct digests as the  *)
(* body has, all of them in it.                                            *)
LEMMA ValidatedTxsAreBody ==
    ASSUME NEW D \in SUBSET TxIds, NEW n \in Nat,
           NEW s \in [1..n -> D \cup {Forged}], IsInjective(s),
           ValidateTxs(s, D).ok
    PROVE  ValidateTxs(s, D).txs = D
<1>1. CASE D = {}
  BY <1>1 DEF ValidateTxs
<1>2. CASE D # {}
  <2>1. Len(s) = n
    <3>1. s \in Seq(D \cup {Forged})
      BY SeqDef
    <3>. QED
      BY <3>1, LenProperties
  <2>2. Cardinality(D) = n /\ Range(s) \subseteq D /\ ValidateTxs(s, D).txs = Range(s)
    BY <1>2, <2>1 DEF ValidateTxs
  <2>3. s \in Injection(1..n, D)
    BY <2>2 DEF Injection, Range
  <2>4. IsFiniteSet(D)
    BY ConstantsAssumption, FS_Subset
  <2>5. Cardinality(1..n) = n
    BY FS_Interval
  <2>6. s \in Surjection(1..n, D)
    BY <2>2, <2>3, <2>4, <2>5, FS_Injection
  <2>7. D \subseteq Range(s)
    BY <2>6 DEF Surjection, Range
  <2>. QED
    BY <2>2, <2>7
<1>. QED
  BY <1>1, <1>2

(* Extending the last interval of a list of intervals to a tick keeps it *)
(* a list of intervals.                                                   *)
LEMMA ExtendLastIntervalType ==
    ASSUME NEW list \in Seq(Interval), NEW t \in Ticks
    PROVE  ExtendLastInterval(list, t) \in Seq(Interval)
<1>1. CASE list = <<>>
  BY <1>1 DEF ExtendLastInterval, Interval
<1>2. CASE list # <<>>
  <2>1. Len(list) \in 1..Len(list)
    BY <1>2, LenProperties, EmptySeq
  <2>2. list[Len(list)] \in Interval
    BY <2>1, ElementOfSeq
  <2>4. [list[Len(list)] EXCEPT !.lastProcessedTick = t] \in Interval
    BY <2>2 DEF Interval
  <2>3. [list EXCEPT ![Len(list)].lastProcessedTick = t]
          = [list EXCEPT ![Len(list)] = [list[Len(list)] EXCEPT !.lastProcessedTick = t]]
    OBVIOUS
  <2>. QED
    BY <1>2, <2>1, <2>3, <2>4, ExceptSeq DEF ExtendLastInterval
<1>. QED
  BY <1>1, <1>2

-----------------------------------------------------------------------------
(***************************************************************************)
(* Type correctness.                                                       *)
(***************************************************************************)

LEMMA TypeInit == Init => TypeOK
BY ConstantsAssumption, EmptySeq DEF Init, TypeOK, Ticks, NoTick, PCs

LEMMA TypeNext == TypeOK /\ [Next]_vars => TypeOK'
<1> USE ConstantsAssumption
<1> SUFFICES ASSUME TypeOK, [Next]_vars PROVE TypeOK'
  OBVIOUS
<1>1. CASE FetchFailed
  BY <1>1 DEF FetchFailed, taskVars, TypeOK, Ticks
<1>2. CASE ValidationFailed
  BY <1>2 DEF ValidationFailed, StoreComputors, TypeOK, Ticks
<1>3. CASE EmptyQuorumTick
  BY <1>3 DEF EmptyQuorumTick, StoreComputors, TypeOK, Ticks, PCs
<1>4. CASE Validated
  <2>1. PICK txs \in NodeTxAnswers(next) :
            /\ ValidateTxs(txs, Body[next]).ok
            /\ validTxs' = ValidateTxs(txs, Body[next]).txs
    BY <1>4 DEF Validated
  <2>2. validTxs' \subseteq Body[next]
    BY <2>1, ValidateTxsSubset
  <2>3. validTxs' \subseteq TxIds
    BY <1>4, <2>2 DEF Validated, TypeOK, Ticks
  <2>. QED
    BY <1>4, <2>3 DEF Validated, StoreComputors, TypeOK, Ticks, PCs
<1>5. CASE StoreQuorum
  BY <1>5 DEF StoreQuorum, TypeOK, PCs
<1>6. CASE StoreTick
  BY <1>6 DEF StoreTick, TypeOK, PCs
<1>7. CASE StoreTxs
  BY <1>7 DEF StoreTxs, TypeOK, PCs
<1>8. CASE StoreTransfers
  BY <1>8 DEF StoreTransfers, TypeOK, PCs
<1>9. CASE StoreAssets
  BY <1>9 DEF StoreAssets, TypeOK, PCs
<1>10. CASE AppendInterval
  <2>1. [initialProcessedTick |-> cur, lastProcessedTick |-> cur] \in Interval
    BY DEF TypeOK, Interval
  <2>2. intervals' \in [Epochs -> Seq(Interval)]
    BY <1>10, <2>1 DEF AppendInterval, TypeOK
  <2>. QED
    BY <1>10, <2>2 DEF AppendInterval, TypeOK, PCs
<1>11. CASE SetLastProcessed
  BY <1>11 DEF SetLastProcessed, TypeOK, PCs, Ticks
<1>12. CASE SetIntervals
  <2>1. intervals' \in [Epochs -> Seq(Interval)]
    BY <1>12, ExtendLastIntervalType DEF SetIntervals, TypeOK
  <2>. QED
    BY <1>12, <2>1 DEF SetIntervals, TypeOK, PCs, Ticks
<1>13. CASE CrashRestart
  BY <1>13 DEF CrashRestart, TypeOK, PCs, Ticks, NoTick
<1>14. CASE WaitForTick \/ UNCHANGED vars
  BY <1>14 DEF WaitForTick, vars, storeVars, taskVars, TypeOK
<1>. QED
  BY <1>1, <1>2, <1>3, <1>4, <1>5, <1>6, <1>7, <1>8, <1>9, <1>10, <1>11,
     <1>12, <1>13, <1>14 DEF Next, ProcessTick

(* Every reachable state of the pipeline, crashes and a misbehaving node *)
(* included, has the types TypeOK gives the store records and the task.  *)
THEOREM TypeCorrect == Spec => []TypeOK
BY TypeInit, TypeNext, PTL DEF Spec

-----------------------------------------------------------------------------
(***************************************************************************)
(* No orphan transactions, whatever the node answers.                      *)
(***************************************************************************)

LEMMA OrphanInit == Init => OrphanInv
BY ConstantsAssumption, TypeInit DEF Init, OrphanInv, NoOrphanTransactions, Ticks

(* The union of the bodies of the stored ticks grows with tickData. *)
LEMMA BodiesMonotone ==
    ASSUME NEW A, NEW B, A \subseteq B
    PROVE  UNION {Body[t] : t \in A} \subseteq UNION {Body[t] : t \in B}
OBVIOUS

LEMMA OrphanNext == OrphanInv /\ [Next]_vars => OrphanInv'
<1> USE ConstantsAssumption
<1> SUFFICES ASSUME OrphanInv, [Next]_vars PROVE OrphanInv'
  OBVIOUS
<1>0. TypeOK'
  BY TypeNext DEF OrphanInv
<1> SUFFICES /\ validTxs' \subseteq Body[cur']
             /\ pc' \in AfterTickStored /\ validTxs' # {} => cur' \in tickData'
             /\ NoOrphanTransactions'
  BY <1>0 DEF OrphanInv
<1> DEFINE Stored(S) == UNION {Body[t] : t \in S}
<1>1. CASE FetchFailed \/ ValidationFailed
  BY <1>1 DEF FetchFailed, ValidationFailed, taskVars, OrphanInv, NoOrphanTransactions
<1>2. CASE EmptyQuorumTick
  BY <1>2 DEF EmptyQuorumTick, OrphanInv, NoOrphanTransactions, AfterTickStored
<1>3. CASE Validated
  <2>1. PICK txs \in NodeTxAnswers(next) :
            /\ ValidateTxs(txs, Body[next]).ok
            /\ validTxs' = ValidateTxs(txs, Body[next]).txs
    BY <1>3 DEF Validated
  <2>2. validTxs' \subseteq Body[cur']
    BY <1>3, <2>1, ValidateTxsSubset DEF Validated
  <2>. QED
    BY <1>3, <2>2 DEF Validated, OrphanInv, NoOrphanTransactions, AfterTickStored
<1>4. CASE StoreQuorum
  BY <1>4 DEF StoreQuorum, OrphanInv, NoOrphanTransactions, AfterTickStored
<1>5. CASE StoreTick
  <2>1. Stored(tickData) \subseteq Stored(tickData')
    BY <1>5, BodiesMonotone DEF StoreTick
  <2>. QED
    BY <1>5, <2>1 DEF StoreTick, OrphanInv, NoOrphanTransactions, AfterTickStored
<1>6. CASE StoreTxs \/ StoreTransfers \/ StoreAssets
  <2>1. validTxs \subseteq Stored(tickData)
    BY <1>6 DEF StoreTxs, StoreTransfers, StoreAssets, OrphanInv, AfterTickStored
  <2>. QED
    BY <1>6, <2>1 DEF StoreTxs, StoreTransfers, StoreAssets, OrphanInv,
                      NoOrphanTransactions, AfterTickStored
<1>7. CASE AppendInterval \/ SetLastProcessed \/ SetIntervals
  BY <1>7 DEF AppendInterval, SetLastProcessed, SetIntervals, OrphanInv,
              NoOrphanTransactions, AfterTickStored
<1>8. CASE CrashRestart
  BY <1>8 DEF CrashRestart, OrphanInv, NoOrphanTransactions
<1>9. CASE WaitForTick \/ UNCHANGED vars
  BY <1>9 DEF WaitForTick, vars, storeVars, taskVars, OrphanInv, NoOrphanTransactions
<1>. QED
  BY <1>0, <1>1, <1>2, <1>3, <1>4, <1>5, <1>6, <1>7, <1>8, <1>9 DEF Next, ProcessTick

(* Every transaction with a TickTx record and every transfer or asset      *)
(* index entry belongs to the body of a tick whose TickData is stored:     *)
(* tx.Validate only passes digests of the tick body, and tick.Store        *)
(* commits before tx.Store, whatever the node sends and wherever the       *)
(* process crashes.                                                        *)
THEOREM NoOrphans == Spec => []NoOrphanTransactions
<1>1. OrphanInv => NoOrphanTransactions
  BY DEF OrphanInv
<1>. QED
  BY <1>1, OrphanInit, OrphanNext, PTL DEF Spec

-----------------------------------------------------------------------------
(***************************************************************************)
(* Every tick up to LastProcessedTick is fully indexed, for a node that    *)
(* answers with distinct transactions and a quorum whose first vote is in  *)
(* the aligned group.                                                      *)
(***************************************************************************)

LEMMA IndexedInit == Init => IndexedInv
BY ConstantsAssumption, TypeInit
   DEF Init, IndexedInv, ProcessedTicksIndexed, Ticks, NoTick, AfterTickStored,
       AfterTxsStored, AfterTransfersStored, AfterAssetsStored

(* With a first vote in the aligned group, the processor takes a tick as  *)
(* empty exactly when its quorum agreed on a zero digest.                 *)
LEMMA EmptyQuorumIsEmpty ==
    ASSUME ~FirstVoteMayDissent, NEW t, "zero" \in FirstVoteDigests(t)
    PROVE  t \in EmptyTicks
BY DEF FirstVoteDigests

LEMMA IndexedNext ==
    ASSUME ~FirstVoteMayDissent, ~NodeMayRepeat
    PROVE  IndexedInv /\ [Next]_vars => IndexedInv'
<1> USE ConstantsAssumption
<1> SUFFICES ASSUME IndexedInv, [Next]_vars PROVE IndexedInv'
  OBVIOUS
<1>0. TypeOK'
  BY TypeNext DEF IndexedInv
<1> SUFFICES
      /\ pc' # "idle" => next' = cur' /\ validTxs' = Body[cur']
      /\ pc' = "setIntervals" => lastProcessed'.tick = cur'
      /\ pc' # "setIntervals" => lastProcessed'.tick < next'
      /\ \A t \in Ticks : lastProcessed'.tick < t /\ t < next' => t \in skipped'
      /\ pc' \in AfterTickStored /\ cur' \notin EmptyTicks => cur' \in tickData'
      /\ pc' \in AfterTxsStored => validTxs' \subseteq tickTx'
      /\ pc' \in AfterTransfersStored => validTxs' \cap Transfers \subseteq transferIdx'
      /\ pc' \in AfterAssetsStored => validTxs' \cap AssetTxs \subseteq assetIdx'
      /\ ProcessedTicksIndexed'
  BY <1>0 DEF IndexedInv
<1> USE DEF AfterTickStored, AfterTxsStored, AfterTransfersStored, AfterAssetsStored
<1>1. CASE FetchFailed
  BY <1>1 DEF FetchFailed, taskVars, IndexedInv, ProcessedTicksIndexed
<1>2. CASE ValidationFailed
  <2>1. /\ pc = "idle" /\ pc' = "idle"
        /\ next' = next + 1 /\ skipped' = skipped \cup {next}
        /\ UNCHANGED <<lastProcessed, tickData, tickTx, transferIdx, assetIdx>>
    BY <1>2 DEF ValidationFailed
  <2>2. /\ lastProcessed.tick \in Nat /\ next \in Nat
        /\ lastProcessed.tick < next
        /\ \A t \in Ticks : lastProcessed.tick < t /\ t < next => t \in skipped
    BY <2>1 DEF IndexedInv, TypeOK, Ticks, NoTick
  <2>3. \A t \in Ticks : lastProcessed'.tick < t /\ t < next' => t \in skipped'
    BY <2>1, <2>2 DEF Ticks
  <2>4. ProcessedTicksIndexed'
    BY <2>1 DEF IndexedInv, ProcessedTicksIndexed
  <2>. QED
    BY <2>1, <2>2, <2>3, <2>4
<1>3. CASE EmptyQuorumTick
  <2>1. next \in EmptyTicks
    BY <1>3, EmptyQuorumIsEmpty DEF EmptyQuorumTick
  <2>2. Body[cur'] = {}
    BY <1>3, <2>1 DEF EmptyQuorumTick
  <2>. QED
    BY <1>3, <2>1, <2>2 DEF EmptyQuorumTick, IndexedInv, ProcessedTicksIndexed
<1>4. CASE Validated
  <2>1. PICK txs \in NodeTxAnswers(next) :
            /\ ValidateTxs(txs, Body[next]).ok
            /\ validTxs' = ValidateTxs(txs, Body[next]).txs
    BY <1>4 DEF Validated
  <2>2. PICK n \in 0..Cardinality(Body[next]) + 1 :
            txs \in [1..n -> Body[next] \cup {Forged}] /\ IsInjective(txs)
    BY <2>1 DEF NodeTxAnswers
  <2>3. next \in Ticks
    BY <1>4 DEF Validated, IndexedInv, TypeOK, Ticks
  <2>4. n \in Nat
    BY <2>3, FS_Subset, FS_CardinalityType
  <2>5. validTxs' = Body[next]
    BY <2>1, <2>2, <2>3, <2>4, ValidatedTxsAreBody
  <2>. QED
    BY <1>4, <2>5 DEF Validated, IndexedInv, ProcessedTicksIndexed
<1>5. CASE StoreQuorum
  BY <1>5 DEF StoreQuorum, IndexedInv, ProcessedTicksIndexed
<1>6. CASE StoreTick
  BY <1>6 DEF StoreTick, IndexedInv, ProcessedTicksIndexed
<1>7. CASE StoreTxs
  BY <1>7 DEF StoreTxs, IndexedInv, ProcessedTicksIndexed
<1>8. CASE StoreTransfers
  BY <1>8 DEF StoreTransfers, IndexedInv, ProcessedTicksIndexed
<1>9. CASE StoreAssets
  BY <1>9 DEF StoreAssets, IndexedInv, ProcessedTicksIndexed
<1>10. CASE AppendInterval
  BY <1>10 DEF AppendInterval, IndexedInv, ProcessedTicksIndexed
<1>11. CASE SetLastProcessed
  <2>1. /\ lastProcessed'.tick = cur /\ cur = next /\ lastProcessed.tick < cur
        /\ validTxs = Body[cur]
    BY <1>11 DEF SetLastProcessed, IndexedInv
  <2>4. /\ pc' = "setIntervals"
        /\ UNCHANGED <<cur, next, validTxs, tickData, tickTx, transferIdx, assetIdx, skipped>>
    BY <1>11 DEF SetLastProcessed
  <2>2. cur \notin EmptyTicks => /\ cur \in tickData
                                 /\ Body[cur] \subseteq tickTx
                                 /\ Body[cur] \cap Transfers \subseteq transferIdx
                                 /\ Body[cur] \cap AssetTxs \subseteq assetIdx
    BY <1>11 DEF SetLastProcessed, IndexedInv
  <2>3. ProcessedTicksIndexed'
    <3> SUFFICES ASSUME NEW t \in 1..cur, t \notin EmptyTicks, t \notin skipped
                 PROVE  /\ t \in tickData
                        /\ Body[t] \subseteq tickTx
                        /\ Body[t] \cap Transfers \subseteq transferIdx
                        /\ Body[t] \cap AssetTxs \subseteq assetIdx
      BY <1>11, <2>1 DEF SetLastProcessed, ProcessedTicksIndexed
    <3>1. CASE t <= lastProcessed.tick
      BY <3>1 DEF IndexedInv, ProcessedTicksIndexed, TypeOK, Ticks, NoTick
    <3>2. CASE lastProcessed.tick < t /\ t < cur
      BY <2>1, <3>2 DEF IndexedInv, TypeOK, Ticks
    <3>3. CASE t = cur
      BY <2>2, <3>3
    <3>. QED
      BY <2>1, <3>1, <3>2, <3>3 DEF IndexedInv, TypeOK, Ticks, NoTick
  <2>5. /\ cur \notin EmptyTicks => cur \in tickData
        /\ validTxs \subseteq tickTx
        /\ validTxs \cap Transfers \subseteq transferIdx
        /\ validTxs \cap AssetTxs \subseteq assetIdx
    BY <1>11 DEF SetLastProcessed, IndexedInv
  <2>6. lastProcessed'.tick = next'
    BY <2>1, <2>4
  <2>7. next' = cur' /\ validTxs' = Body[cur']
    BY <2>1, <2>4
  <2>8. \A t \in Ticks : lastProcessed'.tick < t /\ t < next' => t \in skipped'
    BY <1>0, <2>6 DEF TypeOK, Ticks, NoTick
  <2>9. pc' \in AfterTickStored /\ cur' \notin EmptyTicks => cur' \in tickData'
    BY <2>4, <2>5
  <2>10. /\ validTxs' \subseteq tickTx'
         /\ validTxs' \cap Transfers \subseteq transferIdx'
         /\ validTxs' \cap AssetTxs \subseteq assetIdx'
    BY <2>4, <2>5
  <2>. QED
    BY <2>1, <2>3, <2>4, <2>7, <2>8, <2>9, <2>10
<1>12. CASE SetIntervals
  BY <1>12 DEF SetIntervals, IndexedInv, ProcessedTicksIndexed, TypeOK, Ticks
<1>13. CASE CrashRestart
  BY <1>13 DEF CrashRestart, IndexedInv, ProcessedTicksIndexed, TypeOK, Ticks, NoTick
<1>14. CASE WaitForTick \/ UNCHANGED vars
  BY <1>14 DEF WaitForTick, vars, storeVars, taskVars, IndexedInv, ProcessedTicksIndexed
<1>. QED
  BY <1>1, <1>2, <1>3, <1>4, <1>5, <1>6, <1>7, <1>8, <1>9, <1>10, <1>11,
     <1>12, <1>13, <1>14 DEF Next, ProcessTick

(* For a source node that never repeats a transaction and a quorum whose *)
(* first vote is in the aligned group, every tick up to LastProcessedTick *)
(* that the quorum fixed a body for and that was not skipped has its      *)
(* TickData, all its TickTx records and both index entries stored, across *)
(* crashes, restarts and skipped ticks.                                   *)
THEOREM IndexedUpToLastProcessed ==
    ASSUME ~FirstVoteMayDissent, ~NodeMayRepeat
    PROVE  Spec => []ProcessedTicksIndexed
<1>1. IndexedInv => ProcessedTicksIndexed
  BY DEF IndexedInv
<1>. QED
  BY <1>1, IndexedInit, IndexedNext, PTL DEF Spec

-----------------------------------------------------------------------------
(***************************************************************************)
(* The pipeline implements ArchiveIndex, the promise to readers.           *)
(***************************************************************************)

LEMMA RefinementInit == Init => Abs!AbsInit
BY DEF Init, Abs!AbsInit, NoTick

(* Each store write of ValidateTick adds records of the tick in flight,   *)
(* which lies beyond LastProcessedTick; ValidationFailed skips such a      *)
(* tick; the first commit of SetLastProcessedTick moves LastProcessedTick  *)
(* over skipped ticks onto a fully stored one; every other step leaves the *)
(* records readers see unchanged.                                          *)
LEMMA RefinementNext ==
    ASSUME ~FirstVoteMayDissent, ~NodeMayRepeat
    PROVE  IndexedInv /\ [Next]_vars => [Abs!AbsNext]_Abs!absVars
<1> USE ConstantsAssumption
<1> SUFFICES ASSUME IndexedInv, [Next]_vars PROVE [Abs!AbsNext]_Abs!absVars
  OBVIOUS
<1> DEFINE Stutter == UNCHANGED <<lastProcessed.tick, skipped, tickData, tickTx,
                                  transferIdx, assetIdx>>
<1>0. Stutter => UNCHANGED Abs!absVars
  BY DEF Abs!absVars
(* The tick in flight of a store call lies beyond LastProcessedTick. *)
<1>1. pc \in {"storeTick", "storeTxs", "storeTransfers", "storeAssets",
              "setLastProcessed"}
        => /\ cur \in Ticks /\ lastProcessed.tick < cur /\ validTxs = Body[cur]
  BY DEF IndexedInv, TypeOK
<1>2. CASE FetchFailed \/ EmptyQuorumTick \/ Validated \/ StoreQuorum
           \/ AppendInterval \/ SetIntervals \/ CrashRestart
           \/ WaitForTick \/ UNCHANGED vars
  BY <1>0, <1>2 DEF FetchFailed, EmptyQuorumTick, Validated, StoreQuorum,
                    AppendInterval, SetIntervals, CrashRestart, WaitForTick,
                    vars, storeVars
<1>3. CASE ValidationFailed
  <2>1. next \in Ticks /\ lastProcessed.tick < next
    BY <1>3 DEF ValidationFailed, IndexedInv, TypeOK, Ticks
  <2>2. Abs!SkipTick(next)
    BY <1>3, <2>1 DEF ValidationFailed, Abs!SkipTick
  <2>. QED
    BY <2>1, <2>2 DEF Abs!AbsNext, Abs!Ticks, Ticks
<1>4. CASE StoreTick \/ StoreTxs \/ StoreTransfers \/ StoreAssets
  <2>1. Abs!WriteTick(cur)
    BY <1>1, <1>4 DEF StoreTick, StoreTxs, StoreTransfers, StoreAssets, Abs!WriteTick
  <2>. QED
    BY <1>1, <1>4, <2>1 DEF StoreTick, StoreTxs, StoreTransfers, StoreAssets,
                            Abs!AbsNext, Abs!Ticks, Ticks
<1>5. CASE SetLastProcessed
  <2>1. /\ cur \in Ticks /\ lastProcessed.tick < cur
        /\ \A u \in (lastProcessed.tick + 1)..(cur - 1) : u \in skipped
    BY <1>1, <1>5 DEF SetLastProcessed, IndexedInv, TypeOK, Ticks, NoTick
  <2>2. cur \notin EmptyTicks => Abs!FullyStored(cur)
    BY <1>1, <1>5 DEF SetLastProcessed, IndexedInv, Abs!FullyStored,
                      AfterTickStored, AfterTxsStored, AfterTransfersStored,
                      AfterAssetsStored
  <2>3. Abs!CommitTick(cur)
    BY <1>5, <2>1, <2>2 DEF SetLastProcessed, Abs!CommitTick
  <2>. QED
    BY <2>1, <2>3 DEF Abs!AbsNext, Abs!Ticks, Ticks
<1>. QED
  BY <1>2, <1>3, <1>4, <1>5 DEF Next, ProcessTick

(* For a source node that never repeats a transaction and a quorum whose *)
(* first vote is in the aligned group, the pipeline (ValidateTick's store *)
(* calls, the processor's bookkeeping, crashes and restarts) implements   *)
(* the ArchiveIndex promise: a tick's records are written only while it   *)
(* lies beyond LastProcessedTick, and LastProcessedTick only moves over    *)
(* skipped ticks onto an empty or fully stored tick.                       *)
THEOREM ArchiverImplementsArchiveIndex ==
    ASSUME ~FirstVoteMayDissent, ~NodeMayRepeat
    PROVE  Spec => ImplementsArchiveIndex
<1>1. IndexedInv /\ [Next]_vars => [Abs!AbsNext]_Abs!absVars
  BY RefinementNext
<1>. QED
  BY <1>1, RefinementInit, IndexedInit, IndexedNext, PTL
     DEF Spec, ImplementsArchiveIndex, Abs!AbsSpec

(* The abstract index's own guarantee, under the same mapping. *)
AbsP == INSTANCE ArchiveIndex_proofs WITH lastTick <- lastProcessed.tick,
                                          skippedTicks <- skipped

(* ProcessedTicksIndexed again, now as a consequence of the refinement:   *)
(* the pipeline implements ArchiveIndex, and every implementation of it   *)
(* gives readers fully stored ticks up to LastProcessedTick.              *)
THEOREM IndexedByRefinement ==
    ASSUME ~FirstVoteMayDissent, ~NodeMayRepeat
    PROVE  Spec => []ProcessedTicksIndexed
<1>1. Spec => AbsP!AbsSpec
  <2>1. Abs!AbsInit <=> AbsP!AbsInit
    BY DEF Abs!AbsInit, AbsP!AbsInit
  <2>2. [Abs!AbsNext]_Abs!absVars <=> [AbsP!AbsNext]_AbsP!absVars
    BY DEF Abs!AbsNext, AbsP!AbsNext, Abs!absVars, AbsP!absVars, Abs!Ticks, AbsP!Ticks,
           Abs!WriteTick, AbsP!WriteTick, Abs!SkipTick, AbsP!SkipTick,
           Abs!CommitTick, AbsP!CommitTick, Abs!FullyStored, AbsP!FullyStored
  <2>. QED
    BY <2>1, <2>2, ArchiverImplementsArchiveIndex, PTL
       DEF ImplementsArchiveIndex, Abs!AbsSpec, AbsP!AbsSpec
<1>2. AbsP!AbsSpec => []AbsP!AbsIndexed
  BY AbsP!AbsReadersSeeFullTicks, ConstantsAssumption
<1>3. AbsP!AbsIndexed <=> ProcessedTicksIndexed
  BY DEF AbsP!AbsIndexed, AbsP!FullyStored, ProcessedTicksIndexed
<1>. QED
  BY <1>1, <1>2, <1>3, PTL


-----------------------------------------------------------------------------
(***************************************************************************)
(* LastProcessedTick and the per-epoch last ticks never move back, for    *)
(* every node behaviour, crashes included. The inductive invariant keeps  *)
(* the tick in progress above LastProcessedTick until SetLastProcessedTick *)
(* records it, and every epoch's last tick at or below LastProcessedTick.  *)
(***************************************************************************)

ControlInv ==
    /\ TypeOK
    /\ pc # "idle" => next = cur
    /\ pc = "setIntervals" => lastProcessed.tick = cur
    /\ pc # "setIntervals" => lastProcessed.tick < next
    /\ \A e \in Epochs : lastPerEpoch[e] <= lastProcessed.tick

(* The step LastProcessedNeverRegresses allows. *)
NoRegressStep ==
    /\ lastProcessed.tick <= lastProcessed'.tick
    /\ \A e \in Epochs : lastPerEpoch'[e] # lastPerEpoch[e] =>
           /\ lastPerEpoch[e] < lastPerEpoch'[e]
           /\ lastPerEpoch'[e] = lastProcessed'.tick

LEMMA ControlInit == Init => ControlInv
BY ConstantsAssumption, TypeInit DEF Init, ControlInv, NoTick

LEMMA ControlNext == ControlInv /\ [Next]_vars => ControlInv'
<1> USE ConstantsAssumption
<1> SUFFICES ASSUME ControlInv, [Next]_vars PROVE ControlInv'
  OBVIOUS
<1>0. TypeOK'
  BY TypeNext DEF ControlInv
<1>1. CASE FetchFailed
  BY <1>0, <1>1 DEF FetchFailed, taskVars, ControlInv
<1>2. CASE ValidationFailed
  BY <1>0, <1>2 DEF ValidationFailed, ControlInv, TypeOK, Ticks, NoTick
<1>3. CASE EmptyQuorumTick
  BY <1>0, <1>3 DEF EmptyQuorumTick, ControlInv
<1>4. CASE Validated
  BY <1>0, <1>4 DEF Validated, ControlInv
<1>5. CASE StoreQuorum \/ StoreTick \/ StoreTxs \/ StoreTransfers \/ StoreAssets
  BY <1>0, <1>5 DEF StoreQuorum, StoreTick, StoreTxs, StoreTransfers, StoreAssets,
                    ControlInv
<1>6. CASE AppendInterval
  BY <1>0, <1>6 DEF AppendInterval, ControlInv
<1>7. CASE SetLastProcessed
  <2>1. lastProcessed.tick < cur /\ cur \in Ticks /\ EpochOf[cur] \in Epochs
    BY <1>7 DEF SetLastProcessed, ControlInv, TypeOK
  <2>2. ASSUME NEW e \in Epochs PROVE lastPerEpoch'[e] <= lastProcessed'.tick
    <3>1. lastProcessed'.tick = cur
      BY <1>7 DEF SetLastProcessed
    <3>2. CASE e = EpochOf[cur]
      BY <1>7, <2>1, <3>1, <3>2 DEF SetLastProcessed, ControlInv, TypeOK, Ticks
    <3>3. CASE e # EpochOf[cur]
      <4>1. lastPerEpoch'[e] = lastPerEpoch[e]
        BY <1>7, <3>3 DEF SetLastProcessed, ControlInv, TypeOK
      <4>2. lastPerEpoch[e] <= lastProcessed.tick
        BY DEF ControlInv
      <4>3. lastPerEpoch[e] \in Nat /\ lastProcessed.tick \in Nat /\ cur \in Nat
        BY ConstantsAssumption DEF ControlInv, TypeOK, Ticks, NoTick
      <4>. QED
        BY <2>1, <3>1, <4>1, <4>2, <4>3
    <3>. QED
      BY <3>2, <3>3
  <2>. QED
    BY <1>0, <1>7, <2>2 DEF SetLastProcessed, ControlInv
<1>8. CASE SetIntervals
  BY <1>0, <1>8 DEF SetIntervals, ControlInv, TypeOK, Ticks, NoTick
<1>9. CASE CrashRestart
  BY <1>0, <1>9 DEF CrashRestart, ControlInv, TypeOK, Ticks, NoTick
<1>10. CASE WaitForTick \/ UNCHANGED vars
  BY <1>0, <1>10 DEF WaitForTick, vars, storeVars, taskVars, ControlInv
<1>. QED
  BY <1>1, <1>2, <1>3, <1>4, <1>5, <1>6, <1>7, <1>8, <1>9, <1>10 DEF Next, ProcessTick

(* Only SetLastProcessedTick writes LastProcessedTick or a per-epoch last *)
(* tick.                                                                  *)
LEMMA OnlySetLastProcessedWrites ==
    [Next]_vars => SetLastProcessed \/ UNCHANGED <<lastProcessed, lastPerEpoch>>
BY DEF Next, ProcessTick, FetchFailed, ValidationFailed, EmptyQuorumTick, Validated,
       StoreQuorum, StoreTick, StoreTxs, StoreTransfers, StoreAssets, AppendInterval,
       SetIntervals, CrashRestart, WaitForTick, vars, storeVars, taskVars

LEMMA NoRegressNext == ControlInv /\ [Next]_vars => [NoRegressStep]_vars
<1> SUFFICES ASSUME ControlInv, [Next]_vars PROVE NoRegressStep
  OBVIOUS
<1>1. CASE SetLastProcessed
  <2>1. lastProcessed.tick < cur /\ lastProcessed'.tick = cur
    BY <1>1 DEF SetLastProcessed, ControlInv
  <2>2. ASSUME NEW e \in Epochs, lastPerEpoch'[e] # lastPerEpoch[e]
        PROVE  lastPerEpoch'[e] = cur /\ lastPerEpoch[e] < cur
    <3>1. e = EpochOf[cur]
      BY <1>1, <2>2 DEF SetLastProcessed, ControlInv, TypeOK
    <3>2. lastPerEpoch'[e] = cur
      BY <1>1, <3>1 DEF SetLastProcessed, ControlInv, TypeOK, Ticks
    <3>. QED
      BY <2>1, <3>2 DEF ControlInv, TypeOK, Ticks, NoTick
  <2>. QED
    BY <2>1, <2>2, ConstantsAssumption DEF NoRegressStep, ControlInv, TypeOK, Ticks, NoTick
<1>2. CASE UNCHANGED <<lastProcessed, lastPerEpoch>>
  BY <1>2, ConstantsAssumption DEF NoRegressStep, ControlInv, TypeOK, Ticks, NoTick
<1>. QED
  BY <1>1, <1>2, OnlySetLastProcessedWrites

(* Whatever the node answers and however often the process crashes and    *)
(* restarts, LastProcessedTick never moves back, and an epoch's last tick *)
(* changes only forward onto the new LastProcessedTick (the batch of      *)
(* SetLastProcessedTick, the restart reading LastProcessedTick back).     *)
THEOREM LastProcessedMonotonic == Spec => LastProcessedNeverRegresses
<1>1. Spec => []ControlInv
  BY ControlInit, ControlNext, PTL DEF Spec
<1>2. Spec => [][NoRegressStep]_vars
  BY <1>1, NoRegressNext, PTL DEF Spec
<1>. QED
  BY <1>2 DEF LastProcessedNeverRegresses, NoRegressStep

=============================================================================
