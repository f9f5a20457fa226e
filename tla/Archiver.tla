------------------------------- MODULE Archiver -------------------------------
(***************************************************************************)
(* The archiving pipeline of go-archiver: the processor loop that walks    *)
(* the ticks, Validator.ValidateTick (fetch, validate, store) and the      *)
(* PebbleStore writes it makes, with the process crashing and restarting   *)
(* between any two store calls.                                            *)
(*                                                                         *)
(* Data is abstracted to what the properties tell apart: a transaction is  *)
(* its digest (a model value of TxIds), a tick body is the set of digests  *)
(* it lists, an index is the set of transactions that have a record in it. *)
(* What the source node answers is a nondeterministic choice: it may fail, *)
(* send forged transactions, drop or repeat some, or send tick data that   *)
(* does not match the quorum.                                              *)
(***************************************************************************)
EXTENDS Naturals, Sequences, FiniteSets, Functions

CONSTANTS
    MaxTick,      \* ticks of the run are 1..MaxTick
    TxIds,        \* transaction digests
    Forged,       \* a transaction no tick body lists (or badly signed)
    Body,         \* Body[t]: the non-zero digests in the body the quorum fixed
    EmptyTicks,   \* ticks whose quorum agreed on a zero TxDigest
    Epochs,
    EpochOf,      \* EpochOf[t]: the epoch carried by the votes of tick t
    Transfers,    \* transactions with Amount # 0
    AssetTxs,     \* transactions ParseAssetTransaction classifies
    MaxCrashes,   \* bound on process crashes
    FirstVoteMayDissent, \* quorumVotes[0] may lie outside the aligned group
    NodeMayRepeat        \* the node may repeat a transaction in its answer

Ticks == 1..MaxTick

ASSUME ConstantsAssumption ==
    /\ MaxTick \in Nat \ {0}
    /\ IsFiniteSet(TxIds)
    /\ Forged \notin TxIds
    /\ Body \in [Ticks -> SUBSET TxIds]
    /\ EmptyTicks \subseteq Ticks
    /\ \A t \in EmptyTicks : Body[t] = {}
    /\ EpochOf \in [Ticks -> Epochs]
    /\ Transfers \subseteq TxIds /\ AssetTxs \subseteq TxIds
    /\ MaxCrashes \in Nat
    /\ FirstVoteMayDissent \in BOOLEAN /\ NodeMayRepeat \in BOOLEAN

NoTick == 0     \* LastProcessedTick absent (store.ErrNotFound)

Interval == [initialProcessedTick : Ticks, lastProcessedTick : Ticks]

VARIABLES
    (* PebbleStore, all writes pebble.Sync: survive a crash *)
    computors,      \* epochs with a Computors record
    quorumData,     \* ticks with a QuorumData record
    tickData,       \* ticks with a TickData record
    tickTx,         \* transactions with a TickTx record
    transferIdx,    \* transactions in some IdentityTransferTxs record
    assetIdx,       \* transactions in some QxIdentityAssetTransfers record
    lastProcessed,  \* LastProcessedTick record: [tick, epoch]
    lastPerEpoch,   \* LastProcessedTickPerEpoch records (NoTick = absent)
    intervals,      \* ProcessedTickIntervals record of each epoch
    skipped,        \* ticks recorded in SkippedTicksInterval
    (* the pipeline task, lost on a crash *)
    pc,             \* which store call of the current tick is next
    cur,            \* the tick being processed
    validTxs,       \* the transactions tx.Validate returned
    next,           \* the next tick the processor will process
    crashes

storeVars == <<computors, quorumData, tickData, tickTx, transferIdx, assetIdx,
               lastProcessed, lastPerEpoch, intervals, skipped>>
taskVars == <<pc, cur, validTxs, next, crashes>>
vars == <<storeVars, taskVars>>

PCs == {"idle", "storeQuorum", "storeTick", "storeTxs", "storeTransfers",
        "storeAssets", "appendInterval", "setLastProcessed", "setIntervals"}

TypeOK ==
    /\ computors \subseteq Epochs
    /\ quorumData \subseteq Ticks
    /\ tickData \subseteq Ticks
    /\ tickTx \subseteq TxIds /\ transferIdx \subseteq TxIds /\ assetIdx \subseteq TxIds
    /\ lastProcessed \in [tick : Ticks \cup {NoTick}, epoch : Epochs]
    /\ lastPerEpoch \in [Epochs -> Ticks \cup {NoTick}]
    /\ intervals \in [Epochs -> Seq(Interval)]
    /\ skipped \subseteq Ticks
    /\ pc \in PCs
    /\ cur \in Ticks
    /\ validTxs \subseteq TxIds
    /\ next \in 1..MaxTick + 1
    /\ crashes \in 0..MaxCrashes

-----------------------------------------------------------------------------
(* Mutants of ValidateTxs: the membership check dropped; the count check *)
(* dropped.                                                               *)
ValidateTxsNoMembership(txs, digests) ==
    IF digests = {} THEN [ok |-> TRUE, txs |-> {}]
    ELSE IF Len(txs) # Cardinality(digests)
         THEN [ok |-> FALSE, txs |-> {}]
         ELSE [ok |-> TRUE, txs |-> Range(txs)]

ValidateTxsNoCount(txs, digests) ==
    IF digests = {} THEN [ok |-> TRUE, txs |-> {}]
    ELSE IF ~(Range(txs) \subseteq digests)
         THEN [ok |-> FALSE, txs |-> {}]
         ELSE [ok |-> TRUE, txs |-> Range(txs)]

(* tx.Validate: the digests of the tick body, without the zero ones, must  *)
(* match the node's transactions one for one by count, and each            *)
(* transaction's digest must be one of them (a forged or badly signed      *)
(* transaction fails). The result is the transactions that were checked.   *)
ValidateTxs(txs, digests) ==
    IF digests = {} THEN [ok |-> TRUE, txs |-> {}]
    ELSE IF Len(txs) # Cardinality(digests) \/ ~(Range(txs) \subseteq digests)
         THEN [ok |-> FALSE, txs |-> {}]
         ELSE [ok |-> TRUE, txs |-> Range(txs)]

(* What GetTickTransactions may return for tick t. *)
NodeTxAnswers(t) ==
    {s \in UNION {[1..n -> Body[t] \cup {Forged}] : n \in 0..Cardinality(Body[t]) + 1} :
        NodeMayRepeat \/ IsInjective(s)}

(* The TxDigest of quorumVotes[0]: the aligned one, or a dissenting zero   *)
(* or other digest when the first vote is not in the aligned group.        *)
FirstVoteDigests(t) ==
    {IF t \in EmptyTicks THEN "zero" ELSE "body"}
    \cup (IF FirstVoteMayDissent THEN {"zero", "other"} ELSE {})

-----------------------------------------------------------------------------
Init ==
    /\ computors = {} /\ quorumData = {} /\ tickData = {}
    /\ tickTx = {} /\ transferIdx = {} /\ assetIdx = {}
    /\ lastProcessed = [tick |-> NoTick, epoch |-> EpochOf[1]]
    /\ lastPerEpoch = [e \in Epochs |-> NoTick]
    /\ intervals = [e \in Epochs |-> <<>>]
    /\ skipped = {}
    /\ pc = "idle" /\ cur = 1 /\ validTxs = {} /\ next = 1 /\ crashes = 0

(* ValidateTick stores the computors of the votes' epoch (first sighting)  *)
(* before it validates the quorum, whatever happens next.                  *)
StoreComputors(t) == computors' = computors \cup {EpochOf[t]}

(* ValidateTick(t) fails on a fetch: the processor retries the same tick. *)
FetchFailed ==
    /\ pc = "idle" /\ next <= MaxTick
    /\ computors' \in {computors, computors \cup {EpochOf[next]}}
    /\ UNCHANGED <<quorumData, tickData, tickTx, transferIdx, assetIdx,
                   lastProcessed, lastPerEpoch, intervals, skipped, taskVars>>

(* ValidateTick(t) fails to validate the quorum, the tick data or the     *)
(* transactions: the tick is recorded as skipped and the pipeline moves   *)
(* on without advancing LastProcessedTick. A computors.Validate failure   *)
(* returns before computors.Store; the quorum, tick data and transaction  *)
(* checks fail after it.                                                  *)
ValidationFailed ==
    /\ pc = "idle" /\ next <= MaxTick
    /\ computors' \in {computors, computors \cup {EpochOf[next]}}
    /\ skipped' = skipped \cup {next}
    /\ next' = next + 1
    /\ UNCHANGED <<quorumData, tickData, tickTx, transferIdx, assetIdx,
                   lastProcessed, lastPerEpoch, intervals, pc, cur, validTxs, crashes>>

(* ValidateTick(t) passes the quorum and quorumVotes[0].TxDigest is zero: *)
(* it returns nil without storing anything and the processor records t   *)
(* as processed.                                                         *)
EmptyQuorumTick ==
    /\ pc = "idle" /\ next <= MaxTick
    /\ "zero" \in FirstVoteDigests(next)
    /\ StoreComputors(next)
    /\ pc' = IF lastProcessed.tick # NoTick /\ next # lastProcessed.tick + 1
                THEN "appendInterval" ELSE "setLastProcessed"
    /\ cur' = next /\ validTxs' = {}
    /\ UNCHANGED <<quorumData, tickData, tickTx, transferIdx, assetIdx,
                   lastProcessed, lastPerEpoch, intervals, skipped, next, crashes>>

(* ValidateTick(t) validates the quorum, the tick data against the first  *)
(* vote's digest and the node's transactions against the tick data.       *)
Validated ==
    /\ pc = "idle" /\ next <= MaxTick
    /\ "body" \in FirstVoteDigests(next)
    /\ \E txs \in NodeTxAnswers(next) :
          LET r == ValidateTxs(txs, Body[next]) IN
          /\ r.ok
          /\ validTxs' = r.txs
    /\ StoreComputors(next)
    /\ pc' = "storeQuorum" /\ cur' = next
    /\ UNCHANGED <<quorumData, tickData, tickTx, transferIdx, assetIdx,
                   lastProcessed, lastPerEpoch, intervals, skipped, next, crashes>>

(* quorum.Store, tick.Store, then tx.Store's three writes, each committed *)
(* on its own.                                                            *)
(* Mutant of StoreQuorum: tick.Store no longer runs before tx.Store. *)
StoreQuorumSkipTick ==
    /\ pc = "storeQuorum"
    /\ quorumData' = quorumData \cup {cur}
    /\ pc' = "storeTxs"
    /\ UNCHANGED <<computors, tickData, tickTx, transferIdx, assetIdx, lastProcessed,
                   lastPerEpoch, intervals, skipped, cur, validTxs, next, crashes>>

StoreQuorum ==
    /\ pc = "storeQuorum"
    /\ quorumData' = quorumData \cup {cur}
    /\ pc' = "storeTick"
    /\ UNCHANGED <<computors, tickData, tickTx, transferIdx, assetIdx, lastProcessed,
                   lastPerEpoch, intervals, skipped, cur, validTxs, next, crashes>>

StoreTick ==
    /\ pc = "storeTick"
    /\ tickData' = tickData \cup {cur}
    /\ pc' = "storeTxs"
    /\ UNCHANGED <<computors, quorumData, tickTx, transferIdx, assetIdx, lastProcessed,
                   lastPerEpoch, intervals, skipped, cur, validTxs, next, crashes>>

StoreTxs ==
    /\ pc = "storeTxs"
    /\ tickTx' = tickTx \cup validTxs
    /\ pc' = "storeTransfers"
    /\ UNCHANGED <<computors, quorumData, tickData, transferIdx, assetIdx, lastProcessed,
                   lastPerEpoch, intervals, skipped, cur, validTxs, next, crashes>>

StoreTransfers ==
    /\ pc = "storeTransfers"
    /\ transferIdx' = transferIdx \cup (validTxs \cap Transfers)
    /\ pc' = "storeAssets"
    /\ UNCHANGED <<computors, quorumData, tickData, tickTx, assetIdx, lastProcessed,
                   lastPerEpoch, intervals, skipped, cur, validTxs, next, crashes>>

StoreAssets ==
    /\ pc = "storeAssets"
    /\ assetIdx' = assetIdx \cup (validTxs \cap AssetTxs)
    /\ pc' = IF lastProcessed.tick # NoTick /\ cur # lastProcessed.tick + 1
                THEN "appendInterval" ELSE "setLastProcessed"
    /\ UNCHANGED <<computors, quorumData, tickData, tickTx, transferIdx, lastProcessed,
                   lastPerEpoch, intervals, skipped, cur, validTxs, next, crashes>>

(* The processor opens a new interval when the tick does not follow the   *)
(* last processed one: AppendProcessedTickInterval reads the epoch's list *)
(* and writes it back with [t, t] appended.                               *)
AppendInterval ==
    /\ pc = "appendInterval"
    /\ intervals' = [intervals EXCEPT ![EpochOf[cur]] =
                        Append(@, [initialProcessedTick |-> cur, lastProcessedTick |-> cur])]
    /\ pc' = "setLastProcessed"
    /\ UNCHANGED <<computors, quorumData, tickData, tickTx, transferIdx, assetIdx,
                   lastProcessed, lastPerEpoch, skipped, cur, validTxs, next, crashes>>

(* SetLastProcessedTick, first commit: one batch with the per-epoch last  *)
(* tick and the global LastProcessedTick.                                 *)
SetLastProcessed ==
    /\ pc = "setLastProcessed"
    /\ lastPerEpoch' = [lastPerEpoch EXCEPT ![EpochOf[cur]] = cur]
    /\ lastProcessed' = [tick |-> cur, epoch |-> EpochOf[cur]]
    /\ pc' = "setIntervals"
    /\ UNCHANGED <<computors, quorumData, tickData, tickTx, transferIdx, assetIdx,
                   intervals, skipped, cur, validTxs, next, crashes>>

(* Mutants of ExtendLastInterval: the first interval extended instead of *)
(* the last; no first interval created for an epoch without one.          *)
ExtendFirstInterval(list, t) ==
    IF list = <<>>
    THEN <<[initialProcessedTick |-> t, lastProcessedTick |-> t]>>
    ELSE [list EXCEPT ![1].lastProcessedTick = t]

ExtendLastIntervalNoFirst(list, t) ==
    IF list = <<>> THEN list
    ELSE [list EXCEPT ![Len(list)].lastProcessedTick = t]

(* The epoch's interval list with its last interval extended to t, or a   *)
(* first interval [t, t] when it has none.                                *)
ExtendLastInterval(list, t) ==
    IF list = <<>>
    THEN <<[initialProcessedTick |-> t, lastProcessedTick |-> t]>>
    ELSE [list EXCEPT ![Len(list)].lastProcessedTick = t]

(* SetLastProcessedTick, second write: the epoch's intervals. *)
SetIntervals ==
    /\ pc = "setIntervals"
    /\ intervals' = [intervals EXCEPT ![EpochOf[cur]] = ExtendLastInterval(@, cur)]
    /\ pc' = "idle" /\ next' = cur + 1
    /\ UNCHANGED <<computors, quorumData, tickData, tickTx, transferIdx, assetIdx,
                   lastProcessed, lastPerEpoch, skipped, cur, validTxs, crashes>>

(* Mutant of CrashRestart: the processor starts again from the first tick *)
(* instead of after the LastProcessedTick it reads back.                   *)
CrashRestartFromGenesis ==
    /\ crashes < MaxCrashes
    /\ crashes' = crashes + 1
    /\ quorumData' = {}
    /\ pc' = "idle" /\ validTxs' = {}
    /\ next' = 1
    /\ UNCHANGED <<computors, tickData, tickTx, transferIdx, assetIdx, lastProcessed,
                   lastPerEpoch, intervals, skipped, cur>>

(* Mutant of CrashRestart: the processor resumes one tick too far. *)
CrashRestartSkipAhead ==
    /\ crashes < MaxCrashes
    /\ crashes' = crashes + 1
    /\ quorumData' = {}
    /\ pc' = "idle" /\ validTxs' = {}
    /\ next' = lastProcessed.tick + 2
    /\ UNCHANGED <<computors, tickData, tickTx, transferIdx, assetIdx, lastProcessed,
                   lastPerEpoch, intervals, skipped, cur>>

(* The process dies; the store survives. On restart PerformMigrations     *)
(* clears the QuorumData prefix and the processor resumes after the       *)
(* LastProcessedTick it reads back.                                       *)
CrashRestart ==
    /\ crashes < MaxCrashes
    /\ crashes' = crashes + 1
    /\ quorumData' = {}
    /\ pc' = "idle" /\ validTxs' = {}
    /\ next' = lastProcessed.tick + 1
    /\ UNCHANGED <<computors, tickData, tickTx, transferIdx, assetIdx, lastProcessed,
                   lastPerEpoch, intervals, skipped, cur>>

(* The processor has no newer tick to process and keeps polling. *)
WaitForTick ==
    /\ pc = "idle" /\ next = MaxTick + 1
    /\ UNCHANGED vars

ProcessTick ==
    \/ ValidationFailed \/ EmptyQuorumTick \/ Validated
    \/ StoreQuorum \/ StoreTick \/ StoreTxs \/ StoreTransfers \/ StoreAssets
    \/ AppendInterval \/ SetLastProcessed \/ SetIntervals

Next == ProcessTick \/ FetchFailed \/ CrashRestart \/ WaitForTick

(* The pipeline task runs whenever it can; the node answers a tick        *)
(* without a fetch error eventually (a fetch failure is transient).       *)
Spec == Init /\ [][Next]_vars /\ WF_vars(ProcessTick)

(* The pipeline of a process that never crashes: Next without CrashRestart *)
(* (the behaviours of Spec when MaxCrashes = 0).                           *)
NoCrashNext == ProcessTick \/ FetchFailed \/ WaitForTick

NoCrashSpec == Init /\ [][NoCrashNext]_vars /\ WF_vars(ProcessTick)

-----------------------------------------------------------------------------
(***************************************************************************)
(* Properties.                                                             *)
(***************************************************************************)

(* Readers may rely on every tick up to LastProcessedTick being fully     *)
(* indexed (spec section 5): the processor records a tick only after      *)
(* ValidateTick stored its tick data, its transactions and both secondary *)
(* indexes, across crashes, retries and skipped ticks.                    *)
ProcessedTicksIndexed ==
    \A t \in 1..lastProcessed.tick :
        t \notin EmptyTicks /\ t \notin skipped =>
            /\ t \in tickData
            /\ Body[t] \subseteq tickTx
            /\ Body[t] \cap Transfers \subseteq transferIdx
            /\ Body[t] \cap AssetTxs \subseteq assetIdx

(* No stored transaction or index record refers to a tick whose TickData  *)
(* is absent or whose body does not list it: tx.Validate rejects forged   *)
(* transactions and tick.Store commits before tx.Store.                   *)
NoOrphanTransactions ==
    tickTx \cup transferIdx \cup assetIdx \subseteq UNION {Body[t] : t \in tickData}

(* A reader that finds the TickData of a tick finds all its transactions  *)
(* and index records (spec 4.2: readers never observe a half-written      *)
(* tick).                                                                 *)
TickDataComplete ==
    \A t \in tickData :
        /\ Body[t] \subseteq tickTx
        /\ Body[t] \cap Transfers \subseteq transferIdx
        /\ Body[t] \cap AssetTxs \subseteq assetIdx

(* Outside the processor's bookkeeping of a tick (between the interval   *)
(* append and the end of SetLastProcessedTick), the per-epoch last        *)
(* processed tick is the end of the epoch's last processed interval       *)
(* (spec 8, item 4).                                                      *)
LastPerEpochMatchesIntervals ==
    pc \notin {"setLastProcessed", "setIntervals"} =>
        \A e \in Epochs : lastPerEpoch[e] # NoTick =>
            /\ intervals[e] # <<>>
            /\ intervals[e][Len(intervals[e])].lastProcessedTick = lastPerEpoch[e]

(* Each epoch's processed intervals are ascending, do not overlap, and    *)
(* have their first tick no later than their last (spec 8, item 4).      *)
IntervalsWellFormed ==
    \A e \in Epochs : \A i \in 1..Len(intervals[e]) :
        /\ intervals[e][i].initialProcessedTick <= intervals[e][i].lastProcessedTick
        /\ i > 1 => intervals[e][i - 1].lastProcessedTick < intervals[e][i].initialProcessedTick

(* LastProcessedTick never moves back, and an epoch's last processed tick *)
(* (LastProcessedTickPerEpoch) changes only by moving forward onto the new *)
(* LastProcessedTick: SetLastProcessedTick writes both in one batch, and a *)
(* restart resumes after the tick it reads back, so no tick at or below it *)
(* is processed, and recorded, again.                                      *)
LastProcessedNeverRegresses ==
    [][ /\ lastProcessed.tick <= lastProcessed'.tick
        /\ \A e \in Epochs : lastPerEpoch'[e] # lastPerEpoch[e] =>
               /\ lastPerEpoch[e] < lastPerEpoch'[e]
               /\ lastPerEpoch'[e] = lastProcessed'.tick ]_vars

(* Every tick whose quorum fixed a body is eventually archived (its       *)
(* TickData stored) or recorded as skipped: the processor, crashes and    *)
(* restarts included, never leaves such a tick behind.                    *)
EveryTickArchived ==
    \A t \in Ticks \ EmptyTicks : <>(t \in tickData \/ t \in skipped)

(* The pipeline implements the promise of module ArchiveIndex (spec      *)
(* sections 5 and 8) under the identity mapping of the records readers   *)
(* see: every step of ValidateTick, the processor and a crash and restart *)
(* is a step of ArchiveIndex or leaves the records unchanged, so a tick's  *)
(* records are written only while it lies beyond LastProcessedTick, and   *)
(* LastProcessedTick advances only over skipped ticks onto a tick that is *)
(* empty or fully stored.                                                 *)
Abs == INSTANCE ArchiveIndex WITH lastTick <- lastProcessed.tick,
                                  skippedTicks <- skipped

ImplementsArchiveIndex == Abs!AbsSpec

=============================================================================
