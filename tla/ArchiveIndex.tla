----------------------------- MODULE ArchiveIndex -----------------------------
(***************************************************************************)
(* What the archiving pipeline promises the readers of the store (spec     *)
(* sections 5 and 8), with no store call, task state or crash in it:       *)
(*  - a tick's records appear only while it lies beyond LastProcessedTick, *)
(*    and only records of that tick's body;                                *)
(*  - LastProcessedTick moves forward, only over ticks recorded as skipped,*)
(*    and only onto a tick that is empty or whose tick data, transactions *)
(*    and secondary index records are all stored;                          *)
(*  - nothing a reader can find is ever taken away.                        *)
(* The detailed pipeline of module Archiver implements it under the        *)
(* identity mapping of these records (Archiver!ArchiveIndexSpec).          *)
(***************************************************************************)
EXTENDS Naturals

CONSTANTS MaxTick, TxIds, Body, EmptyTicks, Transfers, AssetTxs

VARIABLES
    lastTick,     \* LastProcessedTick (0: none yet)
    skippedTicks, \* ticks recorded in SkippedTicksInterval
    tickData,     \* ticks with a TickData record
    tickTx,       \* transactions with a TickTx record
    transferIdx,  \* transactions in some IdentityTransferTxs record
    assetIdx      \* transactions in some QxIdentityAssetTransfers record

absVars == <<lastTick, skippedTicks, tickData, tickTx, transferIdx, assetIdx>>

Ticks == 1..MaxTick

(* The records a reader finds for tick t once it is processed. *)
FullyStored(t) ==
    /\ t \in tickData
    /\ Body[t] \subseteq tickTx
    /\ Body[t] \cap Transfers \subseteq transferIdx
    /\ Body[t] \cap AssetTxs \subseteq assetIdx

AbsInit ==
    /\ lastTick = 0 /\ skippedTicks = {}
    /\ tickData = {} /\ tickTx = {} /\ transferIdx = {} /\ assetIdx = {}

(* Some records of tick t, a tick beyond LastProcessedTick, are stored. *)
WriteTick(t) ==
    /\ lastTick < t
    /\ tickData \subseteq tickData' /\ tickData' \subseteq tickData \cup {t}
    /\ tickTx \subseteq tickTx' /\ tickTx' \subseteq tickTx \cup Body[t]
    /\ transferIdx \subseteq transferIdx'
    /\ transferIdx' \subseteq transferIdx \cup (Body[t] \cap Transfers)
    /\ assetIdx \subseteq assetIdx' /\ assetIdx' \subseteq assetIdx \cup (Body[t] \cap AssetTxs)
    /\ UNCHANGED <<lastTick, skippedTicks>>

(* Tick t, beyond LastProcessedTick, is recorded as skipped. *)
SkipTick(t) ==
    /\ lastTick < t
    /\ skippedTicks' = skippedTicks \cup {t}
    /\ UNCHANGED <<lastTick, tickData, tickTx, transferIdx, assetIdx>>

(* LastProcessedTick moves to t over skipped ticks only, and t is empty  *)
(* or fully stored.                                                      *)
CommitTick(t) ==
    /\ lastTick < t
    /\ \A u \in (lastTick + 1)..(t - 1) : u \in skippedTicks
    /\ t \notin EmptyTicks => FullyStored(t)
    /\ lastTick' = t
    /\ UNCHANGED <<skippedTicks, tickData, tickTx, transferIdx, assetIdx>>

AbsNext == \E t \in Ticks : WriteTick(t) \/ SkipTick(t) \/ CommitTick(t)

AbsSpec == AbsInit /\ [][AbsNext]_absVars

(* What the promise gives readers (spec section 5): every tick up to      *)
(* LastProcessedTick that is neither empty nor skipped has its tick data, *)
(* transactions and index records stored.                                 *)
AbsIndexed ==
    \A t \in 1..lastTick :
        t \notin EmptyTicks /\ t \notin skippedTicks => FullyStored(t)

=============================================================================
