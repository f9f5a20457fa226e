------------------------------ MODULE Migrations ------------------------------
(***************************************************************************)
(* The start-up sequence of the archiver, migrations.PerformMigrations:   *)
(* the always-on DeleteUnusedDataMigration, then every registered          *)
(* migration whose number is above the stored DbMigrationVersion, each     *)
(* followed by SetMigrationVersion. The one registered migration,          *)
(* 001_asset_transfer, clears the QxIdentityAssetTransfers prefix and      *)
(* rebuilds it from the stored transactions of every tick from             *)
(* FindFirstTickNumber to LastProcessedTick.                               *)
(*                                                                         *)
(* The store is what start-up reads and writes: the stored ticks and their *)
(* transactions are fixed (the pipeline is not running yet); the asset     *)
(* index is the set of <<tick, transaction>> entries it holds. Every store *)
(* call is its own durable write, and the process may crash between any   *)
(* two of them; the next start runs the whole sequence again.             *)
(***************************************************************************)
EXTENDS Naturals, FiniteSets

CONSTANTS
    Ticks,        \* tick numbers that may have TickData
    TxIds,        \* transaction digests
    Body,         \* Body[t]: the transactions stored for tick t
    AssetTxs,     \* the transactions the asset classifier keeps
    NoTick,       \* LastProcessedTick absent (GetLastProcessedTick: ErrNotFound)
    MaxCrashes,   \* bound on crashes during start-up
    ReadMayFail,  \* GetTickTransactions may fail with an error other than NotFound
    FreshStore    \* the store may be one the archiver has never written

ASSUME MigrationsAssumption ==
    /\ Ticks \subseteq Nat /\ IsFiniteSet(Ticks)
    /\ NoTick \notin Ticks
    /\ Body \in [Ticks -> SUBSET TxIds]
    /\ AssetTxs \subseteq TxIds
    /\ MaxCrashes \in Nat
    /\ ReadMayFail \in BOOLEAN /\ FreshStore \in BOOLEAN

(* Len(migrations): the registered list holds AssetTransactionMigration. *)
MigrationCount == 1

PCs == {"deleteUnused", "getVersion", "nextMigration", "clearAssets",
        "getLast", "findFirst", "loop", "setVersion", "done", "failed"}

VARIABLES
    quorumData,     \* the QuorumData prefix holds records
    version,        \* DbMigrationVersion (0: absent)
    stored,         \* ticks with TickData
    lastProcessed,  \* LastProcessedTick, or NoTick
    assetIdx,       \* QxIdentityAssetTransfers entries <<tick, tx>>
    pc,             \* the next step of PerformMigrations
    currentVersion, \* the version read at start-up
    idx,            \* migrationIndex of the loop over migrations
    lastTick,       \* migration 001: lastTick.TickNumber
    tickNumber,     \* migration 001: its loop variable
    crashes

storeVars == <<quorumData, version, stored, lastProcessed, assetIdx>>
vars == <<quorumData, version, stored, lastProcessed, assetIdx,
          pc, currentVersion, idx, lastTick, tickNumber, crashes>>

(* The asset-index entries StoreQxAssetTransfers writes for tick t. *)
Entries(t) == {<<t, x>> : x \in Body[t] \cap AssetTxs}

(* The ticks the pipeline has fully processed. *)
ProcessedTicks ==
    IF lastProcessed = NoTick THEN {} ELSE {t \in stored : t <= lastProcessed}

(* The index migration 001 is meant to produce (spec 4.10). *)
Rebuild == UNION {Entries(t) : t \in ProcessedTicks}

(* Entries of ticks written past LastProcessedTick before a crash. *)
Beyond == UNION {Entries(t) : t \in stored \ ProcessedTicks}

(* A pre-migration index: whatever the old asset path wrote. *)
OldEntries == {<<t, x>> : t \in Ticks, x \in AssetTxs}

MinTick(S) == CHOOSE t \in S : \A u \in S : t <= u

TypeOK ==
    /\ quorumData \in BOOLEAN
    /\ version \in 0..MigrationCount
    /\ stored \subseteq Ticks
    /\ lastProcessed \in Ticks \cup {NoTick}
    /\ assetIdx \subseteq OldEntries
    /\ pc \in PCs
    /\ currentVersion \in 0..MigrationCount
    /\ idx \in 1..MigrationCount + 1
    /\ lastTick \in Ticks \cup {NoTick}
    /\ tickNumber \in Nat
    /\ crashes \in 0..MaxCrashes

-----------------------------------------------------------------------------
(* A store left by an earlier run of the archiver: LastProcessedTick, if  *)
(* present, has TickData; a migrated store holds the rebuilt index plus   *)
(* what the pipeline wrote past LastProcessedTick; an unmigrated one any  *)
(* old index. A fresh store has no LastProcessedTick and no version.      *)
Init ==
    /\ quorumData \in BOOLEAN
    /\ lastProcessed \in Ticks \cup (IF FreshStore THEN {NoTick} ELSE {})
    /\ stored \in {S \in SUBSET Ticks : lastProcessed # NoTick => lastProcessed \in S}
    /\ version \in IF lastProcessed = NoTick THEN {0} ELSE 0..MigrationCount
    /\ assetIdx \in IF version = 0 THEN SUBSET OldEntries
                    ELSE {Rebuild \cup E : E \in SUBSET Beyond}
    /\ pc = "deleteUnused"
    /\ currentVersion = 0
    /\ idx = 1
    /\ lastTick = NoTick
    /\ tickNumber = 0
    /\ crashes = 0

(* DeleteUnusedDataMigration: ClearKeysByPrefix(QuorumData), one range delete. *)
DeleteUnusedDataMigration ==
    /\ pc = "deleteUnused"
    /\ quorumData' = FALSE
    /\ pc' = "getVersion"
    /\ UNCHANGED <<version, stored, lastProcessed, assetIdx, currentVersion,
                   idx, lastTick, tickNumber, crashes>>

(* Mutant of GetMigrationVersion: an absent version fails start-up. *)
GetMigrationVersionAbsentFails ==
    /\ pc = "getVersion"
    /\ IF version = 0
       THEN pc' = "failed" /\ UNCHANGED <<currentVersion, idx>>
       ELSE currentVersion' = version /\ idx' = 1 /\ pc' = "nextMigration"
    /\ UNCHANGED <<storeVars, lastTick, tickNumber, crashes>>

(* GetMigrationVersion; ErrNotFound is version 0. *)
GetMigrationVersion ==
    /\ pc = "getVersion"
    /\ currentVersion' = version
    /\ idx' = 1
    /\ pc' = "nextMigration"
    /\ UNCHANGED <<storeVars, lastTick, tickNumber, crashes>>

(* One turn of the loop over migrations: run migration idx if it is above *)
(* the current version, otherwise pass it; past the last one, done.       *)
NextMigration ==
    /\ pc = "nextMigration"
    /\ \/ idx > MigrationCount /\ pc' = "done" /\ UNCHANGED idx
       \/ idx <= MigrationCount /\ idx > currentVersion
          /\ pc' = "clearAssets" /\ UNCHANGED idx
       \/ idx <= MigrationCount /\ idx <= currentVersion
          /\ idx' = idx + 1 /\ UNCHANGED pc
    /\ UNCHANGED <<storeVars, currentVersion, lastTick, tickNumber, crashes>>

(* Migration 001: ClearKeysByPrefix(QxIdentityAssetTransfers). *)
ClearAssetTransfers ==
    /\ pc = "clearAssets"
    /\ assetIdx' = {}
    /\ pc' = "getLast"
    /\ UNCHANGED <<quorumData, version, stored, lastProcessed, currentVersion,
                   idx, lastTick, tickNumber, crashes>>

(* Migration 001: GetLastProcessedTick; its error fails the migration and  *)
(* PerformMigrations returns it.                                            *)
GetLastTick ==
    /\ pc = "getLast"
    /\ IF lastProcessed = NoTick
       THEN pc' = "failed" /\ UNCHANGED lastTick
       ELSE pc' = "findFirst" /\ lastTick' = lastProcessed
    /\ UNCHANGED <<storeVars, currentVersion, idx, tickNumber, crashes>>

(* Migration 001: FindFirstTickNumber, the lowest TickData key. *)
FindFirstTickNumber ==
    /\ pc = "findFirst"
    /\ IF stored = {}
       THEN pc' = "failed" /\ UNCHANGED tickNumber
       ELSE pc' = "loop" /\ tickNumber' = MinTick(stored)
    /\ UNCHANGED <<storeVars, currentVersion, idx, lastTick, crashes>>

(* GetTickTransactions(t): NotFound without TickData; otherwise the       *)
(* transactions, or an error other than NotFound when reads may fail.      *)
GetTickTransactions(t) ==
    IF t \notin stored THEN {"notFound"}
    ELSE {"ok"} \cup (IF ReadMayFail THEN {"error"} ELSE {})

(* Migration 001, one tick of its loop: GetTickTransactions, then          *)
(* processTickData (StoreQxAssetTransfers). NotFound, and any other read   *)
(* error, move on to the next tick.                                         *)
MigrateTick ==
    /\ pc = "loop"
    /\ tickNumber <= lastTick
    /\ \E r \in GetTickTransactions(tickNumber) :
         assetIdx' = IF r = "ok" THEN assetIdx \cup Entries(tickNumber) ELSE assetIdx
    /\ tickNumber' = tickNumber + 1
    /\ UNCHANGED <<quorumData, version, stored, lastProcessed, pc,
                   currentVersion, idx, lastTick, crashes>>

(* Mutant of MigrationDone: the loop stops before lastTick. *)
MigrationDoneEarly ==
    /\ pc = "loop"
    /\ tickNumber >= lastTick
    /\ pc' = "setVersion"
    /\ UNCHANGED <<storeVars, currentVersion, idx, lastTick, tickNumber, crashes>>

(* Migration 001 returns once tickNumber passes lastTick. *)
MigrationDone ==
    /\ pc = "loop"
    /\ tickNumber > lastTick
    /\ pc' = "setVersion"
    /\ UNCHANGED <<storeVars, currentVersion, idx, lastTick, tickNumber, crashes>>

(* Mutant of SetMigrationVersion: the version written is one too high. *)
SetMigrationVersionOffByOne ==
    /\ pc = "setVersion"
    /\ version' = idx + 1
    /\ idx' = idx + 1
    /\ pc' = "nextMigration"
    /\ UNCHANGED <<quorumData, stored, lastProcessed, assetIdx, currentVersion,
                   lastTick, tickNumber, crashes>>

(* SetMigrationVersion(migrationIndex) after the migration returned. *)
SetMigrationVersion ==
    /\ pc = "setVersion"
    /\ version' = idx
    /\ idx' = idx + 1
    /\ pc' = "nextMigration"
    /\ UNCHANGED <<quorumData, stored, lastProcessed, assetIdx, currentVersion,
                   lastTick, tickNumber, crashes>>

(* The process dies between two store calls; the next start begins again. *)
Crash ==
    /\ pc \notin {"done", "failed"}
    /\ crashes < MaxCrashes
    /\ pc' = "deleteUnused"
    /\ currentVersion' = 0 /\ idx' = 1 /\ lastTick' = NoTick /\ tickNumber' = 0
    /\ crashes' = crashes + 1
    /\ UNCHANGED storeVars

(* Start-up has returned: the pipeline starts, or the process exits. *)
Finished ==
    /\ pc \in {"done", "failed"}
    /\ UNCHANGED vars

Step ==
    \/ DeleteUnusedDataMigration \/ GetMigrationVersion \/ NextMigration
    \/ ClearAssetTransfers \/ GetLastTick \/ FindFirstTickNumber
    \/ MigrateTick \/ MigrationDone \/ SetMigrationVersion

Next == Step \/ Crash \/ Finished

(* Start-up is one sequential call: it always takes its next step. *)
Spec == Init /\ [][Next]_vars /\ WF_vars(Step)

-----------------------------------------------------------------------------
(* Once DbMigrationVersion records migration 001, the asset index holds,  *)
(* for the processed ticks, exactly what the indexer writes for their      *)
(* stored transactions, and nothing of the old index is left, whatever    *)
(* crashes interrupted the migration (the prefix clear, the per-tick       *)
(* rebuild and SetMigrationVersion).                                        *)
MigratedIndexComplete ==
    version >= 1 => Rebuild \subseteq assetIdx /\ assetIdx \subseteq Rebuild \cup Beyond

(* Start-up always returns successfully, so the pipeline starts            *)
(* (PerformMigrations over every store state, across crashes).            *)
StartupCompletes == <>(pc = "done")

=============================================================================
