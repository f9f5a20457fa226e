-------------------------- MODULE Migrations_proofs --------------------------
(***************************************************************************)
(* Proofs about the start-up sequence (Migrations.tla): it keeps its       *)
(* types, and, when no tick read fails, a recorded migration version       *)
(* means the asset index is the rebuild of the processed ticks, for every  *)
(* store and every crash point.                                            *)
(***************************************************************************)
EXTENDS Migrations, WellFoundedInduction, TLAPS

(* The steps of migration 001 before SetMigrationVersion has returned. *)
MigSteps == {"clearAssets", "getLast", "findFirst", "loop", "setVersion"}

(* The start-up task never runs migration 001 over a recorded version,    *)
(* and the loop over migrations has read the version it compares with.    *)
TypeInv ==
    /\ TypeOK
    /\ pc = "nextMigration" /\ idx <= MigrationCount => currentVersion = version
    /\ pc \in MigSteps => version = 0 /\ idx = 1

(* What migration 001's loop has rebuilt when tickNumber is n. *)
RebuiltBelow(n) == UNION {Entries(t) : t \in {u \in ProcessedTicks : u < n}}

(* The inductive invariant: migration 001's progress, step by step. *)
RebuildInv ==
    /\ TypeInv
    /\ MigratedIndexComplete
    /\ pc \in {"findFirst", "loop", "setVersion"} =>
           lastTick = lastProcessed /\ lastProcessed # NoTick
    /\ pc \in {"getLast", "findFirst"} => assetIdx = {}
    /\ pc = "loop" => assetIdx = RebuiltBelow(tickNumber)
    /\ pc = "setVersion" => assetIdx = Rebuild

-----------------------------------------------------------------------------
(* A non-empty set of naturals has a least element, which MinTick picks    *)
(* (FindFirstTickNumber returns the lowest TickData key).                  *)
LEMMA MinTickIsLeast ==
    ASSUME NEW S \in SUBSET Nat, S # {}
    PROVE  MinTick(S) \in S /\ \A u \in S : MinTick(S) <= u
<1>1. \E x \in S : \A y \in S : ~(<<y, x>> \in OpToRel(<, Nat))
    BY NatLessThanWellFounded, WFMin
<1>2. PICK x \in S : \A y \in S : ~(<<y, x>> \in OpToRel(<, Nat))
    BY <1>1
<1>3. \A y \in S : ~(y < x)
    BY <1>2, Zenon DEF OpToRel
<1>4. \A y \in S : x <= y
    BY <1>3
<1> QED BY <1>4 DEF MinTick

(* The store is fixed during start-up except for the index and the two    *)
(* bookkeeping keys, so what the rebuild must produce never changes.      *)
LEMMA RebuildFixed ==
    ASSUME stored' = stored, lastProcessed' = lastProcessed
    PROVE  /\ ProcessedTicks' = ProcessedTicks
           /\ Rebuild' = Rebuild
           /\ Beyond' = Beyond
           /\ \A n : RebuiltBelow(n)' = RebuiltBelow(n)
BY DEF ProcessedTicks, Rebuild, Beyond, RebuiltBelow

(* Every entry the indexer writes for a tick is an entry over Ticks. *)
LEMMA EntriesType ==
    ASSUME MigrationsAssumption, NEW t \in Ticks
    PROVE  Entries(t) \subseteq OldEntries
BY DEF Entries, OldEntries

-----------------------------------------------------------------------------
LEMMA TypeInit == Init => TypeInv
<1> SUFFICES ASSUME Init PROVE TypeInv
    OBVIOUS
<1>1. stored \subseteq Ticks /\ ProcessedTicks \subseteq Ticks
    BY DEF Init, ProcessedTicks
<1>2. Rebuild \cup Beyond \subseteq OldEntries
    BY <1>1, EntriesType, MigrationsAssumption DEF Rebuild, Beyond
<1>3. assetIdx \subseteq OldEntries
    <2>1. CASE version = 0
        BY <2>1 DEF Init
    <2>2. CASE version # 0
        <3>1. PICK E \in SUBSET Beyond : assetIdx = Rebuild \cup E
            BY <2>2 DEF Init
        <3> QED BY <3>1, <1>2
    <2> QED BY <2>1, <2>2
<1>4. version \in 0..MigrationCount /\ lastProcessed \in Ticks \cup {NoTick}
    BY DEF Init, MigrationCount
<1>5. TypeOK
    BY <1>1, <1>3, <1>4, MigrationsAssumption DEF Init, TypeOK, PCs, MigrationCount
<1> QED BY <1>5 DEF Init, TypeInv, MigSteps

LEMMA TypeNext == TypeInv /\ [Next]_vars => TypeInv'
<1> SUFFICES ASSUME TypeInv, [Next]_vars PROVE TypeInv'
    OBVIOUS
<1> USE MigrationsAssumption DEF TypeInv, TypeOK, MigSteps, MigrationCount, PCs
<1>1. CASE DeleteUnusedDataMigration
    BY <1>1 DEF DeleteUnusedDataMigration
<1>2. CASE GetMigrationVersion
    BY <1>2 DEF GetMigrationVersion, storeVars
<1>3. CASE NextMigration
    BY <1>3 DEF NextMigration, storeVars
<1>4. CASE ClearAssetTransfers
    BY <1>4 DEF ClearAssetTransfers
<1>5. CASE GetLastTick
    BY <1>5 DEF GetLastTick, storeVars
<1>6. CASE FindFirstTickNumber
    <2>1. stored # {} => MinTick(stored) \in Nat
        BY MinTickIsLeast
    <2> QED BY <1>6, <2>1 DEF FindFirstTickNumber, storeVars
<1>7. CASE MigrateTick
    <2>1. tickNumber \in stored => Entries(tickNumber) \subseteq OldEntries
        BY EntriesType
    <2>2. PICK r \in GetTickTransactions(tickNumber) :
              assetIdx' = IF r = "ok" THEN assetIdx \cup Entries(tickNumber) ELSE assetIdx
        BY <1>7 DEF MigrateTick
    <2>3. r = "ok" => tickNumber \in stored
        BY <2>2 DEF GetTickTransactions
    <2> QED BY <1>7, <2>1, <2>2, <2>3 DEF MigrateTick
<1>8. CASE MigrationDone
    BY <1>8 DEF MigrationDone, storeVars
<1>9. CASE SetMigrationVersion
    BY <1>9 DEF SetMigrationVersion
<1>10. CASE Crash
    BY <1>10 DEF Crash, storeVars
<1>11. CASE Finished \/ UNCHANGED vars
    BY <1>11 DEF Finished, vars
<1> QED BY <1>1, <1>2, <1>3, <1>4, <1>5, <1>6, <1>7, <1>8, <1>9, <1>10, <1>11
        DEF Next, Step

(* Start-up keeps every variable within its type: in particular the       *)
(* version SetMigrationVersion records is a registered migration number.  *)
THEOREM TypeCorrect == Spec => []TypeOK
<1>1. Init => TypeInv
    BY TypeInit
<1>2. TypeInv /\ [Next]_vars => TypeInv'
    BY TypeNext
<1>3. TypeInv => TypeOK
    BY DEF TypeInv
<1> QED BY <1>1, <1>2, <1>3, PTL DEF Spec

-----------------------------------------------------------------------------
LEMMA RebuildInit == Init => RebuildInv
<1> SUFFICES ASSUME Init PROVE RebuildInv
    OBVIOUS
<1>1. TypeInv
    BY TypeInit
<1>2. MigratedIndexComplete
    <2>1. CASE version = 0
        BY <2>1 DEF MigratedIndexComplete
    <2>2. CASE version # 0
        <3>1. PICK E \in SUBSET Beyond : assetIdx = Rebuild \cup E
            BY <2>2 DEF Init
        <3> QED BY <3>1 DEF MigratedIndexComplete
    <2> QED BY <2>1, <2>2
<1> QED BY <1>1, <1>2 DEF Init, RebuildInv

(* The loop's progress: a tick past lastTick adds nothing; a processed    *)
(* tick adds its entries; a tick without TickData adds none.              *)
LEMMA RebuiltBelowStep ==
    ASSUME MigrationsAssumption, NEW n \in Nat, lastProcessed \in Ticks,
           stored \subseteq Ticks, n <= lastProcessed
    PROVE  RebuiltBelow(n + 1) =
               IF n \in stored THEN RebuiltBelow(n) \cup Entries(n) ELSE RebuiltBelow(n)
<1>1. {u \in ProcessedTicks : u < n + 1} =
          IF n \in stored THEN {u \in ProcessedTicks : u < n} \cup {n}
          ELSE {u \in ProcessedTicks : u < n}
    <2>1. lastProcessed # NoTick
        BY MigrationsAssumption
    <2>2. ProcessedTicks = {t \in stored : t <= lastProcessed}
        BY <2>1 DEF ProcessedTicks
    <2>3. \A u \in ProcessedTicks : u \in Nat
        BY <2>2, MigrationsAssumption
    <2>4. \A u \in ProcessedTicks : u < n + 1 <=> u < n \/ u = n
        BY <2>3
    <2>5. n \in stored => n \in ProcessedTicks
        BY <2>2, MigrationsAssumption
    <2>6. n \notin stored => n \notin ProcessedTicks
        BY <2>2
    <2> QED BY <2>4, <2>5, <2>6
<1> QED BY <1>1 DEF RebuiltBelow

(* Past lastTick the loop has rebuilt every processed tick. *)
LEMMA RebuiltBelowAll ==
    ASSUME MigrationsAssumption, NEW n \in Nat, lastProcessed \in Ticks,
           stored \subseteq Ticks, n > lastProcessed
    PROVE  RebuiltBelow(n) = Rebuild
<1>1. ProcessedTicks = {t \in stored : t <= lastProcessed}
    BY MigrationsAssumption DEF ProcessedTicks
<1>2. \A u \in ProcessedTicks : u \in Nat /\ u <= lastProcessed
    BY <1>1, MigrationsAssumption
<1>3. \A u \in ProcessedTicks : u < n
    BY <1>2, MigrationsAssumption
<1>4. {u \in ProcessedTicks : u < n} = ProcessedTicks
    BY <1>3
<1> QED BY <1>4 DEF RebuiltBelow, Rebuild

(* Below the lowest TickData key nothing has been rebuilt yet. *)
LEMMA RebuiltBelowFirst ==
    ASSUME MigrationsAssumption, stored \subseteq Ticks, stored # {}
    PROVE  RebuiltBelow(MinTick(stored)) = {}
<1>1. \A u \in stored : MinTick(stored) <= u
    BY MinTickIsLeast, MigrationsAssumption
<1>2. ProcessedTicks \subseteq stored
    BY DEF ProcessedTicks
<1>3. MinTick(stored) \in Nat /\ \A u \in ProcessedTicks : u \in Nat /\ MinTick(stored) <= u
    BY <1>1, <1>2, MinTickIsLeast, MigrationsAssumption
<1>4. \A u \in ProcessedTicks : ~(u < MinTick(stored))
    BY <1>3
<1>5. {u \in ProcessedTicks : u < MinTick(stored)} = {}
    BY <1>4
<1> QED BY <1>5 DEF RebuiltBelow

LEMMA RebuildNext ==
    ASSUME ~ReadMayFail
    PROVE  RebuildInv /\ [Next]_vars => RebuildInv'
<1> SUFFICES ASSUME RebuildInv, [Next]_vars PROVE RebuildInv'
    OBVIOUS
<1>0. TypeInv'
    BY TypeNext DEF RebuildInv
<1> SUFFICES /\ MigratedIndexComplete'
             /\ pc' \in {"findFirst", "loop", "setVersion"} =>
                    lastTick' = lastProcessed' /\ lastProcessed' # NoTick
             /\ pc' \in {"getLast", "findFirst"} => assetIdx' = {}
             /\ pc' = "loop" => assetIdx' = RebuiltBelow(tickNumber)'
             /\ pc' = "setVersion" => assetIdx' = Rebuild'
    BY <1>0 DEF RebuildInv
<1> USE DEF RebuildInv, TypeInv, MigSteps
<1>1. CASE DeleteUnusedDataMigration
    BY <1>1, RebuildFixed DEF DeleteUnusedDataMigration, MigratedIndexComplete
<1>2. CASE GetMigrationVersion
    BY <1>2, RebuildFixed DEF GetMigrationVersion, storeVars, MigratedIndexComplete
<1>3. CASE NextMigration
    BY <1>3, RebuildFixed DEF NextMigration, storeVars, MigratedIndexComplete, TypeOK, MigrationCount
<1>4. CASE ClearAssetTransfers
    BY <1>4, RebuildFixed DEF ClearAssetTransfers, MigratedIndexComplete
<1>5. CASE GetLastTick
    BY <1>5, RebuildFixed DEF GetLastTick, storeVars, MigratedIndexComplete
<1>6. CASE FindFirstTickNumber
    <2>1. stored # {} => RebuiltBelow(MinTick(stored)) = {}
        BY RebuiltBelowFirst, MigrationsAssumption DEF TypeOK
    <2> QED BY <1>6, <2>1, RebuildFixed DEF FindFirstTickNumber, storeVars, MigratedIndexComplete
<1>7. CASE MigrateTick
    <2>1. pc = "loop" /\ tickNumber <= lastTick /\ tickNumber' = tickNumber + 1
        BY <1>7 DEF MigrateTick
    <2>2. lastTick = lastProcessed /\ lastProcessed \in Ticks /\ tickNumber \in Nat
        BY <2>1 DEF TypeOK
    <2>3. assetIdx' = IF tickNumber \in stored THEN assetIdx \cup Entries(tickNumber) ELSE assetIdx
        BY <1>7 DEF MigrateTick, GetTickTransactions
    <2>4. assetIdx' = RebuiltBelow(tickNumber + 1)
        BY <2>1, <2>2, <2>3, RebuiltBelowStep, MigrationsAssumption DEF TypeOK
    <2>5. UNCHANGED <<version, stored, lastProcessed, pc, lastTick>>
        BY <1>7 DEF MigrateTick
    <2>6. RebuiltBelow(tickNumber)' = RebuiltBelow(tickNumber + 1)
        BY <2>1, <2>5 DEF RebuiltBelow, ProcessedTicks
    <2>7. MigratedIndexComplete'
        BY <2>1, <2>5 DEF MigratedIndexComplete
    <2> QED BY <2>1, <2>4, <2>5, <2>6, <2>7
<1>8. CASE MigrationDone
    <2>1. pc = "loop" /\ tickNumber > lastTick /\ pc' = "setVersion"
        BY <1>8 DEF MigrationDone
    <2>2. lastTick = lastProcessed /\ lastProcessed \in Ticks /\ tickNumber \in Nat
        BY <2>1 DEF TypeOK
    <2>3. assetIdx = Rebuild
        BY <2>1, <2>2, RebuiltBelowAll, MigrationsAssumption DEF TypeOK
    <2> QED BY <1>8, <2>3, RebuildFixed DEF MigrationDone, storeVars, MigratedIndexComplete
<1>9. CASE SetMigrationVersion
    <2>1. assetIdx = Rebuild /\ UNCHANGED <<assetIdx, stored, lastProcessed>>
        BY <1>9 DEF SetMigrationVersion
    <2> QED BY <1>9, <2>1, RebuildFixed DEF SetMigrationVersion, MigratedIndexComplete
<1>10. CASE Crash
    BY <1>10, RebuildFixed DEF Crash, storeVars, MigratedIndexComplete
<1>11. CASE Finished \/ UNCHANGED vars
    BY <1>11, RebuildFixed DEF Finished, vars, MigratedIndexComplete
<1> QED BY <1>1, <1>2, <1>3, <1>4, <1>5, <1>6, <1>7, <1>8, <1>9, <1>10, <1>11
        DEF Next, Step

(* When every tick read succeeds, a DbMigrationVersion that records       *)
(* migration 001 guarantees the asset index is exactly the rebuild of the *)
(* processed ticks (plus what the pipeline wrote past LastProcessedTick), *)
(* for every store, tick range and crash point of PerformMigrations.      *)
THEOREM MigrationRebuildsIndex ==
    ASSUME ~ReadMayFail
    PROVE  Spec => []MigratedIndexComplete
<1>1. Init => RebuildInv
    BY RebuildInit
<1>2. RebuildInv /\ [Next]_vars => RebuildInv'
    BY RebuildNext
<1>3. RebuildInv => MigratedIndexComplete
    BY DEF RebuildInv
<1> QED BY <1>1, <1>2, <1>3, PTL DEF Spec

=============================================================================
