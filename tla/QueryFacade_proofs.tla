--------------------------- MODULE QueryFacade_proofs ---------------------------
(***************************************************************************)
(* Proof that a client of the query facade, however stale the              *)
(* LastProcessedTick it read, never gets NotFound for a tick up to it, for *)
(* every value of the constants (honest node, aligned first vote).         *)
(***************************************************************************)
EXTENDS QueryFacade, Archiver_proofs, TLAPS

(* Every state of the pipeline with a client is well typed: the client's *)
(* reply is a status code of the handlers and the tick it holds one that   *)
(* LastProcessedTick had, for every instance and every node behaviour.     *)
THEOREM FacadeTypeCorrect == FacadeSpec => []FacadeTypeOK
<1>1. FacadeInit => FacadeTypeOK
  BY TypeInit DEF FacadeInit, FacadeTypeOK, Codes, NoTick
<1>2. FacadeTypeOK /\ [FacadeNext]_allVars => FacadeTypeOK'
  <2> SUFFICES ASSUME FacadeTypeOK, [FacadeNext]_allVars PROVE FacadeTypeOK'
    OBVIOUS
  <2>1. CASE (ProcessTick \/ FetchFailed \/ CrashRestart \/ WaitForTick)
              /\ UNCHANGED facadeVars
    BY <2>1, TypeNext DEF FacadeTypeOK, facadeVars, Next
  <2>2. CASE ClientCall /\ UNCHANGED vars
    <3>1. TypeOK'
      BY <2>2, TypeNext DEF FacadeTypeOK
    <3>2. reply' \in Codes
      BY <2>2 DEF ClientCall, RpcGetTickData, RpcGetTickTransactions,
                  RpcGetTransaction, RpcGetQuorumTickData, RpcGetComputors,
                  RpcGetLastProcessedTick, Answers, Codes
    <3>3. seen' \in Ticks \cup {NoTick}
      BY <2>2 DEF FacadeTypeOK, TypeOK, ClientCall, RpcGetTickData,
                  RpcGetTickTransactions, RpcGetTransaction, RpcGetQuorumTickData,
                  RpcGetComputors, RpcGetLastProcessedTick
    <3>. QED
      BY <3>1, <3>2, <3>3 DEF FacadeTypeOK
  <2>3. CASE UNCHANGED allVars
    BY <2>3, TypeNext DEF FacadeTypeOK, allVars, facadeVars, vars, storeVars, taskVars
  <2>. QED
    BY <2>1, <2>2, <2>3 DEF FacadeNext
<1>. QED
  BY <1>1, <1>2, PTL DEF FacadeSpec

(* The pipeline's invariant of ProcessedTicksIndexed, and the client's    *)
(* tick is one LastProcessedTick had: never beyond the current one.       *)
FacadeInv ==
    /\ IndexedInv
    /\ seen \in Ticks \cup {NoTick}
    /\ seen <= lastProcessed.tick

(* No step of the pipeline moves LastProcessedTick back: SetLastProcessed *)
(* writes the tick in flight, which lies beyond it.                       *)
LEMMA LastProcessedMonotone ==
    IndexedInv /\ [Next]_vars => lastProcessed.tick <= lastProcessed'.tick
<1> SUFFICES ASSUME IndexedInv, [Next]_vars
             PROVE  lastProcessed.tick <= lastProcessed'.tick
  OBVIOUS
<1>0. lastProcessed.tick \in Nat
  BY ConstantsAssumption DEF IndexedInv, TypeOK, Ticks, NoTick
<1>1. CASE SetLastProcessed
  <2>1. pc = "setLastProcessed" /\ lastProcessed'.tick = cur
    BY <1>1 DEF SetLastProcessed
  <2>2. next = cur /\ lastProcessed.tick < next /\ cur \in Nat
    BY <2>1, ConstantsAssumption DEF IndexedInv, TypeOK, Ticks
  <2>. QED
    BY <1>0, <2>1, <2>2
<1>2. CASE FetchFailed \/ ValidationFailed \/ EmptyQuorumTick \/ Validated
           \/ StoreQuorum \/ StoreTick \/ StoreTxs \/ StoreTransfers
  BY <1>0, <1>2 DEF FetchFailed, ValidationFailed, EmptyQuorumTick, Validated,
                    StoreQuorum, StoreTick, StoreTxs, StoreTransfers
<1>3. CASE StoreAssets \/ AppendInterval \/ SetIntervals \/ CrashRestart
           \/ WaitForTick \/ UNCHANGED vars
  BY <1>0, <1>3 DEF StoreAssets, AppendInterval, SetIntervals, CrashRestart,
                    WaitForTick, vars, storeVars
<1>. QED
  BY <1>1, <1>2, <1>3 DEF Next, ProcessTick

LEMMA FacadeInit_Inv ==
    FacadeInit => FacadeInv
BY IndexedInit DEF FacadeInit, FacadeInv, NoTick, Init

LEMMA FacadeNext_Inv ==
    ASSUME ~FirstVoteMayDissent, ~NodeMayRepeat
    PROVE  FacadeInv /\ [FacadeNext]_allVars => FacadeInv'
<1> SUFFICES ASSUME FacadeInv, [FacadeNext]_allVars PROVE FacadeInv'
  OBVIOUS
<1>0. lastProcessed.tick \in Nat
  BY ConstantsAssumption DEF FacadeInv, IndexedInv, TypeOK, Ticks, NoTick
<1>1. CASE (ProcessTick \/ FetchFailed \/ CrashRestart \/ WaitForTick)
          /\ UNCHANGED facadeVars
  <2>1. IndexedInv'
    BY <1>1, IndexedNext DEF FacadeInv, Next
  <2>2. lastProcessed.tick <= lastProcessed'.tick
    BY <1>1, LastProcessedMonotone DEF FacadeInv, Next
  <2>3. lastProcessed'.tick \in Nat
    BY <2>1, ConstantsAssumption DEF IndexedInv, TypeOK, Ticks, NoTick
  <2>. QED
    BY <1>0, <1>1, <2>1, <2>2, <2>3 DEF FacadeInv, facadeVars, Ticks, NoTick
<1>2. CASE ClientCall /\ UNCHANGED vars
  <2>1. IndexedInv'
    BY <1>2, IndexedNext DEF FacadeInv
  <2>2. UNCHANGED lastProcessed
    BY <1>2 DEF vars, storeVars
  <2>3. \/ seen' = seen
        \/ lastProcessed.tick # NoTick /\ seen' = lastProcessed.tick
    BY <1>2 DEF ClientCall, RpcGetTickData, RpcGetTickTransactions,
                RpcGetTransaction, RpcGetQuorumTickData, RpcGetComputors,
                RpcGetLastProcessedTick
  <2>4. lastProcessed.tick \in Ticks \cup {NoTick}
    BY DEF FacadeInv, IndexedInv, TypeOK
  <2>5. seen' \in Ticks \cup {NoTick}
    BY <2>3, <2>4 DEF FacadeInv
  <2>6. seen' <= lastProcessed'.tick
    BY <1>0, <2>2, <2>3 DEF FacadeInv
  <2>. QED
    BY <2>1, <2>5, <2>6 DEF FacadeInv
<1>3. CASE UNCHANGED allVars
  <2>1. IndexedInv'
    BY <1>3, IndexedNext DEF FacadeInv, allVars
  <2>. QED
    BY <1>3, <2>1 DEF FacadeInv, allVars, facadeVars, vars, storeVars
<1>. QED
  BY <1>1, <1>2, <1>3 DEF FacadeNext

(* A client that has read LastProcessedTick L, even before a crash and     *)
(* restart, gets no NotFound from GetTickData, GetTickTransactions or      *)
(* GetTransaction for a non-empty, non-skipped tick up to L: the store     *)
(* readers see every such tick fully indexed, for every instance.          *)
THEOREM ReadsAfterLastProcessedTickFound ==
    ASSUME ~FirstVoteMayDissent, ~NodeMayRepeat
    PROVE  FacadeSpec => []ReadAfterLastProcessedTick
<1>1. FacadeInv => ReadAfterLastProcessedTick
  <2> SUFFICES ASSUME FacadeInv, NEW t \in 1..seen,
                      t \notin EmptyTicks, t \notin skipped
               PROVE  "NotFound" \notin
                        Answers(StoreGetTickData(t)) \cup Answers(StoreGetTickTransactions(t))
                        \cup UNION {Answers(StoreGetTransaction(x)) : x \in Body[t]}
    BY DEF ReadAfterLastProcessedTick
  <2>1. t \in 1..lastProcessed.tick
    BY ConstantsAssumption DEF FacadeInv, IndexedInv, TypeOK, Ticks, NoTick
  <2>2. t \in tickData /\ Body[t] \subseteq tickTx
    BY <2>1 DEF FacadeInv, IndexedInv, ProcessedTicksIndexed
  <2>. QED
    BY <2>2 DEF Answers, StoreGetTickData, StoreGetTickTransactions,
                StoreGetTransaction
<1>. QED
  BY <1>1, FacadeInit_Inv, FacadeNext_Inv, PTL DEF FacadeSpec

=============================================================================
