------------------------------ MODULE QueryFacade ------------------------------
(***************************************************************************)
(* The gRPC query facade (rpc.Server) next to the archiving pipeline. The  *)
(* two share only the PebbleStore (spec section 5): a client calls the     *)
(* read handlers at any moment between two store calls of the pipeline,    *)
(* before or after a crash and restart of the process.                     *)
(*                                                                         *)
(* A handler's answer is abstracted to its status code. Every store read   *)
(* may also fail with an I/O error, which the handlers map to Internal. A  *)
(* read of GetTickTransactions is one step: the store only gains records   *)
(* of the pipeline's tables (QuorumData aside), so its separate Gets see   *)
(* what one Get at the last of them would see.                             *)
(***************************************************************************)
EXTENDS Archiver

CONSTANT MalformedId   \* a DigestHex that Identity.ToPubKey rejects

VARIABLES
    reply,   \* the status code of the client's last call
    seen     \* the LastProcessedTick the client last read (NoTick: none)

facadeVars == <<reply, seen>>
allVars == <<vars, facadeVars>>

Codes == {"OK", "NotFound", "Internal", "InvalidArgument"}

FacadeTypeOK ==
    /\ TypeOK
    /\ reply \in Codes
    /\ seen \in Ticks \cup {NoTick}

-----------------------------------------------------------------------------
(* The PebbleStore getters: found (TRUE) or ErrNotFound (FALSE).           *)

(* Mutant of StoreGetTickData: the key of GetQuorumTickData read instead. *)
StoreGetTickDataQuorumKey(t) == t \in quorumData

StoreGetTickData(t) == t \in tickData
StoreGetQuorumTickData(t) == t \in quorumData
StoreGetComputors(e) == e \in computors
StoreGetTransaction(x) == x \in tickTx

(* GetTickTransactions: the tick data, then every transaction it lists;    *)
(* ErrNotFound when either is missing.                                     *)
StoreGetTickTransactions(t) ==
    StoreGetTickData(t) /\ \A x \in Body[t] : StoreGetTransaction(x)

(* A handler's status: NotFound for ErrNotFound, Internal for any other   *)
(* store error.                                                           *)
Answers(found) == {IF found THEN "OK" ELSE "NotFound", "Internal"}

-----------------------------------------------------------------------------
(* The handlers of rpc.Server that read the store. *)

RpcGetTickData(t) ==
    /\ reply' \in Answers(StoreGetTickData(t))
    /\ UNCHANGED seen

RpcGetTickTransactions(t) ==
    /\ reply' \in Answers(StoreGetTickTransactions(t))
    /\ UNCHANGED seen

(* An id that does not decode is InvalidArgument before any store read. *)
RpcGetTransaction(x) ==
    /\ reply' \in IF x = MalformedId THEN {"InvalidArgument"}
                  ELSE Answers(StoreGetTransaction(x))
    /\ UNCHANGED seen

RpcGetQuorumTickData(t) ==
    /\ reply' \in Answers(StoreGetQuorumTickData(t))
    /\ UNCHANGED seen

RpcGetComputors(e) ==
    /\ reply' \in Answers(StoreGetComputors(e))
    /\ UNCHANGED seen

(* Every error of the store, ErrNotFound included, is Internal here. *)
RpcGetLastProcessedTick ==
    \/ /\ lastProcessed.tick # NoTick
       /\ reply' = "OK" /\ seen' = lastProcessed.tick
    \/ /\ reply' = "Internal"
       /\ UNCHANGED seen

ClientCall ==
    \/ \E t \in Ticks : \/ RpcGetTickData(t)
                        \/ RpcGetTickTransactions(t)
                        \/ RpcGetQuorumTickData(t)
    \/ \E x \in TxIds \cup {Forged, MalformedId} : RpcGetTransaction(x)
    \/ \E e \in Epochs : RpcGetComputors(e)
    \/ RpcGetLastProcessedTick

-----------------------------------------------------------------------------
FacadeInit == Init /\ reply = "OK" /\ seen = NoTick

(* A step of the pipeline (Archiver!Next, action by action) or a call. *)
FacadeNext ==
    \/ ProcessTick /\ UNCHANGED facadeVars
    \/ FetchFailed /\ UNCHANGED facadeVars
    \/ CrashRestart /\ UNCHANGED facadeVars
    \/ WaitForTick /\ UNCHANGED facadeVars
    \/ ClientCall /\ UNCHANGED vars

(* The pipeline's fairness as in Spec; clients need none. *)
FacadeSpec ==
    FacadeInit /\ [][FacadeNext]_allVars
    /\ WF_allVars(ProcessTick /\ UNCHANGED facadeVars)

-----------------------------------------------------------------------------
(* A client that has read LastProcessedTick L gets no NotFound from        *)
(* GetTickData, GetTickTransactions or GetTransaction for a non-empty,     *)
(* non-skipped tick up to L or one transaction of its body, whatever the   *)
(* pipeline did since: later ticks half written, a crash and a restart     *)
(* that cleared the QuorumData table, L long stale. Spec section 5:        *)
(* readers may rely on every tick up to LastProcessedTick being fully      *)
(* indexed. The handlers' possible answers are those of the current store. *)
ReadAfterLastProcessedTick ==
    \A t \in 1..seen :
        t \notin EmptyTicks /\ t \notin skipped =>
            "NotFound" \notin
                Answers(StoreGetTickData(t)) \cup Answers(StoreGetTickTransactions(t))
                \cup UNION {Answers(StoreGetTransaction(x)) : x \in Body[t]}

=============================================================================
