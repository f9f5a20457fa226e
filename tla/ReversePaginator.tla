--------------------------- MODULE ReversePaginator ---------------------------
(***************************************************************************)
(* PebbleStore.GetIdetityAssetTransactionsFromEnd, the reverse reader of   *)
(* the QxIdentityAssetTransfers records of one (identity, asset), and a    *)
(* client that pages through them by feeding each returned                 *)
(* (nextEndTick, nextIndex) into the next call (spec 4.9, 8 item 6).       *)
(*                                                                         *)
(* The records are a function from tick to the list of transaction ids in *)
(* insertion order; an id is the pair <<tick, position>>. The reader is    *)
(* the operator GetFromEnd, translated loop for loop; RefFrom is the       *)
(* reference the spec gives. Tick arithmetic is uint32 scaled down to      *)
(* TickModulus so that the wrap of endTick + 1 stays in reach.             *)
(***************************************************************************)
EXTENDS Naturals, Sequences, SequencesExt

CONSTANTS
    KeyTicks,          \* ticks that may have a record
    MaxIdsPerTick,     \* bound on the ids of one record
    TickModulus,       \* 2^32, scaled down
    LastProcessedTick, \* what GetLastProcessedTick returns
    EndTicks,          \* the endTick a client starts from (0: omitted)
    Limits,            \* the maxTransactions a client passes (0: omitted)
    MaxCalls           \* bound on the calls of a session

ASSUME PaginatorAssumption ==
    /\ TickModulus \in Nat \ {0}
    /\ KeyTicks \subseteq 0..TickModulus - 1
    /\ LastProcessedTick \in 0..TickModulus - 1
    /\ EndTicks \subseteq 0..TickModulus - 1
    /\ Limits \subseteq Nat /\ MaxIdsPerTick \in Nat /\ MaxCalls \in Nat

DefaultLimit == 1000

VARIABLES
    index,          \* tick -> ids of its QxIdentityAssetTransfers record
    flew,           \* ids whose TransactionStatus has MoneyFlew
    includeFailed,  \* the client's includeFailedTransactions
    limit,          \* the client's maxTransactions
    start,          \* the client's first endTick
    cursor,         \* [endTick, index] of the client's next call
    collected,      \* the concatenation of the pages received
    lastCall,       \* the arguments and result of the last call
    calls,
    done

vars == <<index, flew, includeFailed, limit, start, cursor, collected,
          lastCall, calls, done>>

(* The ids of a record of tick t with n entries. *)
RecordIds(t, n) == [k \in 1..n |-> <<t, k>>]

AllIds == {<<t, k>> : t \in KeyTicks, k \in 1..MaxIdsPerTick}

TypeOK ==
    /\ DOMAIN index \subseteq KeyTicks
    /\ \A t \in DOMAIN index : \E n \in 1..MaxIdsPerTick : index[t] = RecordIds(t, n)
    /\ flew \subseteq AllIds
    /\ includeFailed \in BOOLEAN
    /\ limit \in Limits /\ start \in EndTicks
    /\ cursor \in [endTick : 0..TickModulus - 1, index : 0..MaxIdsPerTick - 1]
    /\ collected \in Seq(AllIds)
    /\ lastCall \in [made : BOOLEAN, endTick : 0..TickModulus - 1, index : Nat,
                     txs : Seq(AllIds)]
    /\ calls \in 0..MaxCalls
    /\ done \in BOOLEAN

-----------------------------------------------------------------------------
(* The status filter: failed transfers are skipped unless asked for. *)
Qualifies(id) == includeFailed \/ id \in flew

(* Mutant of ScanTick: the page is checked for fullness before the id is *)
(* appended, so a full page takes one id too many.                        *)
RECURSIVE ScanTickOverfill(_, _, _, _)
ScanTickOverfill(ids, i, txs, lim) ==
    IF i >= Len(ids) THEN [full |-> FALSE, txs |-> txs, i |-> i]
    ELSE IF ~Qualifies(ids[i + 1]) THEN ScanTickOverfill(ids, i + 1, txs, lim)
    ELSE IF Len(txs) + 1 > lim
         THEN [full |-> TRUE, txs |-> Append(txs, ids[i + 1]), i |-> i]
         ELSE ScanTickOverfill(ids, i + 1, Append(txs, ids[i + 1]), lim)

(* The inner loop over one tick's reversed ids from position i (0-based): *)
(* append each qualifying id and stop as soon as the page is full.        *)
RECURSIVE ScanTick(_, _, _, _)
ScanTick(ids, i, txs, lim) ==
    IF i >= Len(ids) THEN [full |-> FALSE, txs |-> txs, i |-> i]
    ELSE IF ~Qualifies(ids[i + 1]) THEN ScanTick(ids, i + 1, txs, lim)
    ELSE IF Len(txs) + 1 >= lim
         THEN [full |-> TRUE, txs |-> Append(txs, ids[i + 1]), i |-> i]
         ELSE ScanTick(ids, i + 1, Append(txs, ids[i + 1]), lim)

(* Mutants of ScanKeys: the resume index one past the next unread id;   *)
(* the resume index set without the end-of-record check.                *)
RECURSIVE ScanKeysSkipOne(_, _, _, _, _, _)
ScanKeysSkipOne(ts, first, startIdx, txs, nextEnd, lim) ==
    IF ts = <<>> THEN [txs |-> txs, nextEndTick |-> nextEnd, nextIndex |-> 0]
    ELSE
      LET t   == Head(ts)
          ids == Reverse(index[t])
      IN IF first /\ startIdx >= Len(ids)
         THEN ScanKeysSkipOne(Tail(ts), FALSE, startIdx, txs, t, lim)
         ELSE
           LET r == ScanTick(ids, IF first THEN startIdx ELSE 0, txs, lim) IN
           IF r.full
           THEN [txs |-> r.txs, nextEndTick |-> t,
                 nextIndex |-> IF r.i < Len(ids) - 1 THEN r.i + 2 ELSE 0]
           ELSE ScanKeysSkipOne(Tail(ts), FALSE, startIdx, r.txs,
                                IF t > 0 THEN t - 1 ELSE t, lim)

RECURSIVE ScanKeysNoEndCheck(_, _, _, _, _, _)
ScanKeysNoEndCheck(ts, first, startIdx, txs, nextEnd, lim) ==
    IF ts = <<>> THEN [txs |-> txs, nextEndTick |-> nextEnd, nextIndex |-> 0]
    ELSE
      LET t   == Head(ts)
          ids == Reverse(index[t])
      IN IF first /\ startIdx >= Len(ids)
         THEN ScanKeysNoEndCheck(Tail(ts), FALSE, startIdx, txs, t, lim)
         ELSE
           LET r == ScanTick(ids, IF first THEN startIdx ELSE 0, txs, lim) IN
           IF r.full
           THEN [txs |-> r.txs, nextEndTick |-> t, nextIndex |-> r.i + 1]
           ELSE ScanKeysNoEndCheck(Tail(ts), FALSE, startIdx, r.txs,
                                   IF t > 0 THEN t - 1 ELSE t, lim)

(* The outer loop over the record ticks from the last key backwards.      *)
RECURSIVE ScanKeys(_, _, _, _, _, _)
ScanKeys(ts, first, startIdx, txs, nextEnd, lim) ==
    IF ts = <<>> THEN [txs |-> txs, nextEndTick |-> nextEnd, nextIndex |-> 0]
    ELSE
      LET t   == Head(ts)
          ids == Reverse(index[t])
      IN IF first /\ startIdx >= Len(ids)
         THEN ScanKeys(Tail(ts), FALSE, startIdx, txs, t, lim)
         ELSE
           LET r == ScanTick(ids, IF first THEN startIdx ELSE 0, txs, lim) IN
           IF r.full
           THEN [txs |-> r.txs, nextEndTick |-> t,
                 nextIndex |-> IF r.i < Len(ids) - 1 THEN r.i + 1 ELSE 0]
           ELSE ScanKeys(Tail(ts), FALSE, startIdx, r.txs,
                         IF t > 0 THEN t - 1 ELSE t, lim)

(* The record ticks below the iterator's exclusive upper bound, last first. *)
TicksBelow(upper) == SetToSortSeq({t \in DOMAIN index : t < upper}, LAMBDA x, y : x > y)

(* GetIdetityAssetTransactionsFromEnd(endTick, txnIndexStart,             *)
(* maxTransactions): the page and the cursor it returns.                  *)
GetFromEnd(endTick, startIdx, maxTx) ==
    LET e   == IF endTick = 0 THEN LastProcessedTick ELSE endTick
        lim == IF maxTx = 0 THEN DefaultLimit ELSE maxTx
    IN ScanKeys(TicksBelow((e + 1) % TickModulus), TRUE, startIdx, <<>>, 0, lim)

-----------------------------------------------------------------------------
(* The reference (spec 4.9): the qualifying ids of the ticks up to        *)
(* endTick, highest tick first and newest first within a tick, the first  *)
(* startIdx entries of the highest tick skipped.                           *)
RefFrom(endTick, startIdx) ==
    LET e  == IF endTick = 0 THEN LastProcessedTick ELSE endTick
        ts == SetToSortSeq({t \in DOMAIN index : t <= e}, LAMBDA x, y : x > y)
        part(j) == LET ids == Reverse(index[ts[j]])
                       from == IF j = 1 THEN startIdx + 1 ELSE 1
                   IN SelectSeq(SubSeq(ids, from, Len(ids)), Qualifies)
    IN FlattenSeq([j \in 1..Len(ts) |-> part(j)])

RefPage(endTick, startIdx, maxTx) ==
    LET all == RefFrom(endTick, startIdx)
        lim == IF maxTx = 0 THEN DefaultLimit ELSE maxTx
    IN SubSeq(all, 1, IF lim < Len(all) THEN lim ELSE Len(all))

(* Everything a session starting at start must read, in order. *)
Expected == RefFrom(start, 0)

-----------------------------------------------------------------------------
Init ==
    /\ \E S \in SUBSET KeyTicks :
         \E len \in [S -> 1..MaxIdsPerTick] : index = [t \in S |-> RecordIds(t, len[t])]
    /\ flew \in SUBSET {<<t, k>> : t \in DOMAIN index, k \in 1..MaxIdsPerTick}
    /\ includeFailed \in BOOLEAN
    /\ limit \in Limits
    /\ start \in EndTicks
    /\ cursor = [endTick |-> start, index |-> 0]
    /\ collected = <<>>
    /\ lastCall = [made |-> FALSE, endTick |-> 0, index |-> 0, txs |-> <<>>]
    /\ calls = 0
    /\ done = FALSE

(* The client calls the reader at its cursor; an empty page ends the      *)
(* session, otherwise it keeps the page and moves to the returned cursor. *)
Call ==
    /\ ~done /\ calls < MaxCalls
    /\ LET p == GetFromEnd(cursor.endTick, cursor.index, limit) IN
       /\ lastCall' = [made |-> TRUE, endTick |-> cursor.endTick,
                       index |-> cursor.index, txs |-> p.txs]
       /\ IF p.txs = <<>>
          THEN done' = TRUE /\ UNCHANGED <<cursor, collected>>
          ELSE /\ collected' = collected \o p.txs
               /\ cursor' = [endTick |-> p.nextEndTick, index |-> p.nextIndex]
               /\ UNCHANGED done
    /\ calls' = calls + 1
    /\ UNCHANGED <<index, flew, includeFailed, limit, start>>

(* The session is over: finished, or out of its bound on calls. *)
SessionOver ==
    /\ done \/ calls = MaxCalls
    /\ UNCHANGED vars

Next == Call \/ SessionOver

Spec == Init /\ [][Next]_vars

-----------------------------------------------------------------------------
(* Every page is what the spec says a call returns from its cursor: the   *)
(* next qualifying ids in descending tick order, at most maxTransactions  *)
(* of them (the reader's two loops, its first-tick skip, its status       *)
(* filter, its reversal and its iterator bound).                          *)
PageMatchesReference ==
    lastCall.made =>
        lastCall.txs = RefPage(lastCall.endTick, lastCall.index, limit)

(* The cursors a session follows never skip a qualifying transaction:     *)
(* what was received plus what the cursor still reaches covers all of it. *)
NothingSkipped ==
    ToSet(Expected) \subseteq
        ToSet(collected) \cup (IF done THEN {} ELSE ToSet(RefFrom(cursor.endTick, cursor.index)))

(* The pagination law (spec 8 item 6): the pages of a session are the     *)
(* qualifying transactions exactly once, in order, and the session ends   *)
(* having read all of them.                                                *)
PaginationLaw ==
    /\ IsPrefix(collected, Expected)
    /\ done => collected = Expected

=============================================================================
