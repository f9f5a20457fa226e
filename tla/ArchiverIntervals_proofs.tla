------------------------ MODULE ArchiverIntervals_proofs ------------------------
(***************************************************************************)
(* Proofs about the processed-tick bookkeeping of the processor           *)
(* (AppendProcessedTickInterval, SetLastProcessedTick) for every value of  *)
(* the constants and whatever the node answers, for a process that never  *)
(* crashes (NoCrashSpec): each epoch's intervals are well formed, and the  *)
(* per-epoch last processed tick ends the epoch's last interval. A crash   *)
(* between the interval append and SetLastProcessedTick breaks both (see   *)
(* the README), which is why the crash action is left out.                 *)
(***************************************************************************)
EXTENDS Archiver_proofs

(* No interval reaches past LastProcessedTick, except the interval [t, t] *)
(* appended for the tick t in flight before SetLastProcessedTick.         *)
IntervalBound == IF pc = "setLastProcessed" THEN cur ELSE lastProcessed.tick

IntervalsBelowBound ==
    \A e \in Epochs : \A i \in 1..Len(intervals[e]) :
        intervals[e][i].lastProcessedTick <= IntervalBound

(* LastPerEpochMatchesIntervals, for every epoch but the one of the tick  *)
(* in flight inside SetLastProcessedTick's window.                        *)
LastPerEpochAtEnd ==
    \A e \in Epochs :
        lastPerEpoch[e] # NoTick
        /\ (pc \notin {"setLastProcessed", "setIntervals"} \/ e # EpochOf[cur]) =>
            /\ intervals[e] # <<>>
            /\ intervals[e][Len(intervals[e])].lastProcessedTick = lastPerEpoch[e]

(* The inductive invariant: the processor's control (the tick in flight  *)
(* is the next one and lies beyond LastProcessedTick until it is written) *)
(* and the two bookkeeping properties in their strengthened forms.        *)
IntervalInv ==
    /\ TypeOK
    /\ pc # "idle" => next = cur
    /\ pc = "setIntervals" => lastProcessed.tick = cur /\ lastPerEpoch[EpochOf[cur]] = cur
    /\ pc # "setIntervals" => lastProcessed.tick < next
    /\ IntervalsBelowBound
    /\ IntervalsWellFormed
    /\ LastPerEpochAtEnd

-----------------------------------------------------------------------------
(* What extending the last interval of a list to t returns: a list of the *)
(* same length (one for the empty list) whose entries but the last are    *)
(* unchanged, and whose last interval ends at t.                          *)
LEMMA ExtendLastIntervalFacts ==
    ASSUME NEW list \in Seq(Interval), NEW t \in Ticks
    PROVE  LET r == ExtendLastInterval(list, t) IN
           /\ r \in Seq(Interval)
           /\ Len(r) = IF list = <<>> THEN 1 ELSE Len(list)
           /\ \A i \in 1..Len(r) - 1 : r[i] = list[i]
           /\ r[Len(r)].lastProcessedTick = t
           /\ r[Len(r)].initialProcessedTick =
                IF list = <<>> THEN t ELSE list[Len(list)].initialProcessedTick
<1>1. ExtendLastInterval(list, t) \in Seq(Interval)
  BY ExtendLastIntervalType
<1>2. CASE list = <<>>
  <2> DEFINE iv == [initialProcessedTick |-> t, lastProcessedTick |-> t]
  <2>1. ExtendLastInterval(list, t) = <<iv>>
    BY <1>2 DEF ExtendLastInterval
  <2>2. Len(<<iv>>) = 1 /\ <<iv>>[1] = iv
    OBVIOUS
  <2>3. 1..(1 - 1) = {}
    OBVIOUS
  <2>. QED
    BY <1>1, <1>2, <2>1, <2>2, <2>3
<1>3. CASE list # <<>>
  <2>1. Len(list) \in 1..Len(list) /\ Len(list) \in Nat
    BY <1>3, LenProperties, EmptySeq
  <2>2. list[Len(list)] \in Interval
    BY <2>1, ElementOfSeq
  <2> DEFINE r == [list EXCEPT ![Len(list)].lastProcessedTick = t]
  <2>3. ExtendLastInterval(list, t) = r
    BY <1>3 DEF ExtendLastInterval
  <2>4. DOMAIN r = DOMAIN list /\ Len(r) = Len(list)
    <3>1. DOMAIN r = 1..Len(list)
      BY <2>1
    <3>2. r \in Seq(Interval)
      BY <1>1, <2>3
    <3>. QED
      BY <3>1, <3>2, LenProperties
  <2>5. \A i \in 1..Len(r) - 1 : r[i] = list[i]
    BY <2>1, <2>4
  <2>6. r[Len(r)] = [list[Len(list)] EXCEPT !.lastProcessedTick = t]
    BY <2>1, <2>4
  <2>7. r[Len(r)].lastProcessedTick = t
        /\ r[Len(r)].initialProcessedTick = list[Len(list)].initialProcessedTick
    BY <2>2, <2>6 DEF Interval
  <2>. QED
    BY <1>1, <1>3, <2>3, <2>4, <2>5, <2>7
<1>. QED
  BY <1>1, <1>2, <1>3

-----------------------------------------------------------------------------
LEMMA IntervalInit == Init => IntervalInv
BY TypeInit, EmptySeq
   DEF Init, IntervalInv, IntervalsBelowBound, IntervalsWellFormed,
       LastPerEpochAtEnd, NoTick

(* A step that leaves the interval lists, the per-epoch last ticks and    *)
(* LastProcessedTick alone, outside SetLastProcessedTick's window, keeps  *)
(* the bookkeeping, provided the tick it puts in flight towards           *)
(* SetLastProcessedTick lies beyond LastProcessedTick.                    *)
LEMMA IntervalDataFrame ==
    ASSUME IntervalInv, TypeOK',
           UNCHANGED <<intervals, lastPerEpoch, lastProcessed>>,
           pc \notin {"setLastProcessed", "setIntervals"},
           pc' # "setIntervals",
           pc' = "setLastProcessed" => lastProcessed.tick < cur'
    PROVE  IntervalsBelowBound' /\ IntervalsWellFormed' /\ LastPerEpochAtEnd'
<1>1. IntervalsBelowBound'
  <2> SUFFICES ASSUME NEW e \in Epochs, NEW i \in 1..Len(intervals[e])
               PROVE  intervals[e][i].lastProcessedTick <= IntervalBound'
    BY DEF IntervalsBelowBound
  <2>1. intervals[e][i] \in Interval /\ lastProcessed.tick \in Nat /\ cur' \in Nat
    BY ElementOfSeq, ConstantsAssumption DEF IntervalInv, TypeOK, Ticks, NoTick
  <2>2. intervals[e][i].lastProcessedTick <= lastProcessed.tick
    BY DEF IntervalInv, IntervalsBelowBound, IntervalBound
  <2>. QED
    BY <2>1, <2>2 DEF IntervalBound, Interval, Ticks
<1>2. IntervalsWellFormed'
  BY DEF IntervalInv, IntervalsWellFormed
<1>3. LastPerEpochAtEnd'
  BY DEF IntervalInv, LastPerEpochAtEnd
<1>. QED
  BY <1>1, <1>2, <1>3

(* The processor's control conjuncts of IntervalInv for a step of the     *)
(* pipeline task before the bookkeeping (ValidateTick and the store       *)
(* calls): they put the next tick in flight or skip it.                   *)
LEMMA IntervalControlBeforeBookkeeping ==
    ASSUME IntervalInv,
           \/ FetchFailed \/ ValidationFailed \/ EmptyQuorumTick \/ Validated
           \/ StoreQuorum \/ StoreTick \/ StoreTxs \/ StoreTransfers \/ StoreAssets
    PROVE  /\ UNCHANGED <<intervals, lastPerEpoch, lastProcessed>>
           /\ pc \notin {"setLastProcessed", "setIntervals"}
           /\ pc' # "setIntervals"
           /\ pc' # "idle" => next' = cur'
           /\ pc' # "setIntervals" => lastProcessed'.tick < next'
           /\ pc' = "setLastProcessed" => lastProcessed.tick < cur'
<1>0. lastProcessed.tick \in Nat /\ next \in Nat
  BY ConstantsAssumption DEF IntervalInv, TypeOK, Ticks, NoTick
<1>1. CASE FetchFailed
  BY <1>1 DEF FetchFailed, taskVars, IntervalInv
<1>2. CASE ValidationFailed
  BY <1>0, <1>2 DEF ValidationFailed, IntervalInv
<1>3. CASE EmptyQuorumTick \/ Validated
  BY <1>3 DEF EmptyQuorumTick, Validated, IntervalInv
<1>4. CASE StoreQuorum \/ StoreTick \/ StoreTxs \/ StoreTransfers \/ StoreAssets
  BY <1>4 DEF StoreQuorum, StoreTick, StoreTxs, StoreTransfers, StoreAssets,
              IntervalInv
<1>. QED
  BY <1>1, <1>2, <1>3, <1>4

(* AppendInterval appends [cur, cur] to the epoch of cur, beyond every     *)
(* interval there, since cur lies beyond LastProcessedTick.               *)
LEMMA IntervalAppend ==
    ASSUME IntervalInv, AppendInterval PROVE IntervalInv'
<1> DEFINE E == EpochOf[cur]
           iv == [initialProcessedTick |-> cur, lastProcessedTick |-> cur]
<1>1. TypeOK'
  BY TypeNext DEF IntervalInv, Next, ProcessTick
<1>2. /\ cur \in Ticks /\ E \in Epochs /\ lastProcessed.tick < cur
      /\ lastProcessed.tick \in Nat /\ intervals \in [Epochs -> Seq(Interval)]
      /\ pc = "appendInterval" /\ pc' = "setLastProcessed"
      /\ UNCHANGED <<cur, next, lastProcessed, lastPerEpoch>>
  BY ConstantsAssumption DEF AppendInterval, IntervalInv, TypeOK, Ticks, NoTick
<1>3. intervals' = [intervals EXCEPT ![E] = Append(intervals[E], iv)]
  BY DEF AppendInterval
<1>4. /\ iv \in Interval
      /\ Len(intervals'[E]) = Len(intervals[E]) + 1
      /\ \A i \in 1..Len(intervals[E]) : intervals'[E][i] = intervals[E][i]
      /\ intervals'[E][Len(intervals[E]) + 1] = iv
      /\ \A e \in Epochs \ {E} : intervals'[e] = intervals[e]
  <2>1. iv \in Interval
    BY <1>2 DEF Interval
  <2>2. intervals'[E] = Append(intervals[E], iv)
    BY <1>2, <1>3
  <2>. QED
    BY <1>2, <1>3, <2>1, <2>2, AppendProperties
<1>5. ASSUME NEW e \in Epochs, NEW i \in 1..Len(intervals[e])
      PROVE  /\ intervals[e][i] \in Interval
             /\ intervals[e][i].lastProcessedTick < cur
             /\ intervals[e][i].lastProcessedTick <= cur
  <2>1. intervals[e][i] \in Interval
    BY <1>2, ElementOfSeq
  <2>2. intervals[e][i].lastProcessedTick <= lastProcessed.tick
    BY <1>2 DEF IntervalInv, IntervalsBelowBound, IntervalBound
  <2>. QED
    BY <1>2, <2>1, <2>2 DEF Interval, Ticks
<1>6. IntervalsBelowBound'
  <2> SUFFICES ASSUME NEW e \in Epochs, NEW i \in 1..Len(intervals'[e])
               PROVE  intervals'[e][i].lastProcessedTick <= cur
    BY <1>2 DEF IntervalsBelowBound, IntervalBound
  <2>1. CASE e = E /\ i = Len(intervals[E]) + 1
    BY <1>2, <1>4, <2>1 DEF Ticks
  <2>2. CASE e = E /\ i \in 1..Len(intervals[E])
    <3>1. intervals[E][i].lastProcessedTick <= cur
      BY <1>5, <2>2
    <3>. QED
      BY <1>4, <2>2, <3>1
  <2>3. CASE e # E
    <3>1. intervals'[e] = intervals[e]
      BY <1>4, <2>3
    <3>2. intervals[e][i].lastProcessedTick <= cur
      BY <1>5, <3>1
    <3>. QED
      BY <3>1, <3>2
  <2>. QED
    BY <1>2, <1>4, <2>1, <2>2, <2>3
<1>7. IntervalsWellFormed'
  <2> SUFFICES ASSUME NEW e \in Epochs, NEW i \in 1..Len(intervals'[e])
               PROVE  /\ intervals'[e][i].initialProcessedTick
                            <= intervals'[e][i].lastProcessedTick
                      /\ i > 1 => intervals'[e][i - 1].lastProcessedTick
                                    < intervals'[e][i].initialProcessedTick
    BY DEF IntervalsWellFormed
  <2>1. CASE e = E /\ i = Len(intervals[E]) + 1
    <3>1. i > 1 => /\ i - 1 \in 1..Len(intervals[E])
                   /\ intervals'[E][i - 1] = intervals[E][i - 1]
      <4>1. Len(intervals[E]) \in Nat
        BY <1>2, LenProperties
      <4>2. i > 1 => i - 1 \in 1..Len(intervals[E])
        BY <2>1, <4>1
      <4>. QED
        BY <1>4, <4>2
    <3>. QED
      BY <1>2, <1>4, <1>5, <2>1, <3>1 DEF Ticks
  <2>2. CASE e = E /\ i \in 1..Len(intervals[E])
    <3>1. i > 1 => intervals'[E][i - 1] = intervals[E][i - 1]
      BY <1>4, <2>2
    <3>. QED
      BY <1>4, <2>2, <3>1 DEF IntervalInv, IntervalsWellFormed
  <2>3. CASE e # E
    BY <1>4, <2>3 DEF IntervalInv, IntervalsWellFormed
  <2>. QED
    BY <1>2, <1>4, <2>1, <2>2, <2>3
<1>8. LastPerEpochAtEnd'
  BY <1>2, <1>4 DEF IntervalInv, LastPerEpochAtEnd
<1>9. /\ pc' # "idle" => next' = cur'
      /\ pc' = "setIntervals" => lastProcessed'.tick = cur' /\ lastPerEpoch'[EpochOf[cur']] = cur'
      /\ pc' # "setIntervals" => lastProcessed'.tick < next'
  BY <1>2 DEF IntervalInv
<1>. QED
  BY <1>1, <1>6, <1>7, <1>8, <1>9 DEF IntervalInv

(* SetLastProcessedTick's batch: LastProcessedTick and the epoch's last    *)
(* tick move to cur, which the interval appended for it already reaches.  *)
LEMMA IntervalSetLastProcessed ==
    ASSUME IntervalInv, SetLastProcessed PROVE IntervalInv'
<1> DEFINE E == EpochOf[cur]
<1>1. TypeOK'
  BY TypeNext DEF IntervalInv, Next, ProcessTick
<1>2. /\ cur \in Ticks /\ E \in Epochs
      /\ lastPerEpoch \in [Epochs -> Ticks \cup {NoTick}]
      /\ pc' = "setIntervals" /\ lastProcessed'.tick = cur
      /\ lastPerEpoch' = [lastPerEpoch EXCEPT ![E] = cur]
      /\ UNCHANGED <<cur, next, intervals>>
  BY ConstantsAssumption DEF SetLastProcessed, IntervalInv, TypeOK
<1>3. IntervalsBelowBound'
  BY <1>2 DEF SetLastProcessed, IntervalInv, IntervalsBelowBound, IntervalBound
<1>4. LastPerEpochAtEnd'
  BY <1>2 DEF SetLastProcessed, IntervalInv, LastPerEpochAtEnd
<1>. QED
  BY <1>1, <1>2, <1>3, <1>4 DEF SetLastProcessed, IntervalInv, IntervalsWellFormed

(* SetLastProcessedTick's second write: the last interval of cur's epoch  *)
(* is extended to cur, which is LastProcessedTick, or [cur, cur] opened.  *)
LEMMA IntervalSetIntervals ==
    ASSUME IntervalInv, SetIntervals PROVE IntervalInv'
<1> DEFINE E == EpochOf[cur]
           L == intervals[E]
           R == ExtendLastInterval(L, cur)
<1>1. TypeOK'
  BY TypeNext DEF IntervalInv, Next, ProcessTick
<1>2. /\ cur \in Ticks /\ E \in Epochs /\ L \in Seq(Interval)
      /\ lastProcessed.tick = cur /\ lastPerEpoch[E] = cur
      /\ pc' = "idle" /\ next' = cur + 1
      /\ intervals' = [intervals EXCEPT ![E] = R]
      /\ UNCHANGED <<cur, lastProcessed, lastPerEpoch>>
  BY ConstantsAssumption DEF SetIntervals, IntervalInv, TypeOK
<1>3. /\ R \in Seq(Interval)
      /\ Len(R) = IF L = <<>> THEN 1 ELSE Len(L)
      /\ \A i \in 1..Len(R) - 1 : R[i] = L[i]
      /\ R[Len(R)].lastProcessedTick = cur
      /\ R[Len(R)].initialProcessedTick =
           IF L = <<>> THEN cur ELSE L[Len(L)].initialProcessedTick
  BY <1>2, ExtendLastIntervalFacts
<1>4. /\ intervals'[E] = R
      /\ \A e \in Epochs \ {E} : intervals'[e] = intervals[e]
  BY <1>2 DEF IntervalInv, TypeOK
<1>5. /\ Len(L) \in Nat /\ Len(R) \in Nat \ {0}
      /\ L # <<>> => Len(L) \in 1..Len(L)
  BY <1>2, <1>3, LenProperties, EmptySeq
<1>6. \A i \in 1..Len(L) : L[i] \in Interval /\ L[i].lastProcessedTick <= cur
  BY <1>2, ElementOfSeq
     DEF IntervalInv, IntervalsBelowBound, IntervalBound, Interval
<1>7. IntervalsBelowBound'
  <2> SUFFICES ASSUME NEW e \in Epochs, NEW i \in 1..Len(intervals'[e])
               PROVE  intervals'[e][i].lastProcessedTick <= cur
    BY <1>2 DEF IntervalsBelowBound, IntervalBound
  <2>1. CASE e = E /\ i = Len(R)
    BY <1>3, <1>4, <1>2, <2>1 DEF Ticks
  <2>2. CASE e = E /\ i # Len(R)
    BY <1>3, <1>4, <1>5, <1>6, <2>2
  <2>3. CASE e # E
    BY <1>2, <1>4, <2>3 DEF IntervalInv, IntervalsBelowBound, IntervalBound
  <2>. QED
    BY <2>1, <2>2, <2>3
<1>8. IntervalsWellFormed'
  <2> SUFFICES ASSUME NEW e \in Epochs, NEW i \in 1..Len(intervals'[e])
               PROVE  /\ intervals'[e][i].initialProcessedTick
                            <= intervals'[e][i].lastProcessedTick
                      /\ i > 1 => intervals'[e][i - 1].lastProcessedTick
                                    < intervals'[e][i].initialProcessedTick
    BY DEF IntervalsWellFormed
  <2>1. CASE e = E /\ i = Len(R) /\ L = <<>>
    <3>1. i = 1 /\ intervals'[e][i] = R[Len(R)]
      BY <1>3, <1>4, <2>1
    <3>2. R[Len(R)].initialProcessedTick = cur /\ R[Len(R)].lastProcessedTick = cur
      BY <1>3, <2>1
    <3>. QED
      BY <3>1, <3>2, <1>2 DEF Ticks
  <2>2. CASE e = E /\ i = Len(R) /\ L # <<>>
    <3>1. i = Len(L) /\ R[i].initialProcessedTick = L[i].initialProcessedTick
      BY <1>3, <2>2
    <3>2. L[i].initialProcessedTick <= L[i].lastProcessedTick
          /\ (i > 1 => L[i - 1].lastProcessedTick < L[i].initialProcessedTick)
      BY <1>5, <3>1, <2>2 DEF IntervalInv, IntervalsWellFormed
    <3>3. L[i] \in Interval /\ L[i].lastProcessedTick <= cur
      BY <1>5, <1>6, <3>1, <2>2
    <3>4. i > 1 => R[i - 1] = L[i - 1] /\ L[i - 1] \in Interval
      BY <1>3, <1>5, <1>6, <3>1
    <3>5. intervals'[e] = R /\ R[i].lastProcessedTick = cur
      BY <1>3, <1>4, <2>2
    <3>6. L[i].initialProcessedTick <= cur
      BY <3>2, <3>3, <1>2 DEF Interval, Ticks
    <3>7. i > 1 => R[i - 1].lastProcessedTick < R[i].initialProcessedTick
      BY <3>1, <3>2, <3>4
    <3>. QED
      BY <3>1, <3>5, <3>6, <3>7
  <2>3. CASE e = E /\ i # Len(R)
    <3>1. i \in 1..Len(L) /\ R[i] = L[i] /\ (i > 1 => R[i - 1] = L[i - 1])
      BY <1>3, <1>4, <1>5, <2>3
    <3>. QED
      BY <1>4, <2>3, <3>1 DEF IntervalInv, IntervalsWellFormed
  <2>4. CASE e # E
    BY <1>4, <2>4 DEF IntervalInv, IntervalsWellFormed
  <2>. QED
    BY <2>1, <2>2, <2>3, <2>4
<1>9. LastPerEpochAtEnd'
  <2> SUFFICES ASSUME NEW e \in Epochs, lastPerEpoch'[e] # NoTick
               PROVE  /\ intervals'[e] # <<>>
                      /\ intervals'[e][Len(intervals'[e])].lastProcessedTick
                           = lastPerEpoch'[e]
    BY DEF LastPerEpochAtEnd
  <2>1. CASE e = E
    BY <1>2, <1>3, <1>4, <1>5, <2>1
  <2>2. CASE e # E
    BY <1>2, <1>4, <2>2 DEF IntervalInv, LastPerEpochAtEnd
  <2>. QED
    BY <2>1, <2>2
<1>10. next' = cur + 1 /\ cur \in Nat
  BY <1>2 DEF Ticks
<1>. QED
  BY <1>1, <1>2, <1>7, <1>8, <1>9, <1>10 DEF IntervalInv

LEMMA IntervalNext == IntervalInv /\ [NoCrashNext]_vars => IntervalInv'
<1> SUFFICES ASSUME IntervalInv, [NoCrashNext]_vars PROVE IntervalInv'
  OBVIOUS
<1>1. CASE \/ FetchFailed \/ ValidationFailed \/ EmptyQuorumTick \/ Validated
           \/ StoreQuorum \/ StoreTick \/ StoreTxs \/ StoreTransfers \/ StoreAssets
  <2>1. TypeOK'
    BY <1>1, TypeNext DEF IntervalInv, Next, ProcessTick
  <2>2. /\ UNCHANGED <<intervals, lastPerEpoch, lastProcessed>>
        /\ pc \notin {"setLastProcessed", "setIntervals"}
        /\ pc' # "setIntervals"
        /\ pc' # "idle" => next' = cur'
        /\ pc' # "setIntervals" => lastProcessed'.tick < next'
        /\ pc' = "setLastProcessed" => lastProcessed.tick < cur'
    BY <1>1, IntervalControlBeforeBookkeeping
  <2>3. IntervalsBelowBound' /\ IntervalsWellFormed' /\ LastPerEpochAtEnd'
    BY <2>1, <2>2, IntervalDataFrame
  <2>. QED
    BY <2>1, <2>2, <2>3 DEF IntervalInv
<1>2. CASE AppendInterval
  BY <1>2, IntervalAppend
<1>3. CASE SetLastProcessed
  BY <1>3, IntervalSetLastProcessed
<1>4. CASE SetIntervals
  BY <1>4, IntervalSetIntervals
<1>5. CASE WaitForTick \/ UNCHANGED vars
  BY <1>5 DEF WaitForTick, vars, storeVars, taskVars, IntervalInv, TypeOK,
              IntervalsBelowBound, IntervalBound, IntervalsWellFormed, LastPerEpochAtEnd
<1>. QED
  BY <1>1, <1>2, <1>3, <1>4, <1>5 DEF NoCrashNext, ProcessTick

(* A process that never crashes keeps each epoch's ProcessedTickIntervals *)
(* ascending, disjoint and each interval non-empty, whatever ticks fail   *)
(* validation and whatever epoch each tick carries (spec 8, item 4).      *)
THEOREM IntervalsWellFormedNoCrash == NoCrashSpec => []IntervalsWellFormed
<1>1. IntervalInv => IntervalsWellFormed
  BY DEF IntervalInv
<1>. QED
  BY <1>1, IntervalInit, IntervalNext, PTL DEF NoCrashSpec

(* A process that never crashes has, outside SetLastProcessedTick's two   *)
(* writes, every epoch's LastProcessedTickPerEpoch equal to the end of    *)
(* the epoch's last processed interval (spec 8, item 4).                  *)
THEOREM LastPerEpochMatchesIntervalsNoCrash ==
    NoCrashSpec => []LastPerEpochMatchesIntervals
<1>1. IntervalInv => LastPerEpochMatchesIntervals
  BY DEF IntervalInv, LastPerEpochAtEnd, LastPerEpochMatchesIntervals
<1>. QED
  BY <1>1, IntervalInit, IntervalNext, PTL DEF NoCrashSpec

====
