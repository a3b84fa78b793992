------------------------- MODULE FinishSpmd_proofs --------------------------
(***************************************************************************)
(* finish_spmd terminates only when every task of every rank has, and      *)
(* implements GlobalFinish: proved for any number of ranks, tasks and      *)
(* consecutive finishes.                                                   *)
(*                                                                         *)
(* A rank that enters the cancellable barrier has read zero from its own   *)
(* in-flight counter after it saw no local work, so from then on nothing   *)
(* of its own is in flight; whatever reaches it later was sent by a rank   *)
(* that is, for that reason, not in the barrier.  When all ranks are in    *)
(* the barrier nobody has anything in flight, so nothing has reached any   *)
(* of them.  The barriers keep the count of one finish from mixing with    *)
(* the reset of the next.                                                  *)
(***************************************************************************)
EXTENDS FinishSpmd, FiniteSetTheorems, TLAPS

WaitPc == {"wait1", "wait2", "wait3"}

\* The tasks and the places that refer to them.
TaskInv ==
  /\ \A r \in Rank : pc[r] = "exec" =>
       cur[r] \in Task /\ st[cur[r]] = "exec" /\ home[cur[r]] = r
  /\ \A t \in Task : pushing[t] # NoTask =>
       /\ st[t] = "live" /\ st[pushing[t]] = "counted"
       /\ home[pushing[t]] = dest[t]
  /\ \A s, t \in Task : pushing[s] # NoTask /\ pushing[s] = pushing[t] => s = t
  /\ \A r \in Rank : \A t \in received[r] :
       dest[t] = r /\ st[t] \in {"live", "done"}

DeqInv ==
  \A r \in Rank :
    /\ \A i \in 1 .. Len(deq[r]) :
         st[deq[r][i]] = "queued" /\ home[deq[r][i]] = r
    /\ \A i, j \in 1 .. Len(deq[r]) : deq[r][i] = deq[r][j] => i = j

\* A rank waiting at a barrier is at most one ahead of any other; a rank that
\* has passed it is not ahead of any.
PhaseInv ==
  /\ \A r, q \in Rank :
       Arrived(q) >= Arrived(r) - (IF pc[r] \in WaitPc THEN 1 ELSE 0)
  /\ \A r \in Rank : pc[r] # "finalized" => round[r] < MaxFinish
  /\ \A r \in Rank : pc[r] \in BarPc => N > 1

\* Between cb_init and the first lambda nobody has counted.
ResetInv ==
  \A r \in Rank :
    /\ pc[r] \in {"notify1", "wait1"}
    /\ \A q \in Rank : pc[q] \notin ScopePc
    => cb_count = 0

OutsidePc == PrePc \cup TermPc \cup {"finalized"}

QuietInv ==
  /\ \A r \in Rank : pc[r] \in OutsidePc => Quiet(r)
  /\ \A r \in Rank : pc[r] \in {"pending", "sum"} => received[r] = {}
  /\ \A r \in Rank : pc[r] = "sum" =>
       /\ CountedAt(r) = {}
       /\ sum[r].acc >= 0
       /\ sum[r].i > r /\ sum[r].acc = 0 => Flying(r) = {}
  /\ \A r \in Rank : pc[r] # "sum" => sum[r] = [i |-> 0, acc |-> 0]
  /\ ParkedIsQuiet

\* Once a rank has left the loop everybody is quiet, and in the barrier or
\* past it.
TermInv ==
  (\E r \in Rank : pc[r] \in TermPc) =>
    \A q \in Rank : Quiet(q) /\ pc[q] \in BarPc \cup OutsidePc

IInv == /\ TypeOK /\ TaskInv /\ DeqInv /\ FinishCounterExact /\ InFlightExact
        /\ PhaseInv /\ ResetInv /\ BarrierCount /\ QuietInv /\ TermInv

-----------------------------------------------------------------------------
(* Facts about finite sets, in the form the steps below use them.          *)

LEMMA CardAdd ==
  ASSUME NEW S, NEW T, NEW x, IsFiniteSet(S), x \notin S, T = S \cup {x}
  PROVE  IsFiniteSet(T) /\ Cardinality(T) = Cardinality(S) + 1
BY FS_AddElement

LEMMA CardRemove ==
  ASSUME NEW S, NEW T, NEW x, IsFiniteSet(S), x \in S, T = S \ {x}
  PROVE  IsFiniteSet(T) /\ Cardinality(T) = Cardinality(S) - 1
BY FS_RemoveElement

LEMMA CardMinus ==
  ASSUME NEW S, NEW D, NEW T, IsFiniteSet(S), D \subseteq S, T = S \ D
  PROVE  IsFiniteSet(T) /\ Cardinality(T) = Cardinality(S) - Cardinality(D)
<1>1. IsFiniteSet(D) /\ S \cap D = D
  BY FS_Subset
<1>2. IsFiniteSet(S \ D) /\ Cardinality(S \ D) = Cardinality(S) - Cardinality(S \cap D)
  BY <1>1, FS_Difference
<1> QED
  BY <1>1, <1>2

LEMMA TasksFinite ==
  ASSUME NEW S, S \subseteq Task
  PROVE  /\ IsFiniteSet(S) /\ Cardinality(S) \in Nat
         /\ Cardinality(S) = 0 <=> S = {}
BY TaskAssumption, FS_Subset, FS_CardinalityType, FS_EmptySet

LEMMA RanksFinite ==
  ASSUME NEW S, S \subseteq Rank
  PROVE  /\ IsFiniteSet(S) /\ Cardinality(S) \in Nat
         /\ Cardinality(S) = N <=> S = Rank
         /\ Cardinality({}) = 0
<1>1. 0 \in Int /\ N-1 \in Int /\ N >= 1
  BY NAssumption
<1>2. IsFiniteSet(Rank) /\ Cardinality(Rank) = N
  <2>1. /\ IsFiniteSet(0 .. N-1)
        /\ Cardinality(0 .. N-1) = IF 0 > N-1 THEN 0 ELSE (N-1) - 0 + 1
    BY <1>1, FS_Interval
  <2>2. (IF 0 > N-1 THEN 0 ELSE (N-1) - 0 + 1) = N
    BY <1>1, NAssumption
  <2> QED
    BY <2>1, <2>2 DEF Rank
<1> QED
  BY <1>2, FS_Subset, FS_CardinalityType, FS_EmptySet

LEMMA SubsetsOfTask ==
  \A r : CountedAt(r) \subseteq Task /\ Flying(r) \subseteq Task
BY DEF CountedAt, Flying

-----------------------------------------------------------------------------
(* Type correctness.                                                       *)

LEMMA InitType == Init => TypeOK
<1> SUFFICES ASSUME Init PROVE TypeOK
  OBVIOUS
<1>1. 0 \in Rank /\ 0 \in 0 .. N
  BY NAssumption DEF Rank
<1>2. pc \in [Rank -> Pc]
  BY DEF Init, Pc, PrePc
<1>3. round \in [Rank -> 0 .. MaxFinish]
  BY MaxFinishAssumption DEF Init
<1>4. deq \in [Rank -> Seq(Task)]
  BY DEF Init
<1>5. /\ sum \in [Rank -> [i : 0 .. N, acc : Int]]
      /\ st \in [Task -> TaskState]
      /\ home \in [Task -> Rank] /\ dest \in [Task -> Rank]
  BY <1>1 DEF Init, TaskState
<1> QED
  BY <1>2, <1>3, <1>4, <1>5 DEF Init, TypeOK, NOT_WORKING

LEMMA CountType ==
  ASSUME finishCounter \in [Rank -> Int], NEW r \in Rank, NEW k \in Int, Count(r, k)
  PROVE  finishCounter' \in [Rank -> Int]
BY DEF Count

LEMMA GotoType ==
  ASSUME pc \in [Rank -> Pc], NEW r \in Rank, NEW p \in Pc, Goto(r, p)
  PROVE  pc' \in [Rank -> Pc]
BY DEF Goto

LEMMA TypeStep ==
  ASSUME TypeOK, [Next]_vars, TaskInv, InFlightExact,
         \A q \in Rank : pc[q] # "finalized" => round[q] < MaxFinish
  PROVE  TypeOK'
<1>0. /\ pc \in [Rank -> Pc] /\ finishCounter \in [Rank -> Int]
      /\ asyncsInFlight \in [Rank -> Nat] /\ workAvail \in [Rank -> Int]
      /\ cb_count \in Int /\ received \in [Rank -> SUBSET Task]
      /\ st \in [Task -> TaskState] /\ dest \in [Task -> Rank]
      /\ round \in [Rank -> 0 .. MaxFinish] /\ deq \in [Rank -> Seq(Task)]
  BY DEF TypeOK
<1>1. ASSUME NEW r \in Rank,
             \/ cb_init(r) \/ BarrierNotify(r) \/ BarrierLoop(r)
             \/ PopEmpty(r) \/ publish_local_load_info(r) \/ EndAdvance(r)
             \/ EndReport(r) \/ CheckPending(r)
             \/ cbarrier_test(r) \/ Detect(r) \/ cbarrier_dec(r)
      PROVE  TypeOK'
  <2>1. pc' \in [Rank -> Pc]
    <3>1. /\ {"notify1", "wait1", "wait2", "wait3", "pop", "end"} \subseteq Pc
          /\ {"publish", "advance", "check_incoming", "pending", "sum"} \subseteq Pc
          /\ {"notify3", "detect", "cb_dec", "cb_advance", "cb_test"} \subseteq Pc
      BY DEF Pc, PrePc, LambdaPc, StartPc, LoopPc, BarPc, TermPc
    <3>2. CASE cb_init(r) \/ BarrierNotify(r) \/ BarrierLoop(r)
      BY <1>0, <3>1, <3>2, GotoType DEF cb_init, BarrierNotify, BarrierLoop
    <3>3. CASE PopEmpty(r) \/ publish_local_load_info(r) \/ EndAdvance(r)
      BY <1>0, <3>1, <3>3, GotoType
         DEF PopEmpty, publish_local_load_info, EndAdvance
    <3>4. CASE EndReport(r) \/ CheckPending(r)
      BY <1>0, <3>1, <3>4, GotoType DEF EndReport, CheckPending
    <3>5. CASE cbarrier_test(r) \/ Detect(r) \/ cbarrier_dec(r)
      BY <1>0, <3>1, <3>5, GotoType DEF cbarrier_test, Detect, cbarrier_dec
    <3> QED
      BY <1>1, <3>2, <3>3, <3>4, <3>5
  <2>2. cb_count' \in Int /\ workAvail' \in [Rank -> Int]
    BY <1>0, <1>1 DEF Pending, cb_init, BarrierNotify, BarrierLoop, PopEmpty,
           publish_local_load_info, EndAdvance, EndReport, CheckPending,
           cbarrier_test, Detect, cbarrier_dec
  <2>3. UNCHANGED <<round, finishCounter, asyncsInFlight, deq, cur, received,
                    sum, st, home, dest, pushing, event_list>>
    BY <1>1 DEF tasks, cb_init, BarrierNotify, BarrierLoop, PopEmpty,
           publish_local_load_info, EndAdvance, EndReport, CheckPending,
           cbarrier_test, Detect, cbarrier_dec
  <2> QED
    BY <2>1, <2>2, <2>3 DEF TypeOK
<1>2. ASSUME NEW r \in Rank, BarrierStart(r) \/ EndLambda(r) \/ DecCommTask(r)
      PROVE  TypeOK'
  <2>1. pc' \in [Rank -> Pc]
    <3>1. PICK p \in {"lambda", "notify2", "pop"} : Goto(r, p)
      BY <1>2 DEF BarrierStart, EndLambda, DecCommTask
    <3>2. p \in Pc
      BY DEF Pc, LambdaPc, StartPc, LoopPc
    <3> QED
      BY <1>0, <3>1, <3>2, GotoType
  <2>2. finishCounter' \in [Rank -> Int]
    <3>1. \/ Count(r, 1) \/ Count(r, -1)
          \/ finishCounter' = [finishCounter EXCEPT ![r] = 0]
      BY <1>2 DEF BarrierStart, EndLambda, DecCommTask
    <3> QED
      BY <1>0, <3>1, CountType
  <2>3. cur' \in [Rank -> Task \cup {NoTask}]
    BY <1>2 DEF TypeOK, BarrierStart, EndLambda, DecCommTask
  <2>4. UNCHANGED <<round, asyncsInFlight, workAvail, cb_count, deq, received,
                    sum, st, home, dest, pushing, event_list>>
    BY <1>2 DEF tasks, BarrierStart, EndLambda, DecCommTask
  <2> QED
    BY <2>1, <2>2, <2>3, <2>4 DEF TypeOK
<1>3. ASSUME NEW r \in Rank, EndFinish(r) PROVE TypeOK'
  <2>1. round[r] + 1 \in 0 .. MaxFinish
    <3>1. round[r] \in 0 .. MaxFinish /\ round[r] < MaxFinish
      BY <1>0, <1>3 DEF EndFinish
    <3> QED
      BY <3>1, MaxFinishAssumption
  <2>2. round' \in [Rank -> 0 .. MaxFinish]
    BY <1>3, <2>1 DEF EndFinish, TypeOK
  <2>3. pc' \in [Rank -> Pc] /\ finishCounter' \in [Rank -> Int]
    BY <1>3 DEF EndFinish, TypeOK, Goto, Count, Pc, PrePc
  <2> QED
    BY <1>3, <2>2, <2>3 DEF EndFinish, TypeOK, tasks
<1>4. ASSUME NEW r \in Rank, PopCommTask(r) PROVE TypeOK'
  <2>1. Head(deq[r]) \in Task /\ Tail(deq[r]) \in Seq(Task)
    BY <1>4 DEF PopCommTask, TypeOK
  <2>2. /\ cur' \in [Rank -> Task \cup {NoTask}] /\ deq' \in [Rank -> Seq(Task)]
        /\ st' \in [Task -> TaskState]
    BY <1>4, <2>1 DEF PopCommTask, TypeOK, TaskState
  <2>3. pc' \in [Rank -> Pc]
    BY <1>0, <1>4, GotoType DEF PopCommTask, Pc, LoopPc
  <2>4. asyncsInFlight' \in [Rank -> Nat]
    <3>1. asyncsInFlight' = [asyncsInFlight EXCEPT ![r] = asyncsInFlight[r] + 1]
      BY <1>4 DEF PopCommTask
    <3> QED
      BY <1>0, <3>1
  <2> QED
    BY <1>4, <2>2, <2>3, <2>4 DEF PopCommTask, TypeOK
<1>5. ASSUME NEW r \in Rank, ExecCommTask(r) PROVE TypeOK'
  <2>1. pc' \in [Rank -> Pc] /\ st' \in [Task -> TaskState]
    BY <1>5 DEF ExecCommTask, TypeOK, Goto, Pc, LoopPc, TaskState
  <2>2. event_list' \in [Rank -> SUBSET Task]
    <3>1. CopyOf(r) \subseteq Task
      BY <1>5 DEF ExecCommTask, CopyOf, TaskInv
    <3>2. event_list' = [event_list EXCEPT ![r] = @ \cup CopyOf(r)]
      BY <1>5 DEF ExecCommTask
    <3> QED
      BY <3>1, <3>2 DEF TypeOK
  <2> QED
    BY <1>5, <2>1, <2>2 DEF ExecCommTask, TypeOK
<1>6. ASSUME NEW r \in Rank, NEW o \in Rank, ReportTo(r, o) PROVE TypeOK'
  <2> DEFINE D == {t \in received[r] : home[t] = o}
  <2>1. /\ asyncsInFlight[o] - Cardinality(D) \in Nat
        /\ received[r] \ D \in SUBSET Task
    <3>1. D \subseteq Flying(o)
      BY DEF TypeOK, TaskInv, Flying
    <3>2. /\ IsFiniteSet(Flying(o)) /\ Flying(o) \ D \subseteq Task
          /\ Cardinality(Flying(o)) = asyncsInFlight[o]
      BY SubsetsOfTask, TasksFinite DEF InFlightExact
    <3> HIDE DEF D
    <3>3. Cardinality(Flying(o) \ D) = asyncsInFlight[o] - Cardinality(D)
      BY <3>1, <3>2, CardMinus
    <3> QED
      BY <3>2, <3>3, TasksFinite DEF TypeOK
  <2>2. /\ asyncsInFlight' = [asyncsInFlight EXCEPT ![o] = @ - Cardinality(D)]
        /\ received' = [received EXCEPT ![r] = @ \ D]
    BY <1>6 DEF ReportTo
  <2> HIDE DEF D
  <2>3. asyncsInFlight' \in [Rank -> Nat] /\ received' \in [Rank -> SUBSET Task]
    BY <2>1, <2>2 DEF TypeOK
  <2> QED
    BY <1>6, <2>3 DEF ReportTo, TypeOK, tasks
<1>7. ASSUME NEW r \in Rank, ReadInFlight(r) PROVE TypeOK'
  <2> DEFINE next == [i |-> sum[r].i + 1, acc |-> sum[r].acc + asyncsInFlight[sum[r].i]]
  <2>1. sum[r] \in [i : 0 .. N, acc : Int]
    BY DEF TypeOK
  <2>2. sum[r].i \in 0 .. N /\ sum[r].acc \in Int /\ sum[r].i < N
    BY <1>7, <2>1 DEF ReadInFlight
  <2>3. sum[r].i \in Rank /\ sum[r].i + 1 \in 0 .. N
    BY <2>2, NAssumption DEF Rank
  <2>4. asyncsInFlight[sum[r].i] \in Int
    BY <2>3 DEF TypeOK
  <2>5. next \in [i : 0 .. N, acc : Int]
    BY <2>2, <2>3, <2>4
  <2>6. sum' = [sum EXCEPT ![r] = next]
    BY <1>7 DEF ReadInFlight
  <2> HIDE DEF next
  <2>7. sum' \in [Rank -> [i : 0 .. N, acc : Int]]
    BY <2>5, <2>6 DEF TypeOK
  <2> QED
    BY <1>7, <2>7 DEF ReadInFlight, TypeOK, tasks
<1>8. ASSUME NEW r \in Rank, EndSum(r) \/ cbarrier_inc(r) PROVE TypeOK'
  <2>1. [i |-> 0, acc |-> 0] \in [i : 0 .. N, acc : Int]
    BY NAssumption
  <2>2. sum' \in [Rank -> [i : 0 .. N, acc : Int]]
    BY <1>8, <2>1 DEF EndSum, cbarrier_inc, EndLoop, TypeOK
  <2>3. pc' \in [Rank -> Pc] /\ cb_count' \in Int
    <3>1. {"pop", "notify3", "inc_test"} \subseteq Pc
      BY DEF Pc, LoopPc, BarPc, TermPc
    <3> QED
      BY <1>0, <1>8, <3>1, GotoType DEF EndSum, cbarrier_inc
  <2> QED
    BY <1>8, <2>2, <2>3 DEF EndSum, cbarrier_inc, TypeOK, tasks
<1>9. ASSUME NEW u \in Task, NEW s \in TaskState, NEW h \in Rank, NEW d \in Rank,
             Create(u, s, h, d)
      PROVE  /\ st' \in [Task -> TaskState]
             /\ home' \in [Task -> Rank] /\ dest' \in [Task -> Rank]
  BY <1>9 DEF Create, TypeOK
<1>10. ASSUME Spawn PROVE TypeOK'
  <2>0. {"live", "queued", "counted"} \subseteq TaskState
    BY DEF TaskState
  <2>1. ASSUME NEW r \in Rank, NEW u \in Task, LambdaAsync(r, u) PROVE TypeOK'
    <3>1. finishCounter' \in [Rank -> Int]
      BY <1>0, <2>1, CountType DEF LambdaAsync, Running
    <3> QED
      BY <1>9, <2>0, <2>1, <3>1 DEF LambdaAsync, TypeOK, comm
  <2>2. ASSUME NEW r \in Rank, NEW p \in Rank, NEW u \in Task, LambdaComm(r, u, p)
        PROVE  TypeOK'
    <3>1. Append(deq[r], u) \in Seq(Task)
      BY DEF TypeOK
    <3>2. finishCounter' \in [Rank -> Int]
      BY <1>0, <2>2, CountType DEF LambdaComm
    <3>3. deq' \in [Rank -> Seq(Task)]
      BY <1>0, <2>2, <3>1 DEF LambdaComm
    <3> QED
      BY <1>9, <2>0, <2>2, <3>2, <3>3 DEF LambdaComm, TypeOK, comm
  <2>3. ASSUME NEW t \in Task, NEW u \in Task, TaskAsync(t, u) PROVE TypeOK'
    <3>1. finishCounter' \in [Rank -> Int] /\ dest[t] \in Rank
      BY <1>0, <2>3, CountType DEF TaskAsync, Running
    <3> QED
      BY <1>9, <2>0, <2>3, <3>1 DEF TaskAsync, TypeOK, comm
  <2>4. ASSUME NEW t \in Task, NEW u \in Task, NEW p \in Rank, TaskComm(t, u, p)
        PROVE  TypeOK'
    <3>1. finishCounter' \in [Rank -> Int] /\ dest[t] \in Rank
      BY <1>0, <2>4, CountType DEF TaskComm, Running
    <3>2. pushing' \in [Task -> Task \cup {NoTask}]
      BY <2>4 DEF TaskComm, TypeOK
    <3> QED
      BY <1>9, <2>0, <2>4, <3>1, <3>2 DEF TaskComm, TypeOK, comm
  <2> QED
    BY <1>10, <2>1, <2>2, <2>3, <2>4 DEF Spawn
<1>11. ASSUME NEW t \in Task, TaskPush(t) PROVE TypeOK'
  <2>1. pushing[t] \in Task /\ dest[t] \in Rank
    BY <1>11 DEF TaskPush, TypeOK
  <2>2. Append(deq[dest[t]], pushing[t]) \in Seq(Task)
    BY <2>1 DEF TypeOK
  <2>3. deq' \in [Rank -> Seq(Task)]
    BY <1>11, <2>1, <2>2 DEF TaskPush, TypeOK
  <2>4. /\ st' \in [Task -> TaskState]
        /\ pushing' \in [Task -> Task \cup {NoTask}]
    BY <1>11 DEF TaskPush, TypeOK, TaskState
  <2> QED
    BY <1>11, <2>3, <2>4 DEF TaskPush, TypeOK, comm
<1>12. ASSUME NEW t \in Task, TaskEnd(t) PROVE TypeOK'
  <2>1. st' \in [Task -> TaskState] /\ finishCounter' \in [Rank -> Int]
    <3>1. st' = [st EXCEPT ![t] = "done"] /\ Count(dest[t], -1) /\ dest[t] \in Rank
      BY <1>12 DEF TaskEnd, TypeOK
    <3> QED
      BY <1>0, <3>1, CountType DEF TaskState
  <2> QED
    BY <1>12, <2>1 DEF TaskEnd, TypeOK, comm
<1>13. ASSUME NEW t \in Task, Receive(t) PROVE TypeOK'
  <2>1. st' \in [Task -> TaskState]
    BY <1>0, <1>13 DEF Receive, ReceiveAsync, ReceiveCopy, TaskState
  <2>2. received' \in [Rank -> SUBSET Task]
    <3>1. received[dest[t]] \cup {t} \in SUBSET Task
      BY <1>0
    <3>2. received' = [received EXCEPT ![dest[t]] = received[dest[t]] \cup {t}]
      BY <1>13 DEF Receive, ReceiveAsync, ReceiveCopy
    <3> QED
      BY <1>0, <3>1, <3>2
  <2>3. finishCounter' \in [Rank -> Int]
    BY <1>0, <1>13, CountType DEF Receive, ReceiveAsync, ReceiveCopy
  <2> QED
    BY <1>13, <2>1, <2>2, <2>3 DEF Receive, ReceiveAsync, ReceiveCopy, TypeOK, comm
<1>14. ASSUME UNCHANGED vars PROVE TypeOK'
  BY <1>14 DEF vars, TypeOK
<1> QED
  BY <1>1, <1>2, <1>3, <1>4, <1>5, <1>6, <1>7, <1>8, <1>10, <1>11, <1>12,
     <1>13, <1>14 DEF Next, CommStep, Worker, Finalized

-----------------------------------------------------------------------------
(* The steps of a communication worker that touch no task.                 *)

ControlStep(r) ==
  \/ cb_init(r) \/ BarrierNotify(r) \/ BarrierStart(r) \/ BarrierLoop(r)
  \/ EndLambda(r) \/ EndFinish(r) \/ DecCommTask(r) \/ PopEmpty(r)
  \/ publish_local_load_info(r) \/ EndAdvance(r) \/ EndReport(r)
  \/ CheckPending(r) \/ ReadInFlight(r) \/ EndSum(r)
  \/ cbarrier_inc(r) \/ cbarrier_test(r) \/ Detect(r) \/ cbarrier_dec(r)

LEMMA ControlFrame ==
  ASSUME TypeOK, NEW r \in Rank, ControlStep(r)
  PROVE  /\ UNCHANGED <<asyncsInFlight, deq, received, st, home, dest, pushing>>
         /\ pc[r] # "exec" /\ pc'[r] # "exec"
         /\ \A q \in Rank : q # r => pc'[q] = pc[q] /\ cur'[q] = cur[q]
                                      /\ finishCounter'[q] = finishCounter[q]
                                      /\ round'[q] = round[q]
                                      /\ sum'[q] = sum[q]
<1>0. pc \in [Rank -> Pc] /\ cur \in [Rank -> Task \cup {NoTask}]
      /\ finishCounter \in [Rank -> Int] /\ round \in [Rank -> 0 .. MaxFinish]
      /\ sum \in [Rank -> [i : 0 .. N, acc : Int]]
  BY DEF TypeOK
<1> USE DEF Goto, Count, tasks
<1>1. CASE cb_init(r) \/ BarrierNotify(r) \/ BarrierStart(r) \/ BarrierLoop(r)
  BY <1>0, <1>1 DEF cb_init, BarrierNotify, BarrierStart, BarrierLoop
<1>2. CASE EndLambda(r) \/ EndFinish(r) \/ DecCommTask(r) \/ PopEmpty(r)
  BY <1>0, <1>2 DEF EndLambda, EndFinish, DecCommTask, PopEmpty
<1>3. CASE publish_local_load_info(r) \/ EndAdvance(r) \/ EndReport(r)
           \/ CheckPending(r) \/ ReadInFlight(r)
  BY <1>0, <1>3 DEF publish_local_load_info, EndAdvance, EndReport,
                    CheckPending, ReadInFlight
<1>4. CASE EndSum(r) \/ cbarrier_inc(r) \/ cbarrier_test(r) \/ Detect(r)
           \/ cbarrier_dec(r)
  BY <1>0, <1>4 DEF EndSum, cbarrier_inc, EndLoop, cbarrier_test, Detect,
                    cbarrier_dec
<1> QED
  BY <1>1, <1>2, <1>3, <1>4 DEF ControlStep

LEMMA StepCases ==
  ASSUME [Next]_vars
  PROVE  \/ \E r \in Rank : \/ ControlStep(r) \/ PopCommTask(r)
                            \/ ExecCommTask(r)
                            \/ \E o \in Rank : ReportTo(r, o)
         \/ Spawn
         \/ \E t \in Task : TaskPush(t) \/ TaskEnd(t) \/ Receive(t)
         \/ UNCHANGED vars
BY DEF Next, CommStep, ControlStep, Worker, Finalized

-----------------------------------------------------------------------------
(* TaskInv and DeqInv.                                                     *)

LEMMA HeadOfDeq ==
  ASSUME TypeOK, DeqInv, NEW r \in Rank, deq[r] # <<>>
  PROVE  /\ Head(deq[r]) \in Task
         /\ st[Head(deq[r])] = "queued" /\ home[Head(deq[r])] = r
<1>1. deq[r] \in Seq(Task)
  BY DEF TypeOK
<1>2. Head(deq[r]) = deq[r][1] /\ 1 \in 1 .. Len(deq[r]) /\ Head(deq[r]) \in Task
  BY <1>1
<1> QED
  BY <1>2 DEF DeqInv

LEMMA TaskStep ==
  ASSUME TypeOK, TaskInv, DeqInv, [Next]_vars
  PROVE  TaskInv'
<1>0. /\ pc \in [Rank -> Pc] /\ cur \in [Rank -> Task \cup {NoTask}]
      /\ st \in [Task -> TaskState] /\ home \in [Task -> Rank]
      /\ dest \in [Task -> Rank] /\ pushing \in [Task -> Task \cup {NoTask}]
      /\ received \in [Rank -> SUBSET Task] /\ NoTask \notin Task
  BY TaskAssumption DEF TypeOK
<1>1. ASSUME NEW r \in Rank, ControlStep(r) PROVE TaskInv'
  <2>1. /\ UNCHANGED <<received, st, home, dest, pushing>>
        /\ \A q \in Rank : pc'[q] = "exec" => pc[q] = "exec" /\ cur'[q] = cur[q]
    BY <1>1, ControlFrame
  <2> QED
    BY <2>1 DEF TaskInv
<1>2. ASSUME NEW r \in Rank, PopCommTask(r) PROVE TaskInv'
  <2> DEFINE t == Head(deq[r])
  <2>1. t \in Task /\ st[t] = "queued" /\ home[t] = r
    BY <1>2, HeadOfDeq DEF PopCommTask
  <2>2. /\ st' = [st EXCEPT ![t] = "exec"] /\ cur' = [cur EXCEPT ![r] = t]
        /\ pc' = [pc EXCEPT ![r] = "exec"]
        /\ UNCHANGED <<received, home, dest, pushing>>
    BY <1>2 DEF PopCommTask, Goto
  <2> HIDE DEF t
  <2> QED
    BY <1>0, <2>1, <2>2 DEF TaskInv
<1>3. ASSUME NEW r \in Rank, ExecCommTask(r) PROVE TaskInv'
  <2>1. /\ st' = [st EXCEPT ![cur[r]] = "net"] /\ cur' = cur
        /\ pc' = [pc EXCEPT ![r] = "dec"] /\ pc[r] = "exec"
        /\ UNCHANGED <<received, home, dest, pushing>>
    BY <1>3 DEF ExecCommTask, Goto
  <2> QED
    BY <1>0, <2>1 DEF TaskInv
<1>4. ASSUME NEW r \in Rank, NEW o \in Rank, ReportTo(r, o) PROVE TaskInv'
  <2>1. \A q \in Rank : received'[q] \subseteq received[q]
    BY <1>0, <1>4 DEF ReportTo
  <2>2. UNCHANGED <<pc, cur, st, home, dest, pushing>>
    BY <1>4 DEF ReportTo, tasks
  <2> QED
    BY <1>0, <2>1, <2>2 DEF TaskInv
<1>5. ASSUME Spawn PROVE TaskInv'
  <2>1. ASSUME NEW u \in Task, NEW s \in {"live", "queued", "counted"},
               NEW h, NEW d, Create(u, s, h, d),
               UNCHANGED <<comm, received, pushing>>
        PROVE  TaskInv'
    BY <1>0, <2>1 DEF Create, TaskInv, comm
  <2>2. ASSUME NEW t \in Task, NEW u \in Task, NEW p \in Rank, TaskComm(t, u, p)
        PROVE  TaskInv'
    <3>1. /\ Create(u, "counted", dest[t], p) /\ UNCHANGED <<comm, received>>
          /\ pushing' = [pushing EXCEPT ![t] = u]
          /\ st[t] = "live" /\ pushing[t] = NoTask
      BY <2>2 DEF TaskComm, Running
    <3> QED
      BY <1>0, <3>1 DEF Create, TaskInv, comm
  <2> QED
    BY <1>5, <2>1, <2>2 DEF Spawn, LambdaAsync, LambdaComm, TaskAsync
<1>6. ASSUME NEW t \in Task, TaskPush(t) PROVE TaskInv'
  <2>1. /\ st' = [st EXCEPT ![pushing[t]] = "queued"] /\ pushing[t] # NoTask
        /\ pushing' = [pushing EXCEPT ![t] = NoTask]
        /\ UNCHANGED <<pc, cur, received, home, dest>>
    BY <1>6 DEF TaskPush, comm
  <2>2. pushing[t] \in Task
    BY <1>0, <2>1
  <2> QED
    BY <1>0, <2>1, <2>2 DEF TaskInv
<1>7. ASSUME NEW t \in Task, TaskEnd(t) PROVE TaskInv'
  <2>1. /\ st' = [st EXCEPT ![t] = "done"] /\ pushing[t] = NoTask
        /\ st[t] = "live"
        /\ UNCHANGED <<pc, cur, received, home, dest, pushing>>
    BY <1>7 DEF TaskEnd, Running, comm
  <2> QED
    BY <1>0, <2>1 DEF TaskInv
<1>8. ASSUME NEW t \in Task, Receive(t) PROVE TaskInv'
  <2>1. PICK s \in {"live", "done"} :
          /\ st' = [st EXCEPT ![t] = s] /\ st[t] = "net"
          /\ received' = [received EXCEPT ![dest[t]] = @ \cup {t}]
          /\ UNCHANGED <<pc, cur, home, dest, pushing>>
    BY <1>8 DEF Receive, ReceiveAsync, ReceiveCopy, comm
  <2> QED
    BY <1>0, <2>1 DEF TaskInv
<1>9. ASSUME UNCHANGED vars PROVE TaskInv'
  BY <1>9 DEF vars, TaskInv
<1> QED
  BY <1>1, <1>2, <1>3, <1>4, <1>5, <1>6, <1>7, <1>8, <1>9, StepCases

LEMMA DeqAppend ==
  ASSUME TypeOK, DeqInv, NEW r \in Rank, NEW u \in Task,
         st[u] # "queued", st'[u] = "queued", home'[u] = r,
         \A t \in Task : t # u => st'[t] = st[t] /\ home'[t] = home[t],
         deq' = [deq EXCEPT ![r] = Append(@, u)]
  PROVE  DeqInv'
<1>0. deq \in [Rank -> Seq(Task)]
  BY DEF TypeOK
<1>1. ASSUME NEW q \in Rank, NEW i \in 1 .. Len(deq[q])
      PROVE  /\ deq[q][i] \in Task /\ deq[q][i] # u
             /\ st'[deq[q][i]] = "queued" /\ home'[deq[q][i]] = q
  BY <1>0 DEF DeqInv
<1>2. /\ Len(deq'[r]) = Len(deq[r]) + 1
      /\ deq'[r][Len(deq[r]) + 1] = u
      /\ \A i \in 1 .. Len(deq[r]) : deq'[r][i] = deq[r][i]
      /\ \A q \in Rank : q # r => deq'[q] = deq[q]
  BY <1>0
<1>3. \A i \in 1 .. Len(deq'[r]) : i \in 1 .. Len(deq[r]) \/ i = Len(deq[r]) + 1
  BY <1>0, <1>2
<1> QED
  BY <1>1, <1>2, <1>3 DEF DeqInv

LEMMA DeqStep ==
  ASSUME TypeOK, TaskInv, DeqInv, [Next]_vars
  PROVE  DeqInv'
<1>0. /\ deq \in [Rank -> Seq(Task)] /\ st \in [Task -> TaskState]
      /\ home \in [Task -> Rank] /\ dest \in [Task -> Rank]
      /\ pushing \in [Task -> Task \cup {NoTask}]
  BY DEF TypeOK
<1>1. ASSUME UNCHANGED deq,
             \A t \in Task : st[t] = "queued" =>
                               st'[t] = "queued" /\ home'[t] = home[t]
      PROVE  DeqInv'
  <2>1. \A r \in Rank : \A i \in 1 .. Len(deq[r]) : deq[r][i] \in Task
    BY <1>0
  <2> QED
    BY <1>1, <2>1 DEF DeqInv
<1>2. ASSUME NEW r \in Rank, ControlStep(r) \/ (\E o \in Rank : ReportTo(r, o))
      PROVE  DeqInv'
  BY <1>1, <1>2, ControlFrame DEF ReportTo, tasks
<1>3. ASSUME NEW r \in Rank, PopCommTask(r) PROVE DeqInv'
  <2> DEFINE t == Head(deq[r])
  <2>1. /\ st' = [st EXCEPT ![t] = "exec"] /\ home' = home
        /\ deq' = [deq EXCEPT ![r] = Tail(@)] /\ deq[r] # <<>>
    BY <1>3 DEF PopCommTask
  <2>2. /\ Len(deq'[r]) = Len(deq[r]) - 1 /\ t = deq[r][1]
        /\ Len(deq[r]) \in Nat \ {0}
        /\ \A i \in 1 .. Len(deq'[r]) : deq'[r][i] = deq[r][i + 1]
        /\ \A q \in Rank : q # r => deq'[q] = deq[q]
    BY <1>0, <2>1
  <2>3. ASSUME NEW q \in Rank, NEW i \in 1 .. Len(deq[q]), q # r \/ i # 1
        PROVE  st'[deq[q][i]] = "queued"
    <3>1. deq[q][i] \in Task /\ home[deq[q][i]] = q /\ st[deq[q][i]] = "queued"
      BY <1>0 DEF DeqInv
    <3>2. t \in Task /\ home[t] = r /\ 1 \in 1 .. Len(deq[r])
      BY <2>1, <2>2, HeadOfDeq
    <3>3. deq[q][i] # t
      BY <2>2, <2>3, <3>1, <3>2 DEF DeqInv
    <3> QED
      BY <2>1, <3>1, <3>3, <1>0
  <2>4. \A i \in 1 .. Len(deq'[r]) : i + 1 \in 1 .. Len(deq[r]) /\ i + 1 # 1
    BY <2>2
  <2> HIDE DEF t
  <2> QED
    BY <2>1, <2>2, <2>3, <2>4 DEF DeqInv
<1>4. ASSUME NEW r \in Rank, ExecCommTask(r) PROVE DeqInv'
  <2>1. st' = [st EXCEPT ![cur[r]] = "net"] /\ st[cur[r]] = "exec"
        /\ UNCHANGED <<deq, home>>
    BY <1>4 DEF ExecCommTask, TaskInv
  <2> QED
    BY <1>0, <1>1, <2>1
<1>5. ASSUME Spawn PROVE DeqInv'
  <2>1. ASSUME NEW u \in Task, NEW s, NEW h, NEW d, Create(u, s, h, d), UNCHANGED deq
        PROVE  DeqInv'
    BY <1>0, <1>1, <2>1 DEF Create
  <2>2. ASSUME NEW r \in Rank, NEW p \in Rank, NEW u \in Task, LambdaComm(r, u, p)
        PROVE  DeqInv'
    <3>1. /\ st[u] # "queued" /\ st'[u] = "queued" /\ home'[u] = r
          /\ \A t \in Task : t # u => st'[t] = st[t] /\ home'[t] = home[t]
          /\ deq' = [deq EXCEPT ![r] = Append(@, u)]
      BY <1>0, <2>2 DEF LambdaComm, Create
    <3> QED
      BY <3>1, DeqAppend
  <2> QED
    BY <1>5, <2>1, <2>2 DEF Spawn, LambdaAsync, TaskAsync, TaskComm
<1>6. ASSUME NEW t \in Task, TaskPush(t) PROVE DeqInv'
  <2>1. pushing[t] \in Task /\ dest[t] \in Rank
    BY <1>0, <1>6 DEF TaskPush
  <2>2. st[pushing[t]] = "counted" /\ home[pushing[t]] = dest[t]
    BY <1>6 DEF TaskPush, TaskInv
  <2>3. /\ st'[pushing[t]] = "queued" /\ home' = home
        /\ \A s \in Task : s # pushing[t] => st'[s] = st[s]
        /\ deq' = [deq EXCEPT ![dest[t]] = Append(@, pushing[t])]
    BY <1>0, <1>6, <2>1 DEF TaskPush
  <2> QED
    BY <2>1, <2>2, <2>3, DeqAppend
<1>7. ASSUME NEW t \in Task, TaskEnd(t) \/ Receive(t) PROVE DeqInv'
  <2>1. /\ UNCHANGED <<deq, home>> /\ st[t] # "queued"
        /\ \A s \in Task : s # t => st'[s] = st[s]
    BY <1>0, <1>7 DEF TaskEnd, Running, Receive, ReceiveAsync, ReceiveCopy
  <2> QED
    BY <1>1, <2>1
<1>8. ASSUME UNCHANGED vars PROVE DeqInv'
  BY <1>1, <1>8 DEF vars
<1> QED
  BY <1>2, <1>3, <1>4, <1>5, <1>6, <1>7, <1>8, StepCases

-----------------------------------------------------------------------------
(* How each step changes the work of a rank, CountedAt, and its operations *)
(* in flight, Flying.                                                      *)

LEMMA ControlWork ==
  ASSUME TypeOK, NEW r \in Rank, ControlStep(r)
  PROVE  \A q \in Rank : CountedAt(q)' = CountedAt(q) /\ Flying(q)' = Flying(q)
BY ControlFrame DEF CountedAt, Flying

LEMMA PopWork ==
  ASSUME TypeOK, TaskInv, DeqInv, NEW r \in Rank, PopCommTask(r)
  PROVE  /\ \A q \in Rank : CountedAt(q)' = CountedAt(q)
         /\ \A q \in Rank : q # r => Flying(q)' = Flying(q)
         /\ Head(deq[r]) \notin Flying(r)
         /\ Flying(r)' = Flying(r) \cup {Head(deq[r])}
<1> DEFINE t == Head(deq[r])
<1>1. t \in Task /\ st[t] = "queued" /\ home[t] = r
  BY HeadOfDeq DEF PopCommTask
<1>2. /\ st' = [st EXCEPT ![t] = "exec"]
      /\ UNCHANGED <<received, home, dest>>
  BY DEF PopCommTask
<1>3. st \in [Task -> TaskState] /\ dest \in [Task -> Rank]
  BY DEF TypeOK
<1> HIDE DEF t
<1>4. \A q \in Rank : CountedAt(q)' = CountedAt(q)
  BY <1>1, <1>2, <1>3 DEF CountedAt
<1>5. t \notin Flying(r)
  BY <1>1, <1>3 DEF Flying, TaskInv
<1>6. \A q \in Rank : q # r => Flying(q)' = Flying(q)
  BY <1>1, <1>2, <1>3 DEF Flying
<1>7. Flying(r)' = Flying(r) \cup {t}
  BY <1>1, <1>2, <1>3 DEF Flying
<1> QED
  BY <1>4, <1>5, <1>6, <1>7 DEF t

LEMMA ExecWork ==
  ASSUME TypeOK, TaskInv, NEW r \in Rank, ExecCommTask(r)
  PROVE  /\ \A q \in Rank : Flying(q)' = Flying(q)
         /\ \A q \in Rank : q # r => CountedAt(q)' = CountedAt(q)
         /\ cur[r] \in CountedAt(r) /\ CountedAt(r)' = CountedAt(r) \ {cur[r]}
<1>1. cur[r] \in Task /\ st[cur[r]] = "exec" /\ home[cur[r]] = r
  BY DEF ExecCommTask, TaskInv
<1>2. /\ st' = [st EXCEPT ![cur[r]] = "net"] /\ UNCHANGED <<received, home, dest>>
  BY DEF ExecCommTask
<1>3. st \in [Task -> TaskState]
  BY DEF TypeOK
<1> QED
  BY <1>1, <1>2, <1>3 DEF CountedAt, Flying

LEMMA CreateWork ==
  ASSUME TypeOK, TaskInv, NEW u \in Task, NEW s, NEW h \in Rank, NEW d \in Rank,
         Create(u, s, h, d), UNCHANGED received,
         \/ s = "live" /\ d = h
         \/ s \in {"queued", "counted"}
  PROVE  /\ \A q \in Rank : Flying(q)' = Flying(q)
         /\ \A q \in Rank : q # h => CountedAt(q)' = CountedAt(q)
         /\ u \notin CountedAt(h) /\ CountedAt(h)' = CountedAt(h) \cup {u}
<1>0. /\ st \in [Task -> TaskState] /\ home \in [Task -> Rank]
      /\ dest \in [Task -> Rank]
  BY DEF TypeOK
<1>1. st[u] = "new" /\ \A q \in Rank : u \notin received[q]
  BY DEF Create, TaskInv
<1>2. /\ st' = [st EXCEPT ![u] = s] /\ home' = [home EXCEPT ![u] = h]
      /\ dest' = [dest EXCEPT ![u] = d]
  BY DEF Create
<1>3. ASSUME NEW q \in Rank PROVE Flying(q)' = Flying(q)
  BY <1>0, <1>1, <1>2 DEF Flying
<1>4. ASSUME NEW q \in Rank, q # h PROVE CountedAt(q)' = CountedAt(q)
  BY <1>0, <1>1, <1>2, <1>4 DEF CountedAt
<1>5. u \notin CountedAt(h) /\ CountedAt(h)' = CountedAt(h) \cup {u}
  BY <1>0, <1>1, <1>2 DEF CountedAt
<1> QED
  BY <1>3, <1>4, <1>5

LEMMA PushWork ==
  ASSUME TypeOK, TaskInv, NEW t \in Task, TaskPush(t)
  PROVE  \A q \in Rank : CountedAt(q)' = CountedAt(q) /\ Flying(q)' = Flying(q)
<1>1. pushing[t] \in Task /\ st[pushing[t]] = "counted"
  BY DEF TaskPush, TaskInv, TypeOK
<1>2. /\ st' = [st EXCEPT ![pushing[t]] = "queued"]
      /\ UNCHANGED <<received, home, dest>>
  BY DEF TaskPush
<1>3. st \in [Task -> TaskState]
  BY DEF TypeOK
<1> QED
  BY <1>1, <1>2, <1>3 DEF CountedAt, Flying

LEMMA EndWork ==
  ASSUME TypeOK, NEW t \in Task, TaskEnd(t)
  PROVE  /\ dest[t] \in Rank
         /\ \A q \in Rank : Flying(q)' = Flying(q)
         /\ \A q \in Rank : q # dest[t] => CountedAt(q)' = CountedAt(q)
         /\ t \in CountedAt(dest[t])
         /\ CountedAt(dest[t])' = CountedAt(dest[t]) \ {t}
<1>1. /\ st' = [st EXCEPT ![t] = "done"] /\ UNCHANGED <<received, home, dest>>
      /\ st[t] = "live"
  BY DEF TaskEnd, Running
<1>2. st \in [Task -> TaskState] /\ dest \in [Task -> Rank]
  BY DEF TypeOK
<1>3. \A q \in Rank : Flying(q)' = Flying(q)
  BY <1>1, <1>2 DEF Flying
<1>4. \A q \in Rank : q # dest[t] => CountedAt(q)' = CountedAt(q)
  BY <1>1, <1>2 DEF CountedAt
<1>5. \A q : CountedAt(q)' = {s \in Task :
                   \/ st'[s] = "live" /\ dest[s] = q
                   \/ st'[s] \in {"counted", "queued", "exec"} /\ home[s] = q}
  BY <1>1 DEF CountedAt
<1>6. t \in CountedAt(dest[t])
      /\ (CountedAt(dest[t]))' = CountedAt(dest[t]) \ {t}
  BY <1>1, <1>2, <1>5 DEF CountedAt
<1> QED
  BY <1>1, <1>2, <1>3, <1>4, <1>6

LEMMA ReceiveWork ==
  ASSUME TypeOK, TaskInv, NEW t \in Task, Receive(t)
  PROVE  /\ dest[t] \in Rank /\ t \in Flying(home[t])
         /\ pc[dest[t]] \in {"advance", "cb_advance"}
         /\ \A q \in Rank : Flying(q)' = Flying(q)
         /\ \A q \in Rank : q # dest[t] => CountedAt(q)' = CountedAt(q)
         /\ ReceiveAsync(t) => /\ t \notin CountedAt(dest[t])
                               /\ CountedAt(dest[t])' = CountedAt(dest[t]) \cup {t}
         /\ ReceiveCopy(t) => CountedAt(dest[t])' = CountedAt(dest[t])
         /\ received' = [received EXCEPT ![dest[t]] = @ \cup {t}]
<1>0. /\ st \in [Task -> TaskState] /\ dest \in [Task -> Rank]
      /\ received \in [Rank -> SUBSET Task]
  BY DEF TypeOK
<1>1. /\ st[t] = "net" /\ UNCHANGED <<home, dest>>
      /\ pc[dest[t]] \in {"advance", "cb_advance"}
      /\ received' = [received EXCEPT ![dest[t]] = @ \cup {t}]
      /\ ReceiveAsync(t) => st' = [st EXCEPT ![t] = "live"]
      /\ ReceiveCopy(t) => st' = [st EXCEPT ![t] = "done"]
      /\ ReceiveAsync(t) \/ ReceiveCopy(t)
  BY DEF Receive, ReceiveAsync, ReceiveCopy
<1>2. /\ st'[t] \in {"live", "done"}
      /\ \A s \in Task : s # t => st'[s] = st[s]
      /\ \A s \in Task : received'[dest[s]] =
                           IF dest[s] = dest[t] THEN received[dest[s]] \cup {t}
                                                ELSE received[dest[s]]
  BY <1>0, <1>1
<1>3. ASSUME NEW q \in Rank PROVE Flying(q)' = Flying(q)
  BY <1>0, <1>1, <1>2 DEF Flying
<1>4. \A q : CountedAt(q)' = {s \in Task :
                   \/ st'[s] = "live" /\ dest[s] = q
                   \/ st'[s] \in {"counted", "queued", "exec"} /\ home[s] = q}
  BY <1>1 DEF CountedAt
<1>5. \A q \in Rank : q # dest[t] => CountedAt(q)' = CountedAt(q)
  BY <1>0, <1>1, <1>2, <1>4 DEF CountedAt
<1>6. ASSUME ReceiveAsync(t)
      PROVE  t \notin CountedAt(dest[t])
             /\ CountedAt(dest[t])' = CountedAt(dest[t]) \cup {t}
  BY <1>0, <1>1, <1>4, <1>6 DEF CountedAt
<1>7. ASSUME ReceiveCopy(t) PROVE CountedAt(dest[t])' = CountedAt(dest[t])
  BY <1>0, <1>1, <1>4, <1>7 DEF CountedAt
<1>8. t \in Flying(home[t])
  BY <1>1 DEF Flying
<1> QED
  BY <1>0, <1>1, <1>3, <1>5, <1>6, <1>7, <1>8

LEMMA ReportWork ==
  ASSUME TypeOK, TaskInv, NEW r \in Rank, NEW o \in Rank, ReportTo(r, o)
  PROVE  /\ \A q \in Rank : CountedAt(q)' = CountedAt(q)
         /\ \A q \in Rank : q # o => Flying(q)' = Flying(q)
         /\ {t \in received[r] : home[t] = o} \subseteq Flying(o)
         /\ Flying(o)' = Flying(o) \ {t \in received[r] : home[t] = o}
<1> DEFINE D == {t \in received[r] : home[t] = o}
<1>0. received \in [Rank -> SUBSET Task] /\ dest \in [Task -> Rank]
  BY DEF TypeOK
<1>1. /\ received' = [received EXCEPT ![r] = @ \ D] /\ UNCHANGED <<st, home, dest>>
  BY DEF ReportTo, tasks
<1>2. \A t \in D : t \in Task /\ dest[t] = r /\ st[t] \in {"live", "done"}
                   /\ home[t] = o /\ t \in received[dest[t]]
  BY <1>0 DEF TaskInv
<1>3. \A q \in Rank : CountedAt(q)' = CountedAt(q)
  BY <1>1 DEF CountedAt
<1>4. \A t \in Task : t \in received'[dest[t]] <=> t \in received[dest[t]] /\ t \notin D
  BY <1>0, <1>1, <1>2
<1>5. D \subseteq Flying(o)
  BY <1>2 DEF Flying
<1>6. \A q : Flying(q)' = {t \in Task : /\ home[t] = q
                                        /\ \/ st[t] \in {"exec", "net"}
                                           \/ t \in received'[dest[t]]}
  BY <1>1 DEF Flying
<1> HIDE DEF D
<1>7. \A q \in Rank : q # o => Flying(q)' = Flying(q)
  BY <1>2, <1>4, <1>6 DEF Flying
<1>8. Flying(o)' = Flying(o) \ D
  BY <1>2, <1>4, <1>6 DEF Flying
<1> QED
  BY <1>3, <1>5, <1>7, <1>8 DEF D

-----------------------------------------------------------------------------
(* The two counters are exact.                                             *)

LEMMA InFlightStep ==
  ASSUME TypeOK, TaskInv, DeqInv, InFlightExact, [Next]_vars
  PROVE  InFlightExact'
<1>0. asyncsInFlight \in [Rank -> Nat]
  BY DEF TypeOK
<1>1. ASSUME UNCHANGED asyncsInFlight, \A q \in Rank : Flying(q)' = Flying(q)
      PROVE  InFlightExact'
  BY <1>1 DEF InFlightExact
<1>2. ASSUME NEW r \in Rank, ControlStep(r) PROVE InFlightExact'
  BY <1>1, <1>2, ControlFrame, ControlWork
<1>3. ASSUME NEW r \in Rank, PopCommTask(r) PROVE InFlightExact'
  <2>1. asyncsInFlight' = [asyncsInFlight EXCEPT ![r] = @ + 1]
    BY <1>3 DEF PopCommTask
  <2>2. Cardinality(Flying(r)') = Cardinality(Flying(r)) + 1
    BY <1>3, PopWork, SubsetsOfTask, TasksFinite, CardAdd
  <2> QED
    BY <1>0, <1>3, <2>1, <2>2, PopWork DEF InFlightExact
<1>4. ASSUME NEW r \in Rank, ExecCommTask(r) PROVE InFlightExact'
  BY <1>1, <1>4, ExecWork DEF ExecCommTask
<1>5. ASSUME NEW r \in Rank, NEW o \in Rank, ReportTo(r, o) PROVE InFlightExact'
  <2> DEFINE D == {t \in received[r] : home[t] = o}
  <2>1. asyncsInFlight' = [asyncsInFlight EXCEPT ![o] = @ - Cardinality(D)]
    BY <1>5 DEF ReportTo
  <2>2. D \subseteq Flying(o) /\ Flying(o)' = Flying(o) \ D
    BY <1>5, ReportWork
  <2> HIDE DEF D
  <2>3. IsFiniteSet(Flying(o))
    BY SubsetsOfTask, TasksFinite
  <2>4. Cardinality(Flying(o)') = Cardinality(Flying(o)) - Cardinality(D)
    BY <2>2, <2>3, CardMinus
  <2> QED
    BY <1>0, <1>5, <2>1, <2>4, ReportWork DEF InFlightExact
<1>6. ASSUME Spawn PROVE InFlightExact'
  <2>0. dest \in [Task -> Rank]
    BY DEF TypeOK
  <2>1. ASSUME NEW u \in Task, NEW s, NEW h \in Rank, NEW d \in Rank,
               Create(u, s, h, d), UNCHANGED <<received, asyncsInFlight>>,
               (s = "live" /\ d = h) \/ s \in {"queued", "counted"}
        PROVE  InFlightExact'
    BY <1>1, <2>1, CreateWork
  <2> QED
    BY <1>6, <2>0, <2>1 DEF Spawn, LambdaAsync, LambdaComm, TaskAsync, TaskComm
<1>7. ASSUME NEW t \in Task, TaskPush(t) \/ TaskEnd(t) \/ Receive(t)
      PROVE  InFlightExact'
  BY <1>1, <1>7, PushWork, EndWork, ReceiveWork
     DEF TaskPush, TaskEnd, Receive, ReceiveAsync, ReceiveCopy
<1>8. ASSUME UNCHANGED vars PROVE InFlightExact'
  BY <1>8 DEF vars, InFlightExact, Flying
<1> QED
  BY <1>2, <1>3, <1>4, <1>5, <1>6, <1>7, <1>8, StepCases

LEMMA FinishCounterStep ==
  ASSUME TypeOK, TaskInv, DeqInv, FinishCounterExact, [Next]_vars,
         \A r \in Rank : pc[r] = "wait1" => CountedAt(r) = {}
  PROVE  FinishCounterExact'
<1>0. /\ finishCounter \in [Rank -> Int] /\ pc \in [Rank -> Pc]
      /\ dest \in [Task -> Rank]
  BY DEF TypeOK
<1>1. \A r \in Rank : /\ IsFiniteSet(CountedAt(r))
                      /\ Cardinality(CountedAt(r)) \in Nat
                      /\ finishCounter[r] = Cardinality(CountedAt(r)) + Extra(r)
                      /\ Extra(r) \in Int
  BY SubsetsOfTask, TasksFinite DEF FinishCounterExact, Extra
<1>2. ASSUME \A r \in Rank :
               finishCounter'[r] = Cardinality(CountedAt(r)') + Extra(r)'
      PROVE  FinishCounterExact'
  BY <1>2 DEF FinishCounterExact
<1>3. ASSUME NEW r \in Rank, ControlStep(r) PROVE FinishCounterExact'
  <2>1. \A q \in Rank : /\ CountedAt(q)' = CountedAt(q)
                        /\ q # r => /\ finishCounter'[q] = finishCounter[q]
                                    /\ Extra(q)' = Extra(q)
    BY <1>3, ControlFrame, ControlWork DEF Extra, InDetection
  <2>2. finishCounter'[r] - finishCounter[r] = Extra(r)' - Extra(r)
    <3> USE DEF Goto, Count, Extra, InDetection, StartPc, LoopPc, BarPc, TermPc
    <3>1. CASE BarrierStart(r)
      <4>1. CountedAt(r) = {} /\ pc[r] = "wait1"
        BY <3>1 DEF BarrierStart
      <4>2. finishCounter[r] = 0
        BY <1>1, <4>1, FS_EmptySet
      <4> QED
        BY <1>0, <3>1, <4>2 DEF BarrierStart
    <3>2. CASE cb_init(r) \/ BarrierNotify(r) \/ BarrierLoop(r)
      BY <1>0, <3>2 DEF cb_init, BarrierNotify, BarrierLoop
    <3>3. CASE EndLambda(r) \/ EndFinish(r) \/ DecCommTask(r)
      BY <1>0, <3>3 DEF EndLambda, EndFinish, DecCommTask
    <3>4. CASE PopEmpty(r) \/ publish_local_load_info(r) \/ EndAdvance(r)
               \/ EndReport(r) \/ CheckPending(r)
      BY <1>0, <3>4 DEF PopEmpty, publish_local_load_info, EndAdvance,
                        EndReport, CheckPending
    <3>5. CASE ReadInFlight(r) \/ EndSum(r) \/ cbarrier_inc(r)
      BY <1>0, <3>5 DEF ReadInFlight, EndSum, cbarrier_inc, EndLoop
    <3>6. CASE cbarrier_test(r) \/ Detect(r) \/ cbarrier_dec(r)
      BY <1>0, <3>6 DEF cbarrier_test, Detect, cbarrier_dec
    <3> QED
      BY <1>3, <3>1, <3>2, <3>3, <3>4, <3>5, <3>6 DEF ControlStep
  <2>3. finishCounter'[r] \in Int /\ Extra(r)' \in Int
    <3>1. finishCounter' \in [Rank -> Int]
      BY <1>0, <1>3, CountType, ControlFrame DEF ControlStep, cb_init, BarrierNotify, BarrierStart,
         BarrierLoop, EndLambda, EndFinish, DecCommTask, PopEmpty,
         publish_local_load_info, EndAdvance, EndReport, CheckPending,
         ReadInFlight, EndSum, cbarrier_inc, cbarrier_test, Detect, cbarrier_dec
    <3> QED
      BY <3>1 DEF Extra
  <2> QED
    BY <1>1, <1>2, <2>1, <2>2, <2>3
<1>4. ASSUME NEW r \in Rank, PopCommTask(r) PROVE FinishCounterExact'
  <2>1. \A q \in Rank : Extra(q)' = Extra(q)
    BY <1>0, <1>4 DEF PopCommTask, Goto, Extra, InDetection, LoopPc, StartPc,
                      BarPc, TermPc
  <2> QED
    BY <1>1, <1>2, <1>4, <2>1, PopWork DEF PopCommTask
<1>5. ASSUME NEW r \in Rank, ExecCommTask(r) PROVE FinishCounterExact'
  <2>1. /\ Extra(r)' = Extra(r) + 1
        /\ \A q \in Rank : q # r => Extra(q)' = Extra(q)
    BY <1>0, <1>5 DEF ExecCommTask, Goto, Extra, InDetection, LoopPc, StartPc,
                      BarPc, TermPc
  <2>2. Cardinality(CountedAt(r)') = Cardinality(CountedAt(r)) - 1
    BY <1>1, <1>5, ExecWork, CardRemove
  <2>3. UNCHANGED finishCounter
    BY <1>5 DEF ExecCommTask
  <2>4. finishCounter'[r] = Cardinality(CountedAt(r)') + Extra(r)'
    BY <1>1, <2>1, <2>2, <2>3
  <2>5. \A q \in Rank : q # r =>
           finishCounter'[q] = Cardinality(CountedAt(q)') + Extra(q)'
    BY <1>1, <1>5, <2>1, <2>3, ExecWork
  <2> QED
    BY <1>2, <2>4, <2>5
\* The other steps leave pc alone.
<1>6. ASSUME NEW h \in Rank, NEW k \in Int, UNCHANGED pc, Count(h, k),
             Cardinality(CountedAt(h)') = Cardinality(CountedAt(h)) + k,
             \A q \in Rank : q # h => CountedAt(q)' = CountedAt(q)
      PROVE  FinishCounterExact'
  <2>1. \A q \in Rank : Extra(q)' = Extra(q)
    BY <1>6 DEF Extra, InDetection
  <2>2. \A q \in Rank : finishCounter'[q] = IF q = h THEN finishCounter[q] + k
                                                     ELSE finishCounter[q]
    BY <1>0, <1>6 DEF Count
  <2> QED
    BY <1>1, <1>2, <1>6, <2>1, <2>2
<1>7. ASSUME UNCHANGED <<pc, finishCounter>>,
             \A q \in Rank : CountedAt(q)' = CountedAt(q)
      PROVE  FinishCounterExact'
  BY <1>7 DEF FinishCounterExact, Extra, InDetection
<1>8. ASSUME NEW r \in Rank, NEW o \in Rank, ReportTo(r, o)
      PROVE  FinishCounterExact'
  BY <1>7, <1>8, ReportWork DEF ReportTo
<1>9. ASSUME Spawn PROVE FinishCounterExact'
  <2>1. ASSUME NEW u \in Task, NEW s, NEW h \in Rank, NEW d \in Rank,
               Create(u, s, h, d), UNCHANGED <<pc, received>>, Count(h, 1),
               (s = "live" /\ d = h) \/ s \in {"queued", "counted"}
        PROVE  FinishCounterExact'
    <3>1. Cardinality(CountedAt(h)') = Cardinality(CountedAt(h)) + 1
      BY <1>1, <2>1, CreateWork, CardAdd
    <3>2. \A q \in Rank : q # h => CountedAt(q)' = CountedAt(q)
      BY <2>1, CreateWork
    <3>3. UNCHANGED pc /\ Count(h, 1) /\ 1 \in Int
      BY <2>1
    <3> QED
      BY <1>6, <3>1, <3>2, <3>3
  <2> QED
    BY <1>0, <1>9, <2>1
       DEF Spawn, LambdaAsync, LambdaComm, TaskAsync, TaskComm, comm
<1>10. ASSUME NEW t \in Task, TaskPush(t) PROVE FinishCounterExact'
  BY <1>7, <1>10, PushWork DEF TaskPush, comm
<1>11. ASSUME NEW t \in Task, TaskEnd(t) PROVE FinishCounterExact'
  <2>1. Cardinality(CountedAt(dest[t])') = Cardinality(CountedAt(dest[t])) - 1
    BY <1>1, <1>11, EndWork, CardRemove
  <2>2. /\ UNCHANGED pc /\ dest[t] \in Rank
        /\ finishCounter' = [finishCounter EXCEPT ![dest[t]] = @ - 1]
    BY <1>0, <1>11 DEF TaskEnd, Count, comm
  <2>3. \A q \in Rank : Extra(q)' = Extra(q)
    BY <2>2 DEF Extra, InDetection
  <2>4. finishCounter'[dest[t]] = Cardinality(CountedAt(dest[t])') + Extra(dest[t])'
    <3>1. (Extra(dest[t]))' = Extra(dest[t])
      BY <1>11, <2>2 DEF Extra, InDetection, TaskEnd
    <3> QED
      BY <1>0, <1>1, <2>1, <2>2, <3>1
  <2>5. \A q \in Rank : q # dest[t] =>
           finishCounter'[q] = Cardinality(CountedAt(q)') + Extra(q)'
    BY <1>0, <1>1, <1>11, <2>2, <2>3, EndWork
  <2>6. dest' = dest
    BY <1>11 DEF TaskEnd
  <2> QED
    BY <1>2, <2>4, <2>5, <2>6
<1>12. ASSUME NEW t \in Task, Receive(t) PROVE FinishCounterExact'
  <2>1. CASE ReceiveAsync(t)
    <3>1. Cardinality(CountedAt(dest[t])') = Cardinality(CountedAt(dest[t])) + 1
      BY <1>1, <1>12, <2>1, ReceiveWork, CardAdd
    <3> QED
      BY <1>6, <1>12, <2>1, <3>1, ReceiveWork DEF ReceiveAsync, comm
  <2>2. CASE ReceiveCopy(t)
    BY <1>7, <1>12, <2>2, ReceiveWork DEF ReceiveCopy, comm
  <2> QED
    BY <1>12, <2>1, <2>2 DEF Receive
<1>13. ASSUME UNCHANGED vars PROVE FinishCounterExact'
  BY <1>7, <1>13 DEF vars, CountedAt
<1> QED
  BY <1>3, <1>4, <1>5, <1>8, <1>9, <1>10, <1>11, <1>12, <1>13, StepCases

-----------------------------------------------------------------------------
(* PhaseInv: how far apart two ranks can be.                               *)

\* Where a step of ControlStep takes the communication worker.
SameRound(r) == round'[r] = round[r]
Move(r) ==
  \/ SameRound(r) /\ pc[r] = "cb_init" /\ pc'[r] = "notify1" /\ cb_init(r)
  \/ /\ SameRound(r) /\ BarrierNotify(r)
     /\ \/ pc[r] = "notify1" /\ pc'[r] = "wait1"
        \/ pc[r] = "notify2" /\ pc'[r] = "wait2"
        \/ pc[r] = "notify3" /\ pc'[r] = "wait3"
  \/ /\ SameRound(r) /\ AllArrived(r)
     /\ \/ pc[r] = "wait1" /\ pc'[r] = "lambda"
        \/ pc[r] = "wait2" /\ pc'[r] = "pop"
        \/ pc[r] = "wait3" /\ pc'[r] = "end"
  \/ SameRound(r) /\ pc[r] = "lambda" /\ pc'[r] = "notify2"
  \/ /\ round'[r] = round[r] + 1 /\ pc[r] = "end"
     /\ \/ round[r] + 1 = MaxFinish /\ pc'[r] = "finalized"
        \/ round[r] + 1 # MaxFinish /\ pc'[r] = "cb_init"
  \/ SameRound(r) /\ pc[r] \in LoopPc /\ pc'[r] \in LoopPc
  \/ SameRound(r) /\ pc[r] \in BarPc /\ pc'[r] \in BarPc
  \/ SameRound(r) /\ N = 1 /\ EndSum(r) /\ pc[r] = "sum" /\ pc'[r] = "notify3"
  \/ SameRound(r) /\ N > 1 /\ cbarrier_inc(r) /\ pc[r] = "sum" /\ pc'[r] = "inc_test"
  \/ SameRound(r) /\ cb_count = N /\ pc[r] \in BarPc /\ pc'[r] = "notify3"
  \/ SameRound(r) /\ cbarrier_dec(r) /\ pc[r] = "cb_dec" /\ pc'[r] = "pop"

LEMMA ControlMove ==
  ASSUME TypeOK, NEW r \in Rank, ControlStep(r)
  PROVE  /\ Move(r)
         /\ cb_count' = cb_count \/ cb_init(r) \/ cbarrier_inc(r) \/ cbarrier_dec(r)
<1>0. pc \in [Rank -> Pc] /\ round \in [Rank -> 0 .. MaxFinish]
  BY DEF TypeOK
<1> USE DEF Goto, Move, SameRound
<1>1. CASE cb_init(r) \/ EndLambda(r)
  BY <1>0, <1>1 DEF cb_init, EndLambda
<1>2. CASE BarrierNotify(r)
  BY <1>0, <1>2 DEF BarrierNotify
<1>3. CASE BarrierStart(r) \/ BarrierLoop(r)
  BY <1>0, <1>3 DEF BarrierStart, BarrierLoop
<1>4. CASE EndFinish(r)
  BY <1>0, <1>4 DEF EndFinish
<1>5. CASE DecCommTask(r) \/ PopEmpty(r) \/ publish_local_load_info(r)
           \/ EndReport(r) \/ CheckPending(r) \/ ReadInFlight(r)
  <2>1. SameRound(r) /\ pc[r] \in LoopPc /\ pc'[r] \in LoopPc /\ cb_count' = cb_count
    BY <1>0, <1>5 DEF DecCommTask, PopEmpty, publish_local_load_info, EndReport,
                      CheckPending, ReadInFlight, LoopPc
  <2> QED
    BY <2>1
<1>6. CASE EndAdvance(r) \/ Detect(r)
  <2>1. SameRound(r) /\ cb_count' = cb_count
        /\ \/ pc[r] \in LoopPc /\ pc'[r] \in LoopPc
           \/ pc[r] \in BarPc /\ pc'[r] \in BarPc
    BY <1>0, <1>6 DEF EndAdvance, Detect, LoopPc, BarPc
  <2> QED
    BY <2>1
<1>7. CASE EndSum(r)
  <2>1. SameRound(r) /\ cb_count' = cb_count /\ pc[r] = "sum"
        /\ (pc'[r] = "pop" \/ (N = 1 /\ pc'[r] = "notify3"))
    BY <1>0, <1>7 DEF EndSum, EndLoop
  <2> QED
    BY <1>7, <2>1 DEF LoopPc
<1>8. CASE cbarrier_inc(r)
  BY <1>0, <1>8 DEF cbarrier_inc, EndLoop
<1>9. CASE cbarrier_test(r)
  <2>1. SameRound(r) /\ cb_count' = cb_count /\ pc[r] \in BarPc
        /\ (pc'[r] = "detect" \/ (cb_count = N /\ pc'[r] = "notify3"))
    BY <1>0, <1>9 DEF cbarrier_test, BarPc
  <2> QED
    BY <2>1 DEF BarPc
<1>10. CASE cbarrier_dec(r)
  <2>1. SameRound(r) /\ pc[r] = "cb_dec" /\ pc'[r] \in {"pop", "cb_advance"}
    BY <1>0, <1>10 DEF cbarrier_dec
  <2> QED
    BY <1>10, <2>1 DEF BarPc
<1> QED
  BY <1>1, <1>2, <1>3, <1>4, <1>5, <1>6, <1>7, <1>8, <1>9, <1>10 DEF ControlStep

LEMMA ArrivedStep ==
  ASSUME TypeOK, NEW r \in Rank, ControlStep(r)
  PROVE  /\ Arrived(r)' = Arrived(r) + (IF BarrierNotify(r) THEN 1 ELSE 0)
         /\ pc'[r] \in WaitPc => BarrierNotify(r)
         /\ pc[r] \in WaitPc => AllArrived(r)
         /\ pc'[r] # "finalized" =>
              \/ round'[r] = round[r] /\ pc[r] # "finalized"
              \/ round'[r] = round[r] + 1 /\ round[r] + 1 # MaxFinish
         /\ pc'[r] \in BarPc => pc[r] \in BarPc \/ N > 1
<1>0. round[r] \in Int
  BY MaxFinishAssumption DEF TypeOK
<1>1. BarrierNotify(r) => pc[r] \in {"notify1", "notify2", "notify3"}
  BY DEF BarrierNotify
<1>2. Move(r)
  BY ControlMove
<1>3. /\ pc'[r] \in WaitPc => BarrierNotify(r)
      /\ pc[r] \in WaitPc => AllArrived(r)
      /\ pc'[r] \in BarPc => pc[r] \in BarPc \/ N > 1
  BY <1>2 DEF Move, WaitPc, LoopPc, BarPc
<1>4. pc'[r] # "finalized" =>
              \/ round'[r] = round[r] /\ pc[r] # "finalized"
              \/ round'[r] = round[r] + 1 /\ round[r] + 1 # MaxFinish
  BY <1>2 DEF Move, SameRound, LoopPc, BarPc
<1>5. ASSUME BarrierNotify(r) PROVE Arrived(r)' = Arrived(r) + 1
  <2>1. /\ pc \in [Rank -> Pc] /\ round' = round
        /\ \/ pc[r] = "notify1" /\ pc' = [pc EXCEPT ![r] = "wait1"]
           \/ pc[r] = "notify2" /\ pc' = [pc EXCEPT ![r] = "wait2"]
           \/ pc[r] = "notify3" /\ pc' = [pc EXCEPT ![r] = "wait3"]
    BY <1>5 DEF BarrierNotify, Goto, TypeOK
  <2>2. round'[r] = round[r] /\ Offset(pc'[r]) = Offset(pc[r]) + 1
    BY <2>1 DEF Offset
  <2>3. Offset(pc[r]) \in Int
    BY DEF Offset
  <2> QED
    BY <1>0, <2>2, <2>3 DEF Arrived
<1>6. ASSUME ~BarrierNotify(r) PROVE Arrived(r)' = Arrived(r)
  <2>1. CASE pc[r] = "end"
    <3>1. round'[r] = round[r] + 1 /\ pc'[r] \in {"cb_init", "finalized"}
      BY <1>2, <1>6, <2>1 DEF Move, LoopPc, BarPc
    <3> QED
      BY <1>0, <2>1, <3>1 DEF Arrived, Offset
  <2>2. CASE pc[r] # "end"
    <3>1. round'[r] = round[r]
      BY <1>2, <2>2 DEF Move, SameRound
    <3>2. Offset(pc'[r]) = Offset(pc[r])
      <4>1. pc[r] \in LoopPc \cup BarPc => Offset(pc[r]) = 2
        BY DEF Offset, LoopPc, BarPc
      <4>2. pc'[r] \in LoopPc \cup BarPc => Offset(pc'[r]) = 2
        BY DEF Offset, LoopPc, BarPc
      <4>3. \/ pc[r] = "cb_init" /\ pc'[r] = "notify1"
            \/ pc[r] = "wait1" /\ pc'[r] = "lambda"
            \/ pc[r] = "wait2" /\ pc'[r] = "pop"
            \/ pc[r] = "wait3" /\ pc'[r] = "end"
            \/ pc[r] = "lambda" /\ pc'[r] = "notify2"
            \/ /\ pc[r] \in LoopPc \cup BarPc
               /\ pc'[r] \in LoopPc \cup BarPc \cup {"notify3"}
        BY <1>2, <1>6, <2>2 DEF Move, LoopPc, BarPc
      <4> QED
        BY <4>1, <4>2, <4>3 DEF Offset
    <3> QED
      BY <3>1, <3>2 DEF Arrived
  <2> QED
    BY <2>1, <2>2
<1>7. Arrived(r) \in Int
  BY <1>0 DEF Arrived, Offset
<1>8. Arrived(r)' = Arrived(r) + (IF BarrierNotify(r) THEN 1 ELSE 0)
  <2>1. CASE BarrierNotify(r)
    BY <1>5, <2>1
  <2>2. CASE ~BarrierNotify(r)
    BY <1>6, <1>7, <2>2
  <2> QED
    BY <2>1, <2>2
<1> QED
  BY <1>3, <1>4, <1>8

\* What every other step does to the control of a communication worker.
Stays(q) == pc'[q] = pc[q] \/ (pc[q] \in {"pop", "exec"} /\ pc'[q] \in {"exec", "dec"})

LEMMA OthersPc ==
  ASSUME TypeOK, [Next]_vars
  PROVE  \/ \E r \in Rank : ControlStep(r)
         \/ UNCHANGED <<round, sum, cb_count>> /\ \A q \in Rank : Stays(q)
<1>0. pc \in [Rank -> Pc]
  BY DEF TypeOK
<1>1. ASSUME NEW r \in Rank, PopCommTask(r) \/ ExecCommTask(r)
      PROVE  UNCHANGED <<round, sum, cb_count>> /\ \A q \in Rank : Stays(q)
  BY <1>0, <1>1 DEF PopCommTask, ExecCommTask, Goto, LoopPc, Stays
<1>2. ASSUME NEW r \in Rank, NEW o \in Rank, ReportTo(r, o)
      PROVE  UNCHANGED <<pc, round, sum, cb_count>>
  BY <1>2 DEF ReportTo
<1>3. ASSUME Spawn PROVE UNCHANGED <<pc, round, sum, cb_count>>
  BY <1>3 DEF Spawn, LambdaAsync, LambdaComm, TaskAsync, TaskComm, comm
<1>4. ASSUME NEW t \in Task, TaskPush(t) \/ TaskEnd(t) \/ Receive(t)
      PROVE  UNCHANGED <<pc, round, sum, cb_count>>
  BY <1>4 DEF TaskPush, TaskEnd, Receive, ReceiveAsync, ReceiveCopy, comm
<1>5. ASSUME UNCHANGED vars PROVE UNCHANGED <<pc, round, sum, cb_count>>
  BY <1>5 DEF vars
<1>6. ASSUME UNCHANGED pc PROVE \A q \in Rank : Stays(q)
  BY <1>6 DEF Stays
<1> QED
  BY <1>1, <1>2, <1>3, <1>4, <1>5, <1>6, StepCases

LEMMA PhaseStep ==
  ASSUME TypeOK, PhaseInv, [Next]_vars, TypeOK'
  PROVE  PhaseInv'
<1>0. \A r \in Rank : round[r] \in 0 .. MaxFinish /\ Arrived(r) \in Int
  <2> SUFFICES ASSUME NEW r \in Rank
               PROVE  round[r] \in 0 .. MaxFinish /\ Arrived(r) \in Int
    OBVIOUS
  <2>1. round[r] \in 0 .. MaxFinish
    BY DEF TypeOK
  <2>2. Offset(pc[r]) \in Int
    BY DEF Offset
  <2> QED
    BY <2>1, <2>2, MaxFinishAssumption DEF Arrived
<1>1. ASSUME NEW x \in Rank, ControlStep(x) PROVE PhaseInv'
  <2>1. \A q \in Rank : q # x => /\ pc'[q] = pc[q] /\ round'[q] = round[q]
                                /\ Arrived(q)' = Arrived(q)
    BY <1>1, ControlFrame DEF Arrived
  <2>2. Arrived(x)' = Arrived(x) + (IF BarrierNotify(x) THEN 1 ELSE 0)
    BY <1>1, ArrivedStep
  <2>3. ASSUME NEW r \in Rank, NEW q \in Rank
        PROVE  Arrived(q)' >= Arrived(r)' - (IF pc'[r] \in WaitPc THEN 1 ELSE 0)
    <3>1. Arrived(q) >= Arrived(r) - (IF pc[r] \in WaitPc THEN 1 ELSE 0)
          /\ Arrived(q)' >= Arrived(q)
      BY <1>0, <2>1, <2>2 DEF PhaseInv
    <3>2. CASE r # x
      BY <1>0, <2>1, <2>2, <3>1, <3>2
    <3>3. CASE r = x /\ BarrierNotify(x)
      <4>1. pc[x] \notin WaitPc /\ pc'[x] \in WaitPc
        <5>1. pc \in [Rank -> Pc]
          BY DEF TypeOK
        <5> QED
          BY <3>3, <5>1 DEF BarrierNotify, Goto, WaitPc
      <4> QED
        BY <1>0, <2>1, <2>2, <3>1, <3>3, <4>1
    <3>4. CASE r = x /\ ~BarrierNotify(x)
      <4>1. pc'[x] \notin WaitPc /\ (pc[x] \in WaitPc => AllArrived(x))
        BY <1>1, <3>4, ArrivedStep
      <4>2. Arrived(q) >= Arrived(x)
        BY <1>0, <3>1, <3>4, <4>1 DEF AllArrived
      <4> QED
        BY <1>0, <2>1, <2>2, <3>1, <3>4, <4>1, <4>2
    <3> QED
      BY <3>2, <3>3, <3>4
  <2>4. ASSUME NEW r \in Rank, pc'[r] # "finalized" PROVE round'[r] < MaxFinish
    <3>1. CASE r # x
      BY <2>1, <2>4, <3>1 DEF PhaseInv
    <3>2. CASE r = x
      <4>1. round'[x] \in 0 .. MaxFinish
        BY DEF TypeOK
      <4>2. \/ round'[x] = round[x] /\ pc[x] # "finalized"
            \/ round'[x] = round[x] + 1 /\ round[x] + 1 # MaxFinish
        BY <1>1, <2>4, <3>2, ArrivedStep
      <4> QED
        BY <1>0, <3>2, <4>1, <4>2, MaxFinishAssumption DEF PhaseInv
    <3> QED
      BY <3>1, <3>2
  <2>5. ASSUME NEW r \in Rank, pc'[r] \in BarPc PROVE N > 1
    BY <1>1, <2>1, <2>5, ArrivedStep DEF PhaseInv
  <2> QED
    BY <2>3, <2>4, <2>5 DEF PhaseInv
<1>2. ASSUME UNCHANGED round, \A q \in Rank : Stays(q) PROVE PhaseInv'
  <2>1. ASSUME NEW q \in Rank
        PROVE  /\ Arrived(q)' = Arrived(q)
               /\ pc'[q] \in WaitPc <=> pc[q] \in WaitPc
               /\ pc'[q] = "finalized" <=> pc[q] = "finalized"
               /\ pc'[q] \in BarPc <=> pc[q] \in BarPc
    BY <1>2 DEF Stays, Arrived, Offset, LoopPc, WaitPc, BarPc
  <2> QED
    BY <1>2, <2>1 DEF PhaseInv
<1> QED
  BY <1>1, <1>2, OthersPc

\* Where the others can be, by where one rank is.
LEMMA PhaseFacts ==
  ASSUME TypeOK, PhaseInv, NEW r \in Rank, NEW q \in Rank
  PROVE  /\ pc[r] \in LoopPc \cup BarPc \cup {"notify3"} =>
              /\ pc[q] \in LoopPc \cup BarPc \cup {"wait2", "notify3", "wait3"}
              /\ round[q] = round[r]
         /\ pc[r] \in {"lambda", "notify2"} =>
              /\ pc[q] \in {"wait1", "lambda", "notify2", "wait2"}
              /\ round[q] = round[r]
         /\ pc[r] = "wait2" =>
              pc[q] \notin {"cb_init", "notify1", "end", "finalized"}
<1>1. /\ pc[r] \in Pc /\ pc[q] \in Pc /\ round[r] \in Int /\ round[q] \in Int
  BY MaxFinishAssumption DEF TypeOK
<1>2. /\ Arrived(q) >= Arrived(r) - (IF pc[r] \in WaitPc THEN 1 ELSE 0)
      /\ Arrived(r) >= Arrived(q) - (IF pc[q] \in WaitPc THEN 1 ELSE 0)
  BY DEF PhaseInv
<1> USE DEF Arrived, Offset, WaitPc, Pc, PrePc, LambdaPc, StartPc, LoopPc, BarPc,
            TermPc
<1>3. ASSUME pc[r] \in LoopPc \cup BarPc \cup {"notify3"}
      PROVE  /\ pc[q] \in LoopPc \cup BarPc \cup {"wait2", "notify3", "wait3"}
             /\ round[q] = round[r]
  BY <1>1, <1>2, <1>3
<1>4. ASSUME pc[r] \in {"lambda", "notify2"}
      PROVE  /\ pc[q] \in {"wait1", "lambda", "notify2", "wait2"}
             /\ round[q] = round[r]
  BY <1>1, <1>2, <1>4
<1>5. ASSUME pc[r] = "wait2"
      PROVE  pc[q] \notin {"cb_init", "notify1", "end", "finalized"}
  BY <1>1, <1>2, <1>5
<1> QED
  BY <1>3, <1>4, <1>5

-----------------------------------------------------------------------------
(* BarrierCount and ResetInv: cb_count is the number of ranks inside.      *)

LEMMA CountStep ==
  ASSUME TypeOK, PhaseInv, BarrierCount, ResetInv, [Next]_vars, TypeOK', PhaseInv'
  PROVE  BarrierCount' /\ ResetInv'
<1>0. InBarrier' = {q \in Rank : pc'[q] \in BarPc \cup TermPc}
  BY DEF InBarrier
<1>1. \A r, q \in Rank : pc[r] \in ScopePc =>
         pc[q] \notin {"cb_init", "end"}
  BY PhaseFacts DEF ScopePc, LambdaPc, StartPc, LoopPc, BarPc
<1>2. ASSUME UNCHANGED cb_count,
             \A q \in Rank : /\ pc'[q] \in ScopePc => pc[q] \in ScopePc
                             /\ pc'[q] \in BarPc \cup TermPc
                                  <=> pc[q] \in BarPc \cup TermPc
      PROVE  BarrierCount'
  <2>1. InBarrier' = InBarrier
    BY <1>0, <1>2 DEF InBarrier
  <2> QED
    BY <1>2, <2>1 DEF BarrierCount
<1>3. ASSUME UNCHANGED cb_count,
             \A q \in Rank : /\ pc[q] \in ScopePc => pc'[q] \in ScopePc
                             /\ pc'[q] \in {"notify1", "wait1"}
                                  => pc[q] \in {"notify1", "wait1"}
      PROVE  ResetInv'
  BY <1>3 DEF ResetInv
<1>4. ASSUME NEW x \in Rank, ControlStep(x) PROVE BarrierCount' /\ ResetInv'
  <2>0. /\ \A q \in Rank : q # x => pc'[q] = pc[q]
        /\ pc \in [Rank -> Pc]
    BY <1>4, ControlFrame DEF TypeOK
  <2>1. CASE cb_init(x)
    <3>1. pc[x] = "cb_init" /\ pc'[x] = "notify1" /\ cb_count' = 0
      BY <2>0, <2>1 DEF cb_init, Goto
    <3>2. \A q \in Rank : pc'[q] \notin ScopePc
      <4>1. pc'[x] \notin ScopePc
        BY <3>1 DEF ScopePc, LambdaPc, StartPc, LoopPc, BarPc
      <4> QED
        BY <1>1, <2>0, <3>1, <4>1
    <3> QED
      BY <3>1, <3>2 DEF BarrierCount, ResetInv
  <2>2. CASE cbarrier_inc(x)
    <3>1. pc[x] = "sum" /\ pc'[x] = "inc_test" /\ cb_count' = cb_count + 1 /\ N > 1
      BY <2>0, <2>2 DEF cbarrier_inc, EndLoop, Goto
    <3>2. /\ pc[x] \in ScopePc /\ pc'[x] \in ScopePc /\ pc'[x] \in BarPc
          /\ pc[x] \notin BarPc \cup TermPc
      BY <3>1 DEF ScopePc, LoopPc, BarPc, TermPc
    <3>3. x \notin InBarrier /\ InBarrier' = InBarrier \cup {x}
      BY <1>0, <2>0, <3>2 DEF InBarrier
    <3>4. cb_count = Cardinality(InBarrier)
      BY <3>1, <3>2 DEF BarrierCount
    <3>5. IsFiniteSet(InBarrier)
      BY RanksFinite DEF InBarrier
    <3>6. cb_count' = Cardinality(InBarrier')
      BY <3>1, <3>3, <3>4, <3>5, CardAdd
    <3> QED
      BY <3>2, <3>6 DEF BarrierCount, ResetInv
  <2>3. CASE cbarrier_dec(x) /\ cb_count < N
    <3>1. pc[x] = "cb_dec" /\ pc'[x] = "pop" /\ cb_count' = cb_count - 1
      BY <2>0, <2>3 DEF cbarrier_dec, Goto
    <3>2. /\ pc[x] \in ScopePc /\ pc'[x] \in ScopePc /\ pc[x] \in BarPc
          /\ pc'[x] \notin BarPc \cup TermPc
      BY <3>1 DEF ScopePc, LoopPc, BarPc, TermPc
    <3>3. x \in InBarrier /\ InBarrier' = InBarrier \ {x}
      BY <1>0, <2>0, <3>2 DEF InBarrier
    <3>4. cb_count = Cardinality(InBarrier)
      BY <3>2 DEF BarrierCount, PhaseInv
    <3>5. IsFiniteSet(InBarrier)
      BY RanksFinite DEF InBarrier
    <3>6. cb_count' = Cardinality(InBarrier')
      BY <3>1, <3>3, <3>4, <3>5, CardRemove
    <3> QED
      BY <3>2, <3>6 DEF BarrierCount, ResetInv
  <2>4. CASE BarrierStart(x)
    <3>1. pc[x] = "wait1" /\ pc'[x] = "lambda" /\ cb_count' = cb_count
      BY <2>0, <2>4 DEF BarrierStart, Goto
    <3>2. \A q \in Rank : pc'[q] \in {"wait1", "lambda", "notify2", "wait2"}
      <4>1. ASSUME NEW q \in Rank
            PROVE  pc[q] \in {"wait1", "lambda", "notify2", "wait2"}
        <5>1. /\ pc[q] \in Pc /\ round[x] \in Int /\ round[q] \in Int
              /\ Arrived(q) >= Arrived(x)
              /\ Arrived(x) >= Arrived(q) - (IF pc[q] \in WaitPc THEN 1 ELSE 0)
          BY <2>4, MaxFinishAssumption DEF TypeOK, BarrierStart, AllArrived, PhaseInv
        <5> QED
          BY <3>1, <5>1 DEF Arrived, Offset, WaitPc, Pc, PrePc, LambdaPc, StartPc,
                            LoopPc, BarPc, TermPc
      <4> QED
        BY <2>0, <3>1, <4>1
    <3>3. InBarrier' = {}
      BY <1>0, <3>2 DEF BarPc, TermPc
    <3>4. InBarrier = {}
      <4>1. \A q \in Rank : pc[q] \notin BarPc \cup TermPc
        BY <2>0, <3>1, <3>2 DEF BarPc, TermPc
      <4> QED
        BY <4>1 DEF InBarrier
    <3>5. N > 1 => cb_count = 0
      <4>1. CASE \E q \in Rank : pc[q] \in ScopePc
        BY <3>4, <4>1, RanksFinite DEF BarrierCount
      <4>2. CASE ~ \E q \in Rank : pc[q] \in ScopePc
        BY <3>1, <4>2 DEF ResetInv
      <4> QED
        BY <4>1, <4>2
    <3>6. pc'[x] \in ScopePc
      BY <3>1 DEF ScopePc, LambdaPc
    <3> QED
      BY <3>1, <3>3, <3>5, <3>6, RanksFinite DEF BarrierCount, ResetInv
  <2>5. CASE pc[x] = "end"
    <3>1. pc'[x] \in {"cb_init", "finalized"} /\ cb_count' = cb_count
      BY <1>4, <2>5, ControlMove
         DEF Move, LoopPc, BarPc, cb_init, cbarrier_inc, EndLoop, cbarrier_dec
    <3>2. /\ \A q \in Rank : pc[q] \notin ScopePc
          /\ \A q \in Rank : pc'[q] \notin ScopePc
      <4>1. pc'[x] \notin ScopePc
        BY <3>1 DEF ScopePc, LambdaPc, StartPc, LoopPc, BarPc
      <4> QED
        BY <1>1, <2>0, <2>5, <4>1
    <3> QED
      BY <1>3, <2>0, <3>1, <3>2 DEF BarrierCount
  <2>6. CASE pc[x] = "notify3"
    <3>1. pc'[x] = "wait3" /\ cb_count' = cb_count
      BY <1>4, <2>6, ControlMove
         DEF Move, LoopPc, BarPc, cb_init, cbarrier_inc, EndLoop, cbarrier_dec
    <3>2. BarrierCount'
      BY <1>2, <2>0, <2>6, <3>1 DEF ScopePc, LambdaPc, StartPc, LoopPc, BarPc, TermPc
    <3>3. \A q \in Rank : pc'[q] \notin {"notify1", "wait1"}
      BY <2>0, <2>6, <3>1, PhaseFacts DEF LoopPc, BarPc
    <3> QED
      BY <3>2, <3>3 DEF ResetInv
  <2>7. CASE EndSum(x) /\ N = 1
    <3>1. pc'[x] \in ScopePc /\ cb_count' = cb_count
      BY <2>0, <2>7 DEF EndSum, Goto, ScopePc, LoopPc
    <3> QED
      BY <2>7, <3>1 DEF BarrierCount, ResetInv
  <2>8. CASE /\ ~cb_init(x) /\ ~cbarrier_inc(x) /\ ~(cbarrier_dec(x) /\ cb_count < N)
             /\ ~BarrierStart(x) /\ pc[x] \notin {"end", "notify3"}
             /\ ~(EndSum(x) /\ N = 1)
    <3>1. cb_count' = cb_count
      BY <1>4, <2>8, ControlMove DEF cbarrier_dec
    <3>2. pc'[x] # "lambda"
      BY <1>4, <2>0, <2>8 DEF ControlStep, cb_init, BarrierNotify, BarrierLoop,
         EndLambda, EndFinish, DecCommTask, PopEmpty, publish_local_load_info,
         EndAdvance, EndReport, CheckPending, ReadInFlight, EndSum,
         cbarrier_test, Detect, cbarrier_dec, Goto
    <3>3. pc[x] = "cb_dec" => pc'[x] # "pop"
      BY <1>4, <2>0, <2>8, ControlMove DEF Move, cbarrier_dec, Goto, LoopPc, BarPc
    <3>4. \/ pc[x] = "notify1" /\ pc'[x] = "wait1"
          \/ pc[x] = "notify2" /\ pc'[x] = "wait2"
          \/ pc[x] = "wait2" /\ pc'[x] = "pop"
          \/ pc[x] = "wait3" /\ pc'[x] = "end"
          \/ pc[x] = "lambda" /\ pc'[x] = "notify2"
          \/ pc[x] \in LoopPc /\ pc'[x] \in LoopPc
          \/ pc[x] \in BarPc /\ pc'[x] \in BarPc \cup {"notify3"}
      BY <1>4, <2>8, <3>2, <3>3, ControlMove DEF Move
    <3>5. /\ pc'[x] \in ScopePc <=> pc[x] \in ScopePc
          /\ pc'[x] \in BarPc \cup TermPc <=> pc[x] \in BarPc \cup TermPc
          /\ pc'[x] \in {"notify1", "wait1"} <=> pc[x] \in {"notify1", "wait1"}
      BY <3>4 DEF ScopePc, LambdaPc, StartPc, LoopPc, BarPc, TermPc
    <3> QED
      BY <1>2, <1>3, <2>0, <3>1, <3>5
  <2> QED
    BY <2>1, <2>2, <2>3, <2>4, <2>5, <2>6, <2>7, <2>8
<1>5. ASSUME UNCHANGED cb_count, \A q \in Rank : Stays(q)
      PROVE  BarrierCount' /\ ResetInv'
  <2>1. \A q \in Rank : /\ pc'[q] \in ScopePc <=> pc[q] \in ScopePc
                        /\ pc'[q] \in BarPc \cup TermPc
                             <=> pc[q] \in BarPc \cup TermPc
                        /\ pc'[q] \in {"notify1", "wait1"}
                             <=> pc[q] \in {"notify1", "wait1"}
    BY <1>5 DEF Stays, ScopePc, LambdaPc, StartPc, LoopPc, BarPc, TermPc
  <2> QED
    BY <1>2, <1>3, <1>5, <2>1
<1> QED
  BY <1>4, <1>5, OthersPc

-----------------------------------------------------------------------------
(* QuietInv: what a rank that believes itself quiet may rely on.           *)

CanReceive(r) == /\ pc[r] \in {"advance", "cb_advance"}
                 /\ \E q \in Rank : Flying(q) # {}

\* A quiet rank stays so unless its lambda runs, it pops a communication task
\* or something arrives; what arrives is noted in received.
LEMMA WorkStable ==
  ASSUME TypeOK, TaskInv, DeqInv, [Next]_vars, NEW r \in Rank
  PROVE  /\ CountedAt(r) = {} /\ pc[r] # "lambda" /\ ~CanReceive(r)
              => CountedAt(r)' = {}
         /\ Flying(r) = {} /\ pc[r] # "pop" => Flying(r)' = {}
         /\ received[r] = {} /\ ~CanReceive(r) => received'[r] = {}
         /\ pc[r] # "check_incoming" => received[r] \subseteq received'[r]
         /\ CountedAt(r) = {} /\ CountedAt(r)' # {} /\ pc[r] # "lambda"
              => received'[r] # {}
<1> DEFINE P ==
         /\ CountedAt(r) = {} /\ pc[r] # "lambda" /\ ~CanReceive(r)
              => CountedAt(r)' = {}
         /\ Flying(r) = {} /\ pc[r] # "pop" => Flying(r)' = {}
         /\ received[r] = {} /\ ~CanReceive(r) => received'[r] = {}
         /\ pc[r] # "check_incoming" => received[r] \subseteq received'[r]
         /\ CountedAt(r) = {} /\ CountedAt(r)' # {} /\ pc[r] # "lambda"
              => received'[r] # {}
<1>0. received \in [Rank -> SUBSET Task] /\ home \in [Task -> Rank]
      /\ dest \in [Task -> Rank]
  BY DEF TypeOK
<1>1. ASSUME CountedAt(r)' \subseteq CountedAt(r),
             Flying(r)' \subseteq Flying(r) \/ pc[r] = "pop",
             received'[r] = received[r]
      PROVE  P
  BY <1>1
<1>2. ASSUME NEW x \in Rank, ControlStep(x) PROVE P
  BY <1>1, <1>2, ControlWork, ControlFrame
<1>3. ASSUME NEW x \in Rank, PopCommTask(x) PROVE P
  BY <1>1, <1>3, PopWork DEF PopCommTask
<1>4. ASSUME NEW x \in Rank, ExecCommTask(x) PROVE P
  BY <1>1, <1>4, ExecWork DEF ExecCommTask
<1>5. ASSUME NEW x \in Rank, NEW o \in Rank, ReportTo(x, o) PROVE P
  <2>1. CountedAt(r)' = CountedAt(r) /\ Flying(r)' \subseteq Flying(r)
    BY <1>5, ReportWork
  <2>2. /\ received'[r] \subseteq received[r]
        /\ pc[r] # "check_incoming" => received'[r] = received[r]
    BY <1>0, <1>5 DEF ReportTo
  <2> QED
    BY <2>1, <2>2
<1>6. ASSUME Spawn PROVE P
  <2>1. ASSUME NEW u \in Task, NEW s, NEW h \in Rank, NEW d \in Rank,
               Create(u, s, h, d), UNCHANGED received,
               (s = "live" /\ d = h) \/ s \in {"queued", "counted"},
               pc[h] = "lambda" \/ CountedAt(h) # {}
        PROVE  P
    <3>1. Flying(r)' = Flying(r) /\ received'[r] = received[r]
      BY <2>1, CreateWork
    <3>2. CASE r = h
      BY <2>1, <3>1, <3>2
    <3>3. CASE r # h
      BY <1>1, <2>1, <3>1, <3>3, CreateWork
    <3> QED
      BY <3>2, <3>3
  <2>2. ASSUME NEW t \in Task, Running(t) PROVE CountedAt(dest[t]) # {}
    BY <2>2 DEF Running, CountedAt
  <2> QED
    BY <1>0, <1>6, <2>1, <2>2
       DEF Spawn, LambdaAsync, LambdaComm, TaskAsync, TaskComm
<1>7. ASSUME NEW t \in Task, TaskPush(t) PROVE P
  BY <1>1, <1>7, PushWork DEF TaskPush
<1>8. ASSUME NEW t \in Task, TaskEnd(t) PROVE P
  BY <1>1, <1>8, EndWork DEF TaskEnd
<1>9. ASSUME NEW t \in Task, Receive(t) PROVE P
  <2>1. CASE r = dest[t]
    <3>1. t \in received'[r] /\ received[r] \subseteq received'[r]
      BY <1>0, <1>9, <2>1, ReceiveWork
    <3>2. CanReceive(r) /\ Flying(r)' = Flying(r)
      BY <1>0, <1>9, <2>1, ReceiveWork DEF CanReceive
    <3> QED
      BY <3>1, <3>2
  <2>2. CASE r # dest[t]
    BY <1>0, <1>1, <1>9, <2>2, ReceiveWork
  <2> QED
    BY <2>1, <2>2
<1>10. ASSUME UNCHANGED vars PROVE P
  BY <1>1, <1>10 DEF vars, CountedAt, Flying
<1> QED
  BY <1>2, <1>3, <1>4, <1>5, <1>6, <1>7, <1>8, <1>9, <1>10, StepCases

\* When the barrier is achieved, no rank has anything left.
LEMMA AllQuiet ==
  ASSUME TypeOK, TaskInv, PhaseInv, BarrierCount, QuietInv,
         NEW x \in Rank, pc[x] \in BarPc, cb_count = N
  PROVE  \A q \in Rank : Quiet(q) /\ pc[q] \in BarPc \cup {"notify3", "wait3"}
<1>1. cb_count = Cardinality(InBarrier)
  BY DEF BarrierCount, PhaseInv, ScopePc
<1>2. \A q \in Rank : pc[q] \in BarPc \cup TermPc
  <2>1. InBarrier = Rank
    <3>1. InBarrier \subseteq Rank
      BY DEF InBarrier
    <3> QED
      BY <1>1, <3>1, RanksFinite
  <2> QED
    BY <2>1 DEF InBarrier
<1>3. \A q \in Rank : Flying(q) = {} /\ (CountedAt(q) # {} => received[q] # {})
  BY <1>2 DEF QuietInv, ParkedIsQuiet
<1>4. ASSUME NEW q \in Rank PROVE received[q] = {}
  <2>1. \A t \in received[q] : t \in Task /\ dest[t] = q /\ home[t] \in Rank
    BY DEF TaskInv, TypeOK
  <2>2. \A t \in received[q] : t \in Flying(home[t])
    BY <2>1 DEF Flying
  <2> QED
    BY <1>3, <2>1, <2>2
<1>5. \A q \in Rank : pc[q] # "end"
  BY PhaseFacts DEF LoopPc, BarPc
<1> QED
  BY <1>2, <1>3, <1>4, <1>5 DEF Quiet, TermPc

\* What the sum over the in-flight counters is good for once it is complete.
LEMMA SumIsQuiet ==
  ASSUME TypeOK, QuietInv, NEW x \in Rank, EndLoop(x), sum[x].acc = 0
  PROVE  Quiet(x)
<1>1. pc[x] = "sum" /\ sum[x].i > x
  BY NAssumption DEF EndLoop, Rank
<1> QED
  BY <1>1 DEF QuietInv, Quiet

LEMMA QuietControl ==
  ASSUME TypeOK, TaskInv, FinishCounterExact, InFlightExact, PhaseInv,
         BarrierCount, QuietInv, NEW x \in Rank, ControlStep(x)
  PROVE  QuietInv'
<1>0. pc \in [Rank -> Pc] /\ sum \in [Rank -> [i : 0 .. N, acc : Int]]
  BY DEF TypeOK
<1>1. /\ \A q \in Rank : q # x => pc'[q] = pc[q] /\ sum'[q] = sum[q]
      /\ UNCHANGED received
      /\ \A q \in Rank : CountedAt(q)' = CountedAt(q) /\ Flying(q)' = Flying(q)
  BY ControlFrame, ControlWork
<1>2. \A q \in Rank : Quiet(q)' <=> Quiet(q)
  BY <1>1 DEF Quiet
\* The conjuncts for rank x; those of the other ranks do not change.
<1>3. Move(x)
  BY ControlMove
<1>4. \/ pc[x] \in OutsidePc /\ pc'[x] \in OutsidePc
      \/ Quiet(x)
      \/ pc'[x] \notin OutsidePc
  <2>1. CASE N = 1 /\ EndSum(x) /\ pc'[x] = "notify3"
    <3>1. EndLoop(x) /\ sum[x].acc = 0
      BY <1>0, <2>1 DEF EndSum, Goto
    <3> QED
      BY <3>1, SumIsQuiet
  <2>2. CASE cb_count = N /\ pc[x] \in BarPc
    BY <2>2, AllQuiet
  <2> QED
    BY <1>3, <2>1, <2>2 DEF Move, OutsidePc, PrePc, TermPc, LoopPc, BarPc
<1>5. pc'[x] \in OutsidePc => Quiet(x)'
  BY <1>2, <1>4 DEF QuietInv
<1>6. pc'[x] \in {"pending", "sum"} =>
         received'[x] = {} /\ (pc'[x] = "sum" => CountedAt(x)' = {})
  <2>1. CASE EndReport(x)
    BY <1>0, <1>1, <2>1 DEF EndReport, Goto
  <2>2. CASE CheckPending(x)
    <3>1. pc[x] = "pending" /\ (pc'[x] = "sum" => finishCounter[x] = 1)
      BY <1>0, <2>2 DEF CheckPending, Goto, Pending, TypeOK
    <3>2. finishCounter[x] = Cardinality(CountedAt(x)) + 1
      BY <3>1 DEF FinishCounterExact, Extra, InDetection, LoopPc
    <3>3. pc'[x] = "sum" => CountedAt(x) = {}
      BY <3>1, <3>2, SubsetsOfTask, TasksFinite
    <3> QED
      BY <1>1, <3>1, <3>3 DEF QuietInv
  <2>3. CASE pc[x] = "sum"
    BY <1>1, <2>3 DEF QuietInv
  <2>4. CASE ~EndReport(x) /\ ~CheckPending(x) /\ pc[x] # "sum"
    BY <1>0, <2>4 DEF ControlStep, cb_init, BarrierNotify, BarrierStart,
       BarrierLoop, EndLambda, EndFinish, DecCommTask, PopEmpty,
       publish_local_load_info, EndAdvance, ReadInFlight, EndSum, EndLoop,
       cbarrier_inc, cbarrier_test, Detect, cbarrier_dec, Goto
  <2> QED
    BY <2>1, <2>2, <2>3, <2>4
<1>7. pc'[x] = "sum" =>
         /\ sum'[x].acc >= 0
         /\ sum'[x].i > x /\ sum'[x].acc = 0 => Flying(x)' = {}
  <2>1. CASE ReadInFlight(x)
    <3> DEFINE i == sum[x].i
               a == sum[x].acc
    <3>1. /\ pc[x] = "sum" /\ i \in 0 .. N /\ i < N /\ a \in Int
          /\ sum' = [sum EXCEPT ![x] = [i |-> i + 1, acc |-> a + asyncsInFlight[i]]]
      BY <1>0, <2>1 DEF ReadInFlight
    <3>2. /\ a >= 0 /\ (i > x /\ a = 0 => Flying(x) = {})
      BY <3>1 DEF QuietInv
    <3>3. i \in Rank /\ asyncsInFlight[i] = Cardinality(Flying(i))
      BY <3>1, NAssumption DEF Rank, InFlightExact
    <3>4. /\ asyncsInFlight[i] \in Nat
          /\ asyncsInFlight[i] = 0 => Flying(i) = {}
      BY <3>3, SubsetsOfTask, TasksFinite
    <3>5. sum'[x].i = i + 1 /\ sum'[x].acc = a + asyncsInFlight[i]
      BY <1>0, <3>1
    <3> HIDE DEF i, a
    <3>6. sum'[x].acc >= 0
      BY <3>1, <3>2, <3>4, <3>5
    <3>7. ASSUME sum'[x].i > x, sum'[x].acc = 0 PROVE Flying(x) = {}
      <4>1. a = 0 /\ asyncsInFlight[i] = 0
        BY <3>1, <3>2, <3>4, <3>5, <3>7
      <4>2. i = x \/ i > x
        BY <3>1, <3>5, <3>7 DEF Rank
      <4> QED
        BY <3>2, <3>4, <4>1, <4>2
    <3> QED
      BY <1>1, <3>6, <3>7
  <2>2. CASE pc[x] # "sum" /\ pc'[x] = "sum"
    <3>1. sum'[x] = sum[x]
      BY <1>0, <2>2 DEF ControlStep, cb_init, BarrierNotify, BarrierStart,
         BarrierLoop, EndLambda, EndFinish, DecCommTask, PopEmpty,
         publish_local_load_info, EndAdvance, EndReport, CheckPending,
         ReadInFlight, EndSum, EndLoop, cbarrier_inc, cbarrier_test, Detect,
         cbarrier_dec, Goto
    <3>2. sum'[x].i = 0 /\ sum'[x].acc = 0
      BY <2>2, <3>1 DEF QuietInv
    <3> QED
      BY <3>2 DEF Rank
  <2>3. CASE pc[x] = "sum" /\ ~ReadInFlight(x)
    <3>1. EndSum(x) \/ cbarrier_inc(x)
      BY <2>3 DEF ControlStep, cb_init, BarrierNotify, BarrierStart,
         BarrierLoop, EndLambda, EndFinish, DecCommTask, PopEmpty,
         publish_local_load_info, EndAdvance, EndReport, CheckPending,
         cbarrier_test, Detect, cbarrier_dec
    <3>2. pc'[x] # "sum"
      BY <1>0, <3>1 DEF EndSum, cbarrier_inc, Goto
    <3> QED
      BY <3>2
  <2> QED
    BY <2>1, <2>2, <2>3
<1>8. pc'[x] # "sum" => sum'[x] = [i |-> 0, acc |-> 0]
  <2>1. CASE EndSum(x) \/ cbarrier_inc(x)
    BY <1>0, <2>1 DEF EndSum, cbarrier_inc, EndLoop
  <2>2. CASE ReadInFlight(x)
    BY <1>0, <2>2 DEF ReadInFlight
  <2>3. CASE ~EndSum(x) /\ ~cbarrier_inc(x) /\ ~ReadInFlight(x)
    <3>1. sum'[x] = sum[x] /\ pc[x] # "sum"
      BY <1>0, <2>3 DEF ControlStep, cb_init, BarrierNotify, BarrierStart,
         BarrierLoop, EndLambda, EndFinish, DecCommTask, PopEmpty,
         publish_local_load_info, EndAdvance, EndReport, CheckPending,
         cbarrier_test, Detect, cbarrier_dec, Goto
    <3> QED
      BY <3>1 DEF QuietInv
  <2> QED
    BY <2>1, <2>2, <2>3
<1>9. pc'[x] \in BarPc \cup TermPc =>
         Flying(x)' = {} /\ (CountedAt(x)' # {} => received'[x] # {})
  <2>1. CASE pc[x] \in BarPc \cup TermPc
    BY <1>1, <2>1 DEF QuietInv, ParkedIsQuiet
  <2>2. CASE pc[x] \notin BarPc \cup TermPc /\ pc'[x] \in BarPc \cup TermPc
    <3>1. EndLoop(x) /\ sum[x].acc = 0
      <4>1. EndSum(x) \/ cbarrier_inc(x)
        BY <1>3, <2>2 DEF Move, LoopPc, BarPc, TermPc
      <4> QED
        BY <1>0, <2>2, <4>1 DEF EndSum, cbarrier_inc, Goto, BarPc, TermPc
    <3> QED
      BY <1>1, <3>1, SumIsQuiet DEF Quiet
  <2> QED
    BY <2>1, <2>2
<1>10. \A q \in Rank : q # x =>
          /\ pc'[q] \in OutsidePc => Quiet(q)'
          /\ pc'[q] \in {"pending", "sum"} => received'[q] = {}
          /\ pc'[q] = "sum" =>
               /\ CountedAt(q)' = {}
               /\ sum'[q].acc >= 0
               /\ sum'[q].i > q /\ sum'[q].acc = 0 => Flying(q)' = {}
          /\ pc'[q] # "sum" => sum'[q] = [i |-> 0, acc |-> 0]
          /\ pc'[q] \in BarPc \cup TermPc =>
               Flying(q)' = {} /\ (CountedAt(q)' # {} => received'[q] # {})
  BY <1>1, <1>2 DEF QuietInv, ParkedIsQuiet
<1> QED
  BY <1>5, <1>6, <1>7, <1>8, <1>9, <1>10 DEF QuietInv, ParkedIsQuiet

LEMMA QuietStep ==
  ASSUME TypeOK, TaskInv, DeqInv, FinishCounterExact, InFlightExact, PhaseInv,
         BarrierCount, QuietInv, [Next]_vars
  PROVE  QuietInv'
<1>1. ASSUME UNCHANGED sum, \A q \in Rank : Stays(q) PROVE QuietInv'
  <2>1. ASSUME NEW q \in Rank, pc'[q] = pc[q]
        PROVE  /\ pc'[q] \in OutsidePc => Quiet(q)'
               /\ pc'[q] \in {"pending", "sum"} => received'[q] = {}
               /\ pc'[q] = "sum" =>
                    /\ CountedAt(q)' = {}
                    /\ sum'[q].acc >= 0
                    /\ sum'[q].i > q /\ sum'[q].acc = 0 => Flying(q)' = {}
               /\ pc'[q] # "sum" => sum'[q] = [i |-> 0, acc |-> 0]
               /\ pc'[q] \in BarPc \cup TermPc =>
                    Flying(q)' = {} /\ (CountedAt(q)' # {} => received'[q] # {})
    <3>1. /\ CountedAt(q) = {} /\ pc[q] # "lambda" /\ ~CanReceive(q)
               => CountedAt(q)' = {}
          /\ Flying(q) = {} /\ pc[q] # "pop" => Flying(q)' = {}
          /\ received[q] = {} /\ ~CanReceive(q) => received'[q] = {}
          /\ pc[q] # "check_incoming" => received[q] \subseteq received'[q]
          /\ CountedAt(q) = {} /\ CountedAt(q)' # {} /\ pc[q] # "lambda"
               => received'[q] # {}
      BY WorkStable
    <3>2. pc'[q] \in OutsidePc => Quiet(q)'
      BY <2>1, <3>1 DEF QuietInv, Quiet, CanReceive, OutsidePc, PrePc, TermPc
    <3>3. pc'[q] \in {"pending", "sum"} => received'[q] = {}
      BY <2>1, <3>1 DEF QuietInv, CanReceive
    <3>4. pc'[q] = "sum" =>
            /\ CountedAt(q)' = {}
            /\ sum'[q].acc >= 0
            /\ sum'[q].i > q /\ sum'[q].acc = 0 => Flying(q)' = {}
      BY <1>1, <2>1, <3>1 DEF QuietInv, CanReceive
    <3>5. pc'[q] # "sum" => sum'[q] = [i |-> 0, acc |-> 0]
      BY <1>1, <2>1 DEF QuietInv
    <3>6. pc'[q] \in BarPc \cup TermPc =>
            Flying(q)' = {} /\ (CountedAt(q)' # {} => received'[q] # {})
      <4>1. pc[q] \in BarPc \cup TermPc =>
              pc[q] \notin {"lambda", "pop", "check_incoming"}
        BY DEF BarPc, TermPc
      <4> QED
        BY <2>1, <3>1, <4>1 DEF QuietInv, ParkedIsQuiet
    <3> QED
      BY <3>2, <3>3, <3>4, <3>5, <3>6
  <2>2. ASSUME NEW q \in Rank, pc[q] \in {"pop", "exec"}, pc'[q] \in {"exec", "dec"}
        PROVE  /\ pc'[q] \notin OutsidePc \cup BarPc \cup TermPc
               /\ pc'[q] \notin {"pending", "sum"}
               /\ sum'[q] = [i |-> 0, acc |-> 0]
    BY <1>1, <2>2 DEF QuietInv, OutsidePc, PrePc, BarPc, TermPc
  <2> QED
    BY <1>1, <2>1, <2>2 DEF Stays, QuietInv, ParkedIsQuiet
<1> QED
  BY <1>1, QuietControl, OthersPc

-----------------------------------------------------------------------------
(* TermInv: nobody leaves the loop too early.                              *)

LEMMA TermControl ==
  ASSUME TypeOK, TaskInv, PhaseInv, BarrierCount, QuietInv, TermInv,
         NEW x \in Rank, ControlStep(x), QuietInv'
  PROVE  TermInv'
<1>0. /\ pc \in [Rank -> Pc]
      /\ \A q \in Rank : q # x => pc'[q] = pc[q]
      /\ \A q \in Rank : Quiet(q)' <=> Quiet(q)
  BY ControlFrame, ControlWork DEF TypeOK, Quiet
<1>1. Move(x)
  BY ControlMove
<1>2. CASE \E r \in Rank : pc[r] \in TermPc
  <2>1. \A q \in Rank : Quiet(q) /\ pc[q] \in BarPc \cup OutsidePc
    BY <1>2 DEF TermInv
  <2>2. PICK r \in Rank : pc[r] \in TermPc
    BY <1>2
  <2>3. ~(pc[x] = "wait1" /\ AllArrived(x))
    <3>1. SUFFICES ASSUME pc[x] = "wait1", AllArrived(x) PROVE FALSE
      OBVIOUS
    <3>2. /\ round[x] \in Int /\ round[r] \in Int
          /\ Arrived(r) >= Arrived(x)
          /\ Arrived(x) >= Arrived(r) - (IF pc[r] \in WaitPc THEN 1 ELSE 0)
      BY <3>1, MaxFinishAssumption DEF TypeOK, AllArrived, PhaseInv
    <3> QED
      BY <2>2, <3>1, <3>2 DEF Arrived, Offset, WaitPc, TermPc
  <2>4. pc[x] \in BarPc => cb_count = N
    <3>1. SUFFICES ASSUME pc[x] \in BarPc PROVE cb_count = N
      OBVIOUS
    <3>2. \A q \in Rank : pc[q] \in BarPc \cup TermPc
      BY <2>1, <3>1, PhaseFacts DEF OutsidePc, PrePc, LoopPc, BarPc, TermPc
    <3>3. InBarrier = Rank
      BY <3>2 DEF InBarrier
    <3>4. cb_count = Cardinality(InBarrier)
      BY <3>1 DEF BarrierCount, PhaseInv, ScopePc
    <3> QED
      BY <3>3, <3>4, RanksFinite
  <2>5. ~(cbarrier_dec(x) /\ pc'[x] = "pop")
    <3>1. SUFFICES ASSUME cbarrier_dec(x), pc'[x] = "pop" PROVE FALSE
      OBVIOUS
    <3>2. cb_count < N /\ pc[x] \in BarPc
      BY <1>0, <3>1 DEF cbarrier_dec, Goto, BarPc
    <3> QED
      BY <2>4, <3>2, NAssumption
  <2>6. pc'[x] \in BarPc \cup OutsidePc
    BY <1>1, <2>1, <2>3, <2>5 DEF Move, OutsidePc, PrePc, LoopPc, BarPc, TermPc
  <2> QED
    BY <1>0, <2>1, <2>6 DEF TermInv
<1>3. CASE ~ \E r \in Rank : pc[r] \in TermPc
  <2>1. SUFFICES ASSUME pc'[x] \in TermPc
                 PROVE  \A q \in Rank : Quiet(q)' /\ pc'[q] \in BarPc \cup OutsidePc
    BY <1>0, <1>3 DEF TermInv
  <2>2. \/ N = 1
        \/ pc[x] \in BarPc /\ cb_count = N
    BY <1>1, <1>3, <2>1 DEF Move, LoopPc, BarPc, TermPc
  <2>3. CASE N = 1
    <3>1. \A q \in Rank : q = x
      BY <2>3 DEF Rank
    <3>2. pc'[x] \in OutsidePc
      BY <2>1 DEF OutsidePc
    <3> QED
      BY <3>1, <3>2 DEF QuietInv
  <2>4. CASE pc[x] \in BarPc /\ cb_count = N
    <3>1. \A q \in Rank : Quiet(q) /\ pc[q] \in BarPc \cup {"notify3", "wait3"}
      BY <2>4, AllQuiet
    <3> QED
      BY <1>0, <2>1, <3>1 DEF OutsidePc, TermPc
  <2> QED
    BY <2>2, <2>3, <2>4
<1> QED
  BY <1>2, <1>3

LEMMA TermStep ==
  ASSUME TypeOK, TaskInv, DeqInv, PhaseInv, BarrierCount, QuietInv, TermInv,
         [Next]_vars, QuietInv'
  PROVE  TermInv'
<1>1. ASSUME \A q \in Rank : Stays(q) PROVE TermInv'
  <2>1. SUFFICES ASSUME NEW r \in Rank, pc'[r] \in TermPc
                 PROVE  \A q \in Rank : Quiet(q)' /\ pc'[q] \in BarPc \cup OutsidePc
    BY DEF TermInv
  <2>2. pc[r] \in TermPc
    BY <1>1, <2>1 DEF Stays, TermPc
  <2>3. \A q \in Rank : Quiet(q) /\ pc[q] \in BarPc \cup OutsidePc
    BY <2>2 DEF TermInv
  <2>4. ASSUME NEW q \in Rank PROVE Quiet(q)' /\ pc'[q] \in BarPc \cup OutsidePc
    <3>1. pc[q] \notin {"lambda", "pop", "exec"}
      BY <2>3 DEF OutsidePc, PrePc, BarPc, TermPc
    <3>2. pc'[q] = pc[q]
      BY <1>1, <3>1 DEF Stays
    <3>3. ~CanReceive(q) /\ CountedAt(q) = {} /\ Flying(q) = {} /\ received[q] = {}
      BY <2>3 DEF CanReceive, Quiet
    <3>4. CountedAt(q)' = {} /\ Flying(q)' = {} /\ received'[q] = {}
      BY <3>1, <3>3, WorkStable
    <3> QED
      BY <2>3, <3>2, <3>4 DEF Quiet
  <2> QED
    BY <2>4
<1> QED
  BY <1>1, TermControl, OthersPc

-----------------------------------------------------------------------------
(* The invariant, and what it is for.                                      *)

LEMMA InitInv == Init => IInv
<1> SUFFICES ASSUME Init PROVE IInv
  OBVIOUS
<1>1. TypeOK
  BY InitType
<1>2. /\ \A r \in Rank : /\ pc[r] \in {"cb_init", "finalized"}
                         /\ pc[r] = "cb_init" <=> MaxFinish # 0
                         /\ round[r] = 0 /\ deq[r] = <<>> /\ received[r] = {}
                         /\ sum[r] = [i |-> 0, acc |-> 0]
                         /\ finishCounter[r] = 0 /\ asyncsInFlight[r] = 0
      /\ \A t \in Task : st[t] = "new" /\ pushing[t] = NoTask
  BY DEF Init
<1>3. \A r \in Rank : CountedAt(r) = {} /\ Flying(r) = {} /\ Extra(r) = 0
  <2>1. ASSUME NEW r \in Rank PROVE CountedAt(r) = {}
    BY <1>2 DEF CountedAt
  <2>2. ASSUME NEW r \in Rank PROVE Flying(r) = {}
    BY <1>1, <1>2 DEF Flying, TypeOK
  <2>3. ASSUME NEW r \in Rank PROVE Extra(r) = 0
    BY <1>2 DEF Extra, InDetection, StartPc, LoopPc, BarPc, TermPc
  <2> QED
    BY <2>1, <2>2, <2>3
<1>4. TaskInv
  BY <1>2 DEF TaskInv
<1>5. DeqInv
  BY <1>2 DEF DeqInv
<1>6. FinishCounterExact /\ InFlightExact
  <2>1. \A r \in Rank : Cardinality(CountedAt(r)) = 0 /\ Cardinality(Flying(r)) = 0
    BY <1>3, FS_EmptySet
  <2>2. FinishCounterExact
    BY <1>2, <1>3, <2>1 DEF FinishCounterExact
  <2>3. InFlightExact
    BY <1>2, <2>1 DEF InFlightExact
  <2> QED
    BY <2>2, <2>3
<1>7. PhaseInv
  <2>1. \A r \in Rank : Arrived(r) = 0 /\ pc[r] \notin BarPc
    BY <1>2 DEF Arrived, Offset, BarPc
  <2> QED
    BY <1>2, <2>1, MaxFinishAssumption DEF PhaseInv, WaitPc
<1>8. ResetInv /\ BarrierCount
  BY <1>2 DEF ResetInv, BarrierCount, ScopePc, LambdaPc, StartPc, LoopPc, BarPc
<1>9. QuietInv /\ TermInv
  BY <1>2, <1>3 DEF QuietInv, ParkedIsQuiet, TermInv, Quiet, BarPc, TermPc
<1> QED
  BY <1>1, <1>4, <1>5, <1>6, <1>7, <1>8, <1>9 DEF IInv

LEMMA StepInv == IInv /\ [Next]_vars => IInv'
<1> SUFFICES ASSUME IInv, [Next]_vars PROVE IInv'
  OBVIOUS
<1>1. TypeOK'
  BY TypeStep DEF IInv, PhaseInv
<1>2. TaskInv' /\ DeqInv'
  BY TaskStep, DeqStep DEF IInv
<1>3. FinishCounterExact' /\ InFlightExact'
  <2>1. \A r \in Rank : pc[r] = "wait1" => CountedAt(r) = {}
    BY DEF IInv, QuietInv, Quiet, OutsidePc, PrePc
  <2> QED
    BY <2>1, FinishCounterStep, InFlightStep DEF IInv
<1>4. PhaseInv'
  BY <1>1, PhaseStep DEF IInv
<1>5. BarrierCount' /\ ResetInv'
  BY <1>1, <1>4, CountStep DEF IInv
<1>6. QuietInv'
  BY QuietStep DEF IInv
<1>7. TermInv'
  BY <1>6, TermStep DEF IInv
<1> QED
  BY <1>1, <1>2, <1>3, <1>4, <1>5, <1>6, <1>7 DEF IInv

\* The inductive invariant: everything below follows from it.
THEOREM Invariant == Spec => []IInv
BY InitInv, StepInv, PTL DEF Spec

\* Every variable keeps its type, whatever N, the tasks and the number of
\* finishes.
THEOREM TypeCorrect == Spec => []TypeOK
<1>1. IInv => TypeOK
  BY DEF IInv
<1> QED
  BY <1>1, Invariant, PTL

\* The finish counter of a rank stands for exactly its local tasks and the
\* remote operations not yet handed over (send_taskto_comm_worker,
\* pop_execute_comm_task).
THEOREM FinishCounterIsExact == Spec => []FinishCounterExact
<1>1. IInv => FinishCounterExact
  BY DEF IInv
<1> QED
  BY <1>1, Invariant, PTL

\* The in-flight counter of a rank is the number of its operations that are
\* under way or not yet reported (increment_task_in_flight_self,
\* decrement_tasks_in_flight_count).
THEOREM InFlightIsExact == Spec => []InFlightExact
<1>1. IInv => InFlightExact
  BY DEF IInv
<1> QED
  BY <1>1, Invariant, PTL

\* cb_count counts the ranks in the barrier (cb_init, cbarrier_inc,
\* cbarrier_dec).
THEOREM BarrierCorrect == Spec => []BarrierCount
<1>1. IInv => BarrierCount
  BY DEF IInv
<1> QED
  BY <1>1, Invariant, PTL

\* A rank in the barrier has nothing of its own in flight, and has noted what
\* reached it since (total_asyncs_inFlight before cbarrier_inc).
THEOREM ParkedRanksAreQuiet == Spec => []ParkedIsQuiet
<1>1. IInv => ParkedIsQuiet
  BY DEF IInv, QuietInv
<1> QED
  BY <1>1, Invariant, PTL

LEMMA InvTermination == IInv => TerminationSafe
<1> SUFFICES ASSUME IInv, NEW r \in Rank, pc[r] \in TermPc
             PROVE  /\ Pending(r) = 0
                    /\ \A q \in Rank : received[q] = {} /\ deq[q] = <<>>
                    /\ \A t \in Task : st[t] \in {"new", "done"}
  BY DEF TerminationSafe
<1>1. \A q \in Rank : CountedAt(q) = {} /\ Flying(q) = {} /\ received[q] = {}
  BY DEF IInv, TermInv, Quiet
<1>2. /\ deq \in [Rank -> Seq(Task)] /\ st \in [Task -> TaskState]
      /\ home \in [Task -> Rank] /\ dest \in [Task -> Rank]
  BY DEF IInv, TypeOK
<1>3. Pending(r) = 0
  <2>1. Extra(r) = 1
    BY DEF Extra, InDetection, TermPc
  <2>2. Cardinality(CountedAt(r)) = 0
    BY <1>1, FS_EmptySet
  <2>3. finishCounter[r] = 1
    BY <2>1, <2>2 DEF IInv, FinishCounterExact
  <2> QED
    BY <2>3 DEF Pending
<1>4. ASSUME NEW t \in Task PROVE st[t] \in {"new", "done"}
  <2>1. home[t] \in Rank /\ dest[t] \in Rank /\ st[t] \in TaskState
    BY <1>2
  <2>2. t \notin CountedAt(home[t]) /\ t \notin CountedAt(dest[t])
        /\ t \notin Flying(home[t])
    BY <1>1, <2>1
  <2> QED
    BY <2>1, <2>2 DEF CountedAt, Flying, TaskState
<1>5. ASSUME NEW q \in Rank PROVE deq[q] = <<>>
  <2>1. SUFFICES ASSUME deq[q] # <<>> PROVE FALSE
    OBVIOUS
  <2>2. Head(deq[q]) \in Task /\ st[Head(deq[q])] = "queued"
    BY <2>1, HeadOfDeq DEF IInv
  <2> QED
    BY <1>4, <2>2
<1> QED
  BY <1>1, <1>3, <1>4, <1>5

\* A rank leaves the detection loop only when no task is left on any rank, on
\* the network or in a deque (hcpp_finish_barrier).
THEOREM TerminationIsSafe == Spec => []TerminationSafe
BY Invariant, InvTermination, PTL

\* The one step that frees events comes when no copy can need them.
LEMMA EventsStep ==
  ASSUME IInv, EventsOutliveCopies, [Next]_vars
  PROVE  EventsOutliveCopies'
<1>0. /\ TypeOK /\ TaskInv
      /\ event_list \in [Rank -> SUBSET Task] /\ st \in [Task -> TaskState]
      /\ home \in [Task -> Rank] /\ dest \in [Task -> Rank]
  BY DEF IInv, TypeOK
<1>1. ASSUME NEW r \in Rank, EndFinish(r) PROVE EventsOutliveCopies'
  <2>1. \A t \in Task : st[t] \in {"new", "done"}
    BY <1>1, InvTermination DEF EndFinish, TerminationSafe, TermPc
  <2>2. UNCHANGED st
    BY <1>1 DEF EndFinish
  <2> QED
    BY <2>1, <2>2 DEF EventsOutliveCopies
<1>2. ASSUME NEW r \in Rank, ExecCommTask(r) PROVE EventsOutliveCopies'
  <2>1. /\ st' = [st EXCEPT ![cur[r]] = "net"] /\ UNCHANGED <<home, dest>>
        /\ event_list' = [event_list EXCEPT ![r] = @ \cup CopyOf(r)]
        /\ home[cur[r]] = r
    BY <1>0, <1>2 DEF ExecCommTask, TaskInv
  <2>2. SUFFICES ASSUME NEW t \in Task, st'[t] = "net", dest[t] = home[t]
                 PROVE  t \in event_list'[home[t]]
    BY <2>1 DEF EventsOutliveCopies
  <2>3. CASE t = cur[r]
    BY <1>0, <2>1, <2>2, <2>3 DEF CopyOf
  <2>4. CASE t # cur[r]
    <3>1. t \in event_list[home[t]] /\ home[t] \in Rank
      BY <1>0, <2>1, <2>2, <2>4 DEF EventsOutliveCopies
    <3> QED
      BY <1>0, <2>1, <3>1
  <2> QED
    BY <2>3, <2>4
<1>3. ASSUME UNCHANGED event_list,
             \A t \in Task : st'[t] = "net" =>
               st[t] = "net" /\ home'[t] = home[t] /\ dest'[t] = dest[t]
      PROVE  EventsOutliveCopies'
  BY <1>3 DEF EventsOutliveCopies
<1>4. ASSUME NEW r \in Rank, ControlStep(r), ~EndFinish(r)
      PROVE  EventsOutliveCopies'
  <2>1. UNCHANGED <<st, home, dest>>
    BY <1>0, <1>4, ControlFrame
  <2>2. UNCHANGED event_list
    BY <1>4 DEF ControlStep, cb_init, BarrierNotify, BarrierStart, BarrierLoop,
       EndLambda, DecCommTask, PopEmpty, publish_local_load_info, EndAdvance,
       EndReport, CheckPending, ReadInFlight, EndSum, cbarrier_inc,
       cbarrier_test, Detect, cbarrier_dec, tasks
  <2> QED
    BY <1>3, <2>1, <2>2
<1>5. ASSUME NEW r \in Rank,
             PopCommTask(r) \/ \E o \in Rank : ReportTo(r, o)
      PROVE  EventsOutliveCopies'
  BY <1>0, <1>3, <1>5 DEF PopCommTask, ReportTo, tasks
<1>6. ASSUME Spawn PROVE EventsOutliveCopies'
  <2>1. PICK u \in Task, s \in {"live", "queued", "counted"} :
          /\ st' = [st EXCEPT ![u] = s]
          /\ \A t \in Task : t # u => home'[t] = home[t] /\ dest'[t] = dest[t]
          /\ UNCHANGED event_list
    BY <1>0, <1>6 DEF Spawn, LambdaAsync, LambdaComm, TaskAsync, TaskComm, Create
  <2> QED
    BY <1>0, <1>3, <2>1
<1>7. ASSUME NEW t \in Task, TaskPush(t) \/ TaskEnd(t) \/ Receive(t)
      PROVE  EventsOutliveCopies'
  BY <1>0, <1>3, <1>7 DEF TaskPush, TaskEnd, Receive, ReceiveAsync, ReceiveCopy
<1>8. ASSUME UNCHANGED vars PROVE EventsOutliveCopies'
  BY <1>3, <1>8 DEF vars
<1> QED
  BY <1>1, <1>2, <1>4, <1>5, <1>6, <1>7, <1>8, StepCases

\* The end of a finish deletes no event that a copy still has to signal
\* (free_upcxx_event_list), whoever sent the copy and when.
THEOREM EventsAreKept == Spec => []EventsOutliveCopies
<1>1. Init => EventsOutliveCopies
  BY DEF Init, EventsOutliveCopies
<1>2. IInv /\ EventsOutliveCopies /\ [Next]_vars => EventsOutliveCopies'
  BY EventsStep
<1> QED
  BY <1>1, <1>2, Invariant, PTL DEF Spec

\* A barrier that has been achieved stays so: cbarrier_dec is refused and no
\* cb_init of the next finish can reset the count under a rank still inside.
THEOREM AchievedStays == Spec => AchievedIsFinal
<1> DEFINE A == \A r \in Rank : cb_count = N /\ pc[r] \in BarPc => cb_count' = N
<1>1. IInv /\ [Next]_vars => [A]_vars
  <2> SUFFICES ASSUME IInv, [Next]_vars, NEW r \in Rank,
                      cb_count = N, pc[r] \in BarPc
               PROVE  cb_count' = N
    OBVIOUS
  <2>1. \A q \in Rank : pc[q] \in BarPc \cup {"notify3", "wait3"}
    BY AllQuiet DEF IInv
  <2>2. ASSUME NEW x \in Rank, ControlStep(x) PROVE cb_count' = N
    <3>1. cb_count' = cb_count \/ cb_init(x) \/ cbarrier_inc(x) \/ cbarrier_dec(x)
      BY <2>2, ControlMove DEF IInv
    <3>2. ~cb_init(x) /\ ~cbarrier_inc(x)
      BY <2>1 DEF cb_init, cbarrier_inc, EndLoop, BarPc
    <3>3. cbarrier_dec(x) => cb_count' = cb_count
      BY NAssumption DEF cbarrier_dec
    <3> QED
      BY <3>1, <3>2, <3>3
  <2> QED
    BY <2>2, OthersPc DEF IInv
<1> QED
  BY <1>1, Invariant, PTL DEF Spec, AchievedIsFinal

-----------------------------------------------------------------------------
(* finish_spmd implements GlobalFinish.                                    *)

\* A step of a rank's own enters the scope, leaves it, or does neither.
LEMMA ScopeStep ==
  ASSUME TypeOK, NEW x \in Rank, ControlStep(x)
  PROVE  /\ \A q \in Rank : q # x => /\ Entered(q)' = Entered(q)
                                     /\ Exited(q)' = Exited(q)
         /\ BarrierStart(x) => /\ Entered(x)' = Entered(x) + 1
                               /\ Exited(x)' = Exited(x)
         /\ pc'[x] = "notify3" => /\ Entered(x)' = Entered(x)
                                  /\ Exited(x)' = Exited(x) + 1
         /\ ~BarrierStart(x) /\ pc'[x] # "notify3" =>
              Entered(x)' = Entered(x) /\ Exited(x)' = Exited(x)
<1>0. /\ round[x] \in Int /\ pc \in [Rank -> Pc]
      /\ \A q \in Rank : q # x => pc'[q] = pc[q] /\ round'[q] = round[q]
  <2>1. round[x] \in Int /\ pc \in [Rank -> Pc]
    BY MaxFinishAssumption DEF TypeOK
  <2> QED
    BY <2>1, ControlFrame
<1>1. Move(x)
  BY ControlMove
<1>2. \A q \in Rank : q # x => Entered(q)' = Entered(q) /\ Exited(q)' = Exited(q)
  BY <1>0 DEF Entered, Exited
<1>3. ASSUME BarrierStart(x)
      PROVE  Entered(x)' = Entered(x) + 1 /\ Exited(x)' = Exited(x)
  <2>1. pc[x] = "wait1" /\ pc'[x] = "lambda" /\ round'[x] = round[x]
    BY <1>0, <1>3 DEF BarrierStart, Goto
  <2> QED
    BY <1>0, <2>1 DEF Entered, Exited, PrePc, TermPc
<1>4. ASSUME pc'[x] = "notify3"
      PROVE  Entered(x)' = Entered(x) /\ Exited(x)' = Exited(x) + 1
  <2>1. pc[x] \in LoopPc \cup BarPc /\ round'[x] = round[x]
    BY <1>1, <1>4 DEF Move, SameRound, LoopPc, BarPc
  <2> QED
    BY <1>0, <1>4, <2>1 DEF Entered, Exited, PrePc, TermPc, LoopPc, BarPc
<1>5. ASSUME ~BarrierStart(x), pc'[x] # "notify3"
      PROVE  Entered(x)' = Entered(x) /\ Exited(x)' = Exited(x)
  <2>1. CASE pc[x] = "end"
    <3>1. round'[x] = round[x] + 1 /\ pc'[x] \in {"cb_init", "finalized"}
      BY <1>1, <2>1 DEF Move, LoopPc, BarPc, BarrierNotify
    <3> QED
      BY <1>0, <2>1, <3>1 DEF Entered, Exited, PrePc, TermPc
  <2>2. CASE pc[x] # "end"
    <3>1. round'[x] = round[x]
      BY <1>1, <2>2 DEF Move, SameRound
    <3>2. pc[x] # "wait1"
      BY <1>5 DEF ControlStep, cb_init, BarrierNotify, BarrierLoop,
         EndLambda, EndFinish, DecCommTask, PopEmpty, publish_local_load_info,
         EndAdvance, EndReport, CheckPending, ReadInFlight, EndSum, EndLoop,
         cbarrier_inc, cbarrier_test, Detect, cbarrier_dec
    <3>3. /\ pc'[x] \in PrePc \cup {"finalized"} <=> pc[x] \in PrePc \cup {"finalized"}
          /\ pc'[x] \in TermPc <=> pc[x] \in TermPc
      BY <1>1, <1>5, <2>2, <3>2 DEF Move, PrePc, TermPc, LoopPc, BarPc
    <3> QED
      BY <3>1, <3>3 DEF Entered, Exited
  <2> QED
    BY <2>1, <2>2
<1> QED
  BY <1>2, <1>3, <1>4, <1>5

\* A rank inside the scope is not behind any other.
LEMMA ScopeIsCurrent ==
  ASSUME IInv, NEW r \in Rank, pc[r] = "lambda" \/ CountedAt(r) # {}
  PROVE  Entered(r) > Exited(r) /\ \A q \in Rank : Exited(q) =< Exited(r)
<1>0. \A q \in Rank : pc[q] \in Pc /\ round[q] \in Int
  BY MaxFinishAssumption DEF IInv, TypeOK
<1>1. pc[r] \notin OutsidePc
  BY DEF IInv, QuietInv, Quiet, OutsidePc, PrePc, TermPc
<1>2. ASSUME NEW q \in Rank PROVE pc[q] \notin TermPc
  <2>1. SUFFICES ASSUME pc[q] \in TermPc PROVE FALSE
    OBVIOUS
  <2>2. CountedAt(r) = {} /\ pc[r] \in BarPc \cup OutsidePc
    BY <2>1 DEF IInv, TermInv, Quiet
  <2> QED
    BY <2>2 DEF OutsidePc, PrePc, BarPc, TermPc
<1>3. ASSUME NEW q \in Rank PROVE round[q] =< round[r]
  <2>1. CASE pc[r] = "wait2"
    <3>1. pc[q] \notin {"cb_init", "notify1", "end", "finalized"}
      BY <2>1, PhaseFacts DEF IInv
    <3>2. Offset(pc[q]) - (IF pc[q] \in WaitPc THEN 1 ELSE 0) >= 0
      BY <3>1 DEF Offset, WaitPc
    <3>3. Arrived(r) >= Arrived(q) - (IF pc[q] \in WaitPc THEN 1 ELSE 0)
      BY DEF IInv, PhaseInv
    <3>4. Arrived(r) = 3 * round[r] + 2
      BY <2>1 DEF Arrived, Offset
    <3>5. Offset(pc[q]) \in Int
      BY DEF Offset
    <3> QED
      BY <1>0, <3>2, <3>3, <3>4, <3>5 DEF Arrived
  <2>2. CASE pc[r] # "wait2"
    <3>1. pc[r] \in LoopPc \cup BarPc \cup {"lambda", "notify2"}
      BY <1>0, <1>1, <2>2 DEF Pc, OutsidePc, PrePc, LambdaPc, StartPc, TermPc
    <3>2. round[q] = round[r]
      BY <3>1, PhaseFacts DEF IInv
    <3> QED
      BY <1>0, <3>2
  <2> QED
    BY <2>1, <2>2
<1>4. Entered(r) = round[r] + 1
  BY <1>1 DEF Entered, OutsidePc
<1>5. \A q \in Rank : Exited(q) = round[q]
  BY <1>0, <1>2 DEF Exited
<1> QED
  BY <1>0, <1>3, <1>4, <1>5

LEMMA RefineInit == Init => Global!Init
<1> SUFFICES ASSUME Init PROVE Global!Init
  OBVIOUS
<1>1. \A r \in Rank : Entered(r) = 0 /\ Exited(r) = 0
  BY DEF Init, Entered, Exited, PrePc, TermPc
<1>2. \A t \in Task : Status(t) = "none"
  BY DEF Init, Status
<1> QED
  BY <1>1, <1>2 DEF Global!Init

LEMMA RefineStep == IInv /\ IInv' /\ [Next]_vars => [Global!Next]_Global!vars
<1> SUFFICES ASSUME IInv, IInv', [Next]_vars PROVE [Global!Next]_Global!vars
  OBVIOUS
<1>0. /\ st \in [Task -> TaskState] /\ dest \in [Task -> Rank]
      /\ TypeOK /\ TaskInv /\ DeqInv /\ PhaseInv
      /\ \A q \in Rank : pc[q] \in Pc /\ round[q] \in 0 .. MaxFinish
  BY DEF IInv, TypeOK
\* The three functions the mapping substitutes, and how they change.
<1>1. ASSUME \A q \in Rank : Entered(q)' = Entered(q) /\ Exited(q)' = Exited(q)
      PROVE  UNCHANGED <<[q \in Rank |-> Entered(q)], [q \in Rank |-> Exited(q)]>>
  BY <1>1
<1>2. ASSUME \A t \in Task : Status(t)' = Status(t)
      PROVE  UNCHANGED [t \in Task |-> Status(t)]
  BY <1>2
<1>3. ASSUME \A q \in Rank : Entered(q)' = Entered(q) /\ Exited(q)' = Exited(q),
             \A t \in Task : Status(t)' = Status(t)
      PROVE  [Global!Next]_Global!vars
  BY <1>1, <1>2, <1>3 DEF Global!vars
<1>4. ASSUME \A q \in Rank : Stays(q), UNCHANGED round
      PROVE  \A q \in Rank : Entered(q)' = Entered(q) /\ Exited(q)' = Exited(q)
  BY <1>4 DEF Stays, Entered, Exited, PrePc, TermPc
<1>5. ASSUME NEW x \in Rank, ControlStep(x) PROVE [Global!Next]_Global!vars
  <2>1. \A t \in Task : Status(t)' = Status(t)
    BY <1>0, <1>5, ControlFrame DEF Status
  <2>2. /\ \A q \in Rank : q # x => /\ Entered(q)' = Entered(q)
                                    /\ Exited(q)' = Exited(q)
        /\ BarrierStart(x) => /\ Entered(x)' = Entered(x) + 1
                              /\ Exited(x)' = Exited(x)
        /\ pc'[x] = "notify3" => /\ Entered(x)' = Entered(x)
                                 /\ Exited(x)' = Exited(x) + 1
        /\ ~BarrierStart(x) /\ pc'[x] # "notify3" =>
             Entered(x)' = Entered(x) /\ Exited(x)' = Exited(x)
    BY <1>0, <1>5, ScopeStep
  <2>3. CASE BarrierStart(x)
    <3>1. pc[x] = "wait1" /\ AllArrived(x)
      BY <2>3 DEF BarrierStart
    <3>2. Entered(x) = round[x]
      BY <1>0, <3>1, MaxFinishAssumption DEF Entered, PrePc
    <3>3. round[x] < MaxFinish
      BY <1>0, <3>1 DEF PhaseInv
    <3>4. ASSUME NEW q \in Rank PROVE Exited(q) >= Entered(x)
      <4>1. Arrived(q) >= 3 * round[x] + 1
        BY <3>1 DEF AllArrived, Arrived, Offset
      <4>2. Arrived(q) = 3 * round[q] + Offset(pc[q]) /\ Offset(pc[q]) \in 0 .. 3
        BY DEF Arrived, Offset
      <4>3. round[q] >= round[x]
        BY <1>0, <4>1, <4>2, MaxFinishAssumption
      <4> QED
        BY <1>0, <3>2, <4>3, MaxFinishAssumption DEF Exited
    <3>5. [q \in Rank |-> Entered(q)]' =
            [[q \in Rank |-> Entered(q)] EXCEPT ![x] = @ + 1]
      BY <2>2, <2>3
    <3>6. UNCHANGED <<[q \in Rank |-> Exited(q)], [t \in Task |-> Status(t)]>>
      BY <2>1, <2>2, <2>3
    <3>7. Global!Enter(x)
      BY <3>2, <3>3, <3>4, <3>5, <3>6 DEF Global!Enter
    <3> QED
      BY <3>7 DEF Global!Next
  <2>4. CASE pc'[x] = "notify3"
    <3>1. pc[x] \in LoopPc \cup BarPc
      BY <1>0, <1>5, <2>4, ControlMove DEF Move, LoopPc, BarPc
    <3>2. ASSUME NEW q \in Rank
          PROVE  Entered(q) = round[x] + 1
      <4>1. /\ pc[q] \in LoopPc \cup BarPc \cup {"wait2", "notify3", "wait3"}
            /\ round[q] = round[x]
        BY <1>0, <3>1, PhaseFacts
      <4> QED
        BY <4>1 DEF Entered, PrePc, LoopPc, BarPc
    <3>3. Exited(x) = round[x]
      BY <1>0, <3>1, MaxFinishAssumption DEF Exited, LoopPc, BarPc, TermPc
    <3>4. \A t \in Task : Status(t) # "open"
      <4>1. \A q \in Rank : CountedAt(q) = {} /\ Flying(q) = {}
        <5>1. \A q \in Rank : Quiet(q)'
          BY <2>4 DEF IInv, TermInv, TermPc
        <5>2. \A q \in Rank : CountedAt(q)' = CountedAt(q) /\ Flying(q)' = Flying(q)
          BY <1>0, <1>5, ControlWork
        <5> QED
          BY <5>1, <5>2 DEF Quiet
      <4>2. ASSUME NEW t \in Task PROVE st[t] \in {"new", "done"}
        <5>1. home[t] \in Rank /\ dest[t] \in Rank /\ st[t] \in TaskState
          BY <1>0 DEF TypeOK
        <5>2. t \notin CountedAt(home[t]) /\ t \notin CountedAt(dest[t])
              /\ t \notin Flying(home[t])
          BY <4>1, <5>1
        <5> QED
          BY <5>1, <5>2 DEF CountedAt, Flying, TaskState
      <4> QED
        BY <4>2 DEF Status
    <3>5. /\ [q \in Rank |-> Exited(q)]' =
               [[q \in Rank |-> Exited(q)] EXCEPT ![x] = @ + 1]
          /\ UNCHANGED <<[q \in Rank |-> Entered(q)], [t \in Task |-> Status(t)]>>
      BY <2>1, <2>2, <2>4
    <3>6. Global!Leave(x)
      BY <1>0, <3>2, <3>3, <3>4, <3>5, MaxFinishAssumption DEF Global!Leave
    <3> QED
      BY <3>6 DEF Global!Next
  <2>5. CASE ~BarrierStart(x) /\ pc'[x] # "notify3"
    BY <1>3, <2>1, <2>2, <2>5
  <2> QED
    BY <2>3, <2>4, <2>5
<1>6. ASSUME NEW r \in Rank, PopCommTask(r) PROVE [Global!Next]_Global!vars
  <2> DEFINE t == Head(deq[r])
  <2>1. t \in Task /\ st[t] = "queued"
    BY <1>0, <1>6, HeadOfDeq DEF PopCommTask
  <2>2. st' = [st EXCEPT ![t] = "exec"] /\ pc' = [pc EXCEPT ![r] = "exec"]
        /\ UNCHANGED round /\ pc[r] = "pop"
    BY <1>6 DEF PopCommTask, Goto
  <2> HIDE DEF t
  <2>3. \A u \in Task : Status(u)' = Status(u)
    BY <1>0, <2>1, <2>2 DEF Status
  <2>4. \A q \in Rank : Stays(q)
    BY <1>0, <2>2 DEF Stays, TypeOK
  <2> QED
    BY <1>3, <1>4, <2>2, <2>3, <2>4
<1>7. ASSUME NEW r \in Rank, ExecCommTask(r) PROVE [Global!Next]_Global!vars
  <2>1. st' = [st EXCEPT ![cur[r]] = "net"] /\ pc' = [pc EXCEPT ![r] = "dec"]
        /\ UNCHANGED round /\ pc[r] = "exec" /\ st[cur[r]] = "exec"
    BY <1>0, <1>7 DEF ExecCommTask, Goto, TaskInv
  <2>2. \A u \in Task : Status(u)' = Status(u)
    BY <1>0, <2>1 DEF Status
  <2>3. \A q \in Rank : Stays(q)
    BY <1>0, <2>1 DEF Stays, TypeOK
  <2> QED
    BY <1>3, <1>4, <2>1, <2>2, <2>3
\* The other steps leave pc and round alone.
<1>8. ASSUME UNCHANGED <<pc, round>>
      PROVE  \A q \in Rank : Entered(q)' = Entered(q) /\ Exited(q)' = Exited(q)
  BY <1>8 DEF Entered, Exited
<1>9. ASSUME NEW r \in Rank, NEW o \in Rank, ReportTo(r, o)
      PROVE  [Global!Next]_Global!vars
  BY <1>3, <1>8, <1>9 DEF ReportTo, tasks, Status
<1>10. ASSUME NEW u \in Task, NEW s, NEW h, NEW d, NEW r \in Rank,
              Create(u, s, h, d), s \in {"live", "queued", "counted"},
              UNCHANGED <<pc, round>>, pc[r] = "lambda" \/ CountedAt(r) # {}
       PROVE  [Global!Next]_Global!vars
  <2>1. st[u] = "new" /\ st' = [st EXCEPT ![u] = s]
    BY <1>10 DEF Create
  <2>2. /\ Status(u) = "none" /\ Status(u)' = "open"
        /\ \A t \in Task : t # u => Status(t)' = Status(t)
    BY <1>0, <1>10, <2>1 DEF Status
  <2>3. [t \in Task |-> Status(t)]' = [[t \in Task |-> Status(t)] EXCEPT ![u] = "open"]
    BY <2>2
  <2>4. Entered(r) > Exited(r) /\ \A q \in Rank : Exited(q) =< Exited(r)
    BY <1>10, ScopeIsCurrent
  <2>5. Global!Create(u)
    BY <1>1, <1>8, <1>10, <2>2, <2>3, <2>4 DEF Global!Create
  <2> QED
    BY <2>5 DEF Global!Next
<1>11. ASSUME Spawn PROVE [Global!Next]_Global!vars
  <2>1. ASSUME NEW t \in Task, Running(t)
        PROVE  dest[t] \in Rank /\ CountedAt(dest[t]) # {}
    BY <1>0, <2>1 DEF Running, CountedAt
  <2> QED
    BY <1>10, <1>11, <2>1
       DEF Spawn, LambdaAsync, LambdaComm, TaskAsync, TaskComm, comm
<1>12. ASSUME NEW t \in Task, TaskPush(t) PROVE [Global!Next]_Global!vars
  <2>1. /\ pushing[t] # NoTask /\ st' = [st EXCEPT ![pushing[t]] = "queued"]
        /\ UNCHANGED <<pc, round>>
    BY <1>12 DEF TaskPush, comm
  <2>2. st[pushing[t]] = "counted"
    BY <1>0, <2>1 DEF TaskInv
  <2>3. \A u \in Task : Status(u)' = Status(u)
    BY <1>0, <2>1, <2>2 DEF Status
  <2> QED
    BY <1>3, <1>8, <2>1, <2>3
<1>13. ASSUME NEW t \in Task, UNCHANGED <<pc, round>>,
              st[t] \in {"live", "net"}, st' = [st EXCEPT ![t] = "done"]
       PROVE  [Global!Next]_Global!vars
  <2>1. /\ Status(t) = "open" /\ Status(t)' = "closed"
        /\ \A u \in Task : u # t => Status(u)' = Status(u)
    BY <1>0, <1>13 DEF Status
  <2>2. [u \in Task |-> Status(u)]' = [[u \in Task |-> Status(u)] EXCEPT ![t] = "closed"]
    BY <2>1
  <2>3. Global!Finish(t)
    BY <1>1, <1>8, <1>13, <2>1, <2>2 DEF Global!Finish
  <2> QED
    BY <2>3 DEF Global!Next
<1>14. ASSUME NEW t \in Task, TaskEnd(t) PROVE [Global!Next]_Global!vars
  BY <1>13, <1>14 DEF TaskEnd, Running, comm
<1>15. ASSUME NEW t \in Task, Receive(t) PROVE [Global!Next]_Global!vars
  <2>1. CASE ReceiveAsync(t)
    <3>1. st[t] = "net" /\ st' = [st EXCEPT ![t] = "live"] /\ UNCHANGED <<pc, round>>
      BY <2>1 DEF ReceiveAsync, comm
    <3>2. \A u \in Task : Status(u)' = Status(u)
      BY <1>0, <3>1 DEF Status
    <3> QED
      BY <1>3, <1>8, <3>1, <3>2
  <2>2. CASE ReceiveCopy(t)
    BY <1>13, <2>2 DEF ReceiveCopy, comm
  <2> QED
    BY <1>15, <2>1, <2>2 DEF Receive
<1>16. ASSUME UNCHANGED vars PROVE [Global!Next]_Global!vars
  BY <1>3, <1>8, <1>16 DEF vars, Status
<1> QED
  BY <1>5, <1>6, <1>7, <1>9, <1>11, <1>12, <1>14, <1>15, <1>16, StepCases

\* The protocol of finish_spmd implements the abstract global finish scope:
\* every rank opens it, tasks are created inside it on any rank, and no rank
\* leaves before all of them have finished everywhere.
THEOREM FinishImplementsGlobal == Spec => ImplementsGlobalFinish
BY RefineInit, RefineStep, Invariant, PTL
   DEF Spec, ImplementsGlobalFinish, Global!Spec
=============================================================================
