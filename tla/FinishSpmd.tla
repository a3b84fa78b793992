----------------------------- MODULE FinishSpmd -----------------------------
(***************************************************************************)
(* finish_spmd of HabaneroUPC++ in the default build (no DIST_WS).         *)
(*                                                                         *)
(* Each rank runs one communication worker and any number of computation   *)
(* workers.  The communication worker is the process pc[r]: it goes        *)
(* through finish_spmd, the lambda, and the termination-detection loop     *)
(* hcpp_finish_barrier, built on the cancellable barrier (cb_count).       *)
(* Computation workers are the live tasks: a task runs on some worker of   *)
(* its rank, spawns, sends communication tasks to the communication        *)
(* worker's deque, and ends, in any interleaving.  The deque is the FIFO   *)
(* that CommDeque implements.  Remote asyncs and copies travel through     *)
(* UPC++ and act at the target only inside upcxx::advance().               *)
(***************************************************************************)
EXTENDS Integers, Sequences, FiniteSets

CONSTANTS N,           \* upcxx::global_ranks()
          Task,        \* task identities, each used at most once
          NoTask,      \* not a task
          MaxFinish    \* bound: finish_spmd calls made by the program

ASSUME NAssumption == N \in Nat \ {0}
ASSUME TaskAssumption == IsFiniteSet(Task) /\ NoTask \notin Task
ASSUME MaxFinishAssumption == MaxFinish \in Nat

Rank == 0 .. N-1
NOT_WORKING == -1

VARIABLES
  pc,             \* where rank r's finish_spmd call is
  round,          \* finish_spmd calls rank r has returned from
  finishCounter,  \* *current_finish_counter of rank r
  asyncsInFlight, \* shared_array: r's remote operations not yet reported back
  workAvail,      \* shared_array: load published by r
  cb_count,       \* shared_var: ranks inside the cancellable barrier
  deq,            \* r's deque of communication tasks
  cur,            \* communication task r's communication worker executes
  received,       \* r's operations completed here and not yet reported to
                  \* their origin (received_tasks_origin, tasks_received)
  sum,            \* loop index and accumulator of total_asyncs_inFlight
  st,             \* life of a task
  home,           \* rank that created the task
  dest,           \* rank the task runs at (home of an asyncCopy: itself)
  pushing,        \* communication task a running task is about to push
  event_list      \* r's asyncCopies whose upcxx::event is allocated

comm  == <<pc, round, cur, sum>>
tasks == <<st, home, dest, pushing, event_list>>
vars  == <<pc, round, finishCounter, asyncsInFlight, workAvail, cb_count,
           deq, cur, received, sum, st, home, dest, pushing, event_list>>

-----------------------------------------------------------------------------
(* Control points of a rank, by phase of finish_spmd.                      *)

PrePc    == {"cb_init", "notify1", "wait1"}
LambdaPc == {"lambda"}
StartPc  == {"notify2", "wait2"}
LoopPc   == {"pop", "exec", "dec", "publish", "advance", "check_incoming",
             "pending", "sum"}
BarPc    == {"inc_test", "detect", "cb_dec", "cb_advance", "cb_test"}
TermPc   == {"notify3", "wait3", "end"}
ScopePc  == LambdaPc \cup StartPc \cup LoopPc \cup BarPc \cup {"notify3"}
Pc       == PrePc \cup LambdaPc \cup StartPc \cup LoopPc \cup BarPc \cup TermPc
              \cup {"finalized"}

TaskState == {"new", "live", "counted", "queued", "exec", "net", "done"}

\* Barriers r has notified.  gasnet's anonymous barriers are collective, so
\* the k-th notify of one rank matches the k-th of every other.
Offset(p) == IF p \in {"cb_init", "notify1", "finalized"} THEN 0
             ELSE IF p \in {"wait1", "lambda", "notify2"} THEN 1
             ELSE IF p \in {"wait3", "end"} THEN 3
             ELSE 2
Arrived(r) == 3 * round[r] + Offset(pc[r])

\* totalPendingLocalAsyncs(): the finish counter without the detection task.
Pending(r) == finishCounter[r] - 1

-----------------------------------------------------------------------------
Init ==
  /\ pc = [r \in Rank |-> IF MaxFinish = 0 THEN "finalized" ELSE "cb_init"]
  /\ round = [r \in Rank |-> 0]
  /\ finishCounter = [r \in Rank |-> 0]
  /\ asyncsInFlight = [r \in Rank |-> 0]
  /\ workAvail = [r \in Rank |-> NOT_WORKING]
  /\ cb_count = 0
  /\ deq = [r \in Rank |-> <<>>]
  /\ cur = [r \in Rank |-> NoTask]
  /\ received = [r \in Rank |-> {}]
  /\ sum = [r \in Rank |-> [i |-> 0, acc |-> 0]]
  /\ st = [t \in Task |-> "new"]
  /\ home = [t \in Task |-> 0]
  /\ dest = [t \in Task |-> 0]
  /\ pushing = [t \in Task |-> NoTask]
  /\ event_list = [r \in Rank |-> {}]

Goto(r, p) == pc' = [pc EXCEPT ![r] = p]
Count(r, k) == finishCounter' = [finishCounter EXCEPT ![r] = @ + k]

-----------------------------------------------------------------------------
(* Entering and leaving finish_spmd.                                       *)

cb_init(r) ==
  /\ pc[r] = "cb_init"
  /\ cb_count' = 0
  /\ Goto(r, "notify1")
  /\ UNCHANGED <<round, finishCounter, asyncsInFlight, workAvail, deq, cur,
                 received, sum, tasks>>

\* barrier(), first half: gasnet_barrier_notify.
BarrierNotify(r) ==
  /\ \/ pc[r] = "notify1" /\ Goto(r, "wait1")
     \/ pc[r] = "notify2" /\ Goto(r, "wait2")
     \/ pc[r] = "notify3" /\ Goto(r, "wait3")
  /\ UNCHANGED <<round, finishCounter, asyncsInFlight, workAvail, cb_count,
                 deq, cur, received, sum, tasks>>

\* barrier(), second half: gasnet_barrier_try succeeds once all have notified.
AllArrived(r) == \A q \in Rank : Arrived(q) >= Arrived(r)

\* The barrier before the lambda; start_finish_special opens the counter.
BarrierStart(r) ==
  /\ pc[r] = "wait1" /\ AllArrived(r)
  /\ finishCounter' = [finishCounter EXCEPT ![r] = 0]
  /\ Goto(r, "lambda")
  /\ UNCHANGED <<round, asyncsInFlight, workAvail, cb_count, deq, cur,
                 received, sum, tasks>>

\* Mutant: the last barrier of hcpp_finish_barrier does not wait.
BarrierLoop_NoWait(r) ==
  /\ pc[r] = "wait3" \/ (pc[r] = "wait2" /\ AllArrived(r))
  /\ Goto(r, IF pc[r] = "wait2" THEN "pop" ELSE "end")
  /\ UNCHANGED <<round, finishCounter, asyncsInFlight, workAvail, cb_count,
                 deq, cur, received, sum, tasks>>

\* The barriers around the detection loop.
BarrierLoop(r) ==
  /\ pc[r] \in {"wait2", "wait3"} /\ AllArrived(r)
  /\ Goto(r, IF pc[r] = "wait2" THEN "pop" ELSE "end")
  /\ UNCHANGED <<round, finishCounter, asyncsInFlight, workAvail, cb_count,
                 deq, cur, received, sum, tasks>>

\* The lambda returned: asyncComm(hcpp_finish_barrier) counts one more task.
EndLambda(r) ==
  /\ pc[r] = "lambda"
  /\ Count(r, 1)
  /\ Goto(r, "notify2")
  /\ UNCHANGED <<round, asyncsInFlight, workAvail, cb_count, deq, cur,
                 received, sum, tasks>>

\* The detection task ends; end_finish returns when the counter is zero, and
\* free_upcxx_event_list deletes the events of this finish.
EndFinish(r) ==
  /\ pc[r] = "end"
  /\ finishCounter[r] = 1
  /\ Count(r, -1)
  /\ round' = [round EXCEPT ![r] = @ + 1]
  /\ Goto(r, IF round[r] + 1 = MaxFinish THEN "finalized" ELSE "cb_init")
  /\ event_list' = [event_list EXCEPT ![r] = {}]
  /\ UNCHANGED <<asyncsInFlight, workAvail, cb_count, deq, cur, received, sum,
                 st, home, dest, pushing>>

-----------------------------------------------------------------------------
(* Creating and running tasks: the lambda and the computation workers.     *)

Create(u, s, h, d) ==
  /\ st[u] = "new"
  /\ st' = [st EXCEPT ![u] = s]
  /\ home' = [home EXCEPT ![u] = h]
  /\ dest' = [dest EXCEPT ![u] = d]

\* hupcpp::async in the lambda.
LambdaAsync(r, u) ==
  /\ pc[r] = "lambda"
  /\ Create(u, "live", r, r)
  /\ Count(r, 1)
  /\ UNCHANGED <<comm, asyncsInFlight, workAvail, cb_count, deq, received,
                 pushing, event_list>>

\* asyncAt(p) or, with p = r, asyncCopy in the lambda.  The communication
\* worker starts after the lambda, so count and push are one step here.
LambdaComm(r, u, p) ==
  /\ pc[r] = "lambda"
  /\ Create(u, "queued", r, p)
  /\ Count(r, 1)
  /\ deq' = [deq EXCEPT ![r] = Append(@, u)]
  /\ UNCHANGED <<comm, asyncsInFlight, workAvail, cb_count, received, pushing,
                 event_list>>

Running(t) == st[t] = "live" /\ pushing[t] = NoTask

\* hupcpp::async in a task.
TaskAsync(t, u) ==
  /\ Running(t)
  /\ Create(u, "live", dest[t], dest[t])
  /\ Count(dest[t], 1)
  /\ UNCHANGED <<comm, asyncsInFlight, workAvail, cb_count, deq, received,
                 pushing, event_list>>

\* send_taskto_comm_worker in a task: count first ...
TaskComm(t, u, p) ==
  /\ Running(t)
  /\ Create(u, "counted", dest[t], p)
  /\ Count(dest[t], 1)
  /\ pushing' = [pushing EXCEPT ![t] = u]
  /\ UNCHANGED <<comm, asyncsInFlight, workAvail, cb_count, deq, received,
                 event_list>>

\* ... then comm_task_push.
TaskPush(t) ==
  /\ pushing[t] # NoTask
  /\ st' = [st EXCEPT ![pushing[t]] = "queued"]
  /\ deq' = [deq EXCEPT ![dest[t]] = Append(@, pushing[t])]
  /\ pushing' = [pushing EXCEPT ![t] = NoTask]
  /\ UNCHANGED <<comm, finishCounter, asyncsInFlight, workAvail, cb_count,
                 received, home, dest, event_list>>

\* A task returns and its finish counter goes down.
TaskEnd(t) ==
  /\ Running(t)
  /\ st' = [st EXCEPT ![t] = "done"]
  /\ Count(dest[t], -1)
  /\ UNCHANGED <<comm, asyncsInFlight, workAvail, cb_count, deq, received,
                 home, dest, pushing, event_list>>

-----------------------------------------------------------------------------
(* The termination-detection loop of the communication worker.             *)

\* Mutant: the operation is never put in flight.
PopCommTask_NoIncrement(r) ==
  /\ pc[r] = "pop" /\ deq[r] # <<>>
  /\ cur' = [cur EXCEPT ![r] = Head(deq[r])]
  /\ deq' = [deq EXCEPT ![r] = Tail(@)]
  /\ st' = [st EXCEPT ![Head(deq[r])] = "exec"]
  /\ Goto(r, "exec")
  /\ UNCHANGED <<round, finishCounter, asyncsInFlight, workAvail, cb_count,
                 received, sum, home, dest, pushing, event_list>>

\* pop_execute_comm_task, deque not empty: pop, and put the operation in
\* flight before it is executed.
PopCommTask(r) ==
  /\ pc[r] = "pop" /\ deq[r] # <<>>
  /\ cur' = [cur EXCEPT ![r] = Head(deq[r])]
  /\ deq' = [deq EXCEPT ![r] = Tail(@)]
  /\ asyncsInFlight' = [asyncsInFlight EXCEPT ![r] = @ + 1]
  /\ st' = [st EXCEPT ![Head(deq[r])] = "exec"]
  /\ Goto(r, "exec")
  /\ UNCHANGED <<round, finishCounter, workAvail, cb_count, received, sum,
                 home, dest, pushing, event_list>>

\* The asyncCopy, if any, that the communication worker of r executes.
CopyOf(r) == {t \in {cur[r]} : dest[t] = r}

\* Mutant: a copy is reported when it starts, not when its event fires.
ExecCommTask_Reports(r) ==
  /\ pc[r] = "exec"
  /\ st' = [st EXCEPT ![cur[r]] = "net"]
  /\ event_list' = [event_list EXCEPT ![r] = @ \cup CopyOf(r)]
  /\ received' = [received EXCEPT ![r] = @ \cup CopyOf(r)]
  /\ Goto(r, "dec")
  /\ UNCHANGED <<round, finishCounter, asyncsInFlight, workAvail, cb_count,
                 deq, cur, sum, home, dest, pushing>>

\* task._fp: upcxx::async to the target, or get_upcxx_event and
\* upcxx::async_copy, which signals that event.
ExecCommTask(r) ==
  /\ pc[r] = "exec"
  /\ st' = [st EXCEPT ![cur[r]] = "net"]
  /\ event_list' = [event_list EXCEPT ![r] = @ \cup CopyOf(r)]
  /\ Goto(r, "dec")
  /\ UNCHANGED <<round, finishCounter, asyncsInFlight, workAvail, cb_count,
                 deq, cur, received, sum, home, dest, pushing>>

\* hcpp_atomic_dec(current_finish_counter).
DecCommTask(r) ==
  /\ pc[r] = "dec"
  /\ Count(r, -1)
  /\ cur' = [cur EXCEPT ![r] = NoTask]
  /\ Goto(r, "pop")
  /\ UNCHANGED <<round, asyncsInFlight, workAvail, cb_count, deq, received,
                 sum, tasks>>

PopEmpty(r) ==
  /\ pc[r] = "pop" /\ deq[r] = <<>>
  /\ Goto(r, "publish")
  /\ UNCHANGED <<round, finishCounter, asyncsInFlight, workAvail, cb_count,
                 deq, cur, received, sum, tasks>>

publish_local_load_info(r) ==
  /\ pc[r] = "publish"
  /\ workAvail' = [workAvail EXCEPT ![r] = Pending(r)]
  /\ Goto(r, "advance")
  /\ UNCHANGED <<round, finishCounter, asyncsInFlight, cb_count, deq, cur,
                 received, sum, tasks>>

\* Mutant: the finish counter of the target does not count the task.
ReceiveAsync_NoCount(t) ==
  LET r == dest[t] IN
  /\ st[t] = "net" /\ r # home[t]
  /\ pc[r] \in {"advance", "cb_advance"}
  /\ st' = [st EXCEPT ![t] = "live"]
  /\ received' = [received EXCEPT ![r] = @ \cup {t}]
  /\ UNCHANGED <<comm, finishCounter, asyncsInFlight, workAvail, cb_count, deq,
                 home, dest, pushing, event_list>>

\* async_at_received, run by upcxx::advance() at the target: start the task
\* as a local async and note its origin.
ReceiveAsync(t) ==
  LET r == dest[t] IN
  /\ st[t] = "net" /\ r # home[t]
  /\ pc[r] \in {"advance", "cb_advance"}
  /\ st' = [st EXCEPT ![t] = "live"]
  /\ Count(r, 1)
  /\ received' = [received EXCEPT ![r] = @ \cup {t}]
  /\ UNCHANGED <<comm, asyncsInFlight, workAvail, cb_count, deq, home, dest,
                 pushing, event_list>>

\* async_after_asyncCopy, run by upcxx::advance() at the origin.
ReceiveCopy(t) ==
  LET r == dest[t] IN
  /\ st[t] = "net" /\ r = home[t]
  /\ pc[r] \in {"advance", "cb_advance"}
  /\ st' = [st EXCEPT ![t] = "done"]
  /\ received' = [received EXCEPT ![r] = @ \cup {t}]
  /\ UNCHANGED <<comm, finishCounter, asyncsInFlight, workAvail, cb_count,
                 deq, home, dest, pushing, event_list>>

Receive(t) == ReceiveAsync(t) \/ ReceiveCopy(t)

\* upcxx::advance() returns, having run any number of arrived operations.
EndAdvance(r) ==
  /\ pc[r] \in {"advance", "cb_advance"}
  /\ Goto(r, IF pc[r] = "advance" THEN "check_incoming" ELSE "cb_test")
  /\ UNCHANGED <<round, finishCounter, asyncsInFlight, workAvail, cb_count,
                 deq, cur, received, sum, tasks>>

\* Mutant: one decrement per origin, however many operations it had.
ReportTo_One(r, o) ==
  LET done == {t \in received[r] : home[t] = o} IN
  /\ pc[r] = "check_incoming" /\ done # {}
  /\ asyncsInFlight' = [asyncsInFlight EXCEPT ![o] = @ - 1]
  /\ received' = [received EXCEPT ![r] = @ \ done]
  /\ UNCHANGED <<pc, round, finishCounter, workAvail, cb_count, deq, cur, sum,
                 tasks>>

\* decrement_tasks_in_flight_count: one origin per iteration, under its lock.
ReportTo(r, o) ==
  LET done == {t \in received[r] : home[t] = o} IN
  /\ pc[r] = "check_incoming" /\ done # {}
  /\ asyncsInFlight' = [asyncsInFlight EXCEPT ![o] = @ - Cardinality(done)]
  /\ received' = [received EXCEPT ![r] = @ \ done]
  /\ UNCHANGED <<pc, round, finishCounter, workAvail, cb_count, deq, cur, sum,
                 tasks>>

EndReport(r) ==
  /\ pc[r] = "check_incoming" /\ received[r] = {}
  /\ Goto(r, "pending")
  /\ UNCHANGED <<round, finishCounter, asyncsInFlight, workAvail, cb_count,
                 deq, cur, received, sum, tasks>>

\* Mutant: the local tasks are not looked at.
CheckPending_Skip(r) ==
  /\ pc[r] = "pending"
  /\ Goto(r, "sum")
  /\ UNCHANGED <<round, finishCounter, asyncsInFlight, workAvail, cb_count,
                 deq, cur, received, sum, tasks>>

\* totalPendingLocalAsyncs() == 0 && ...
CheckPending(r) ==
  /\ pc[r] = "pending"
  /\ Goto(r, IF Pending(r) = 0 THEN "sum" ELSE "pop")
  /\ UNCHANGED <<round, finishCounter, asyncsInFlight, workAvail, cb_count,
                 deq, cur, received, sum, tasks>>

\* Mutant: the sum is over the other ranks only.
ReadInFlight_Others(r) ==
  /\ pc[r] = "sum" /\ sum[r].i < N
  /\ sum' = [sum EXCEPT ![r] =
               [i |-> @.i + 1,
                acc |-> @.acc + IF @.i = r THEN 0 ELSE asyncsInFlight[@.i]]]
  /\ UNCHANGED <<pc, round, finishCounter, asyncsInFlight, workAvail,
                 cb_count, deq, cur, received, tasks>>

\* ... total_asyncs_inFlight() == 0: one remote read per iteration, no lock.
ReadInFlight(r) ==
  /\ pc[r] = "sum" /\ sum[r].i < N
  /\ sum' = [sum EXCEPT ![r] = [i |-> @.i + 1,
                                acc |-> @.acc + asyncsInFlight[@.i]]]
  /\ UNCHANGED <<pc, round, finishCounter, asyncsInFlight, workAvail,
                 cb_count, deq, cur, received, tasks>>

EndLoop(r) == /\ pc[r] = "sum" /\ sum[r].i = N
              /\ sum' = [sum EXCEPT ![r] = [i |-> 0, acc |-> 0]]

\* Not quiet (back to the loop), or quiet and the only rank (leave it).
EndSum(r) ==
  /\ EndLoop(r)
  /\ sum[r].acc # 0 \/ N = 1
  /\ Goto(r, IF sum[r].acc # 0 THEN "pop" ELSE "notify3")
  /\ UNCHANGED <<round, finishCounter, asyncsInFlight, workAvail, cb_count,
                 deq, cur, received, tasks>>

-----------------------------------------------------------------------------
(* The cancellable barrier.                                                *)

\* cbarrier_inc, the locked increment ...
cbarrier_inc(r) ==
  /\ EndLoop(r)
  /\ sum[r].acc = 0 /\ N > 1
  /\ cb_count' = cb_count + 1
  /\ Goto(r, "inc_test")
  /\ UNCHANGED <<round, finishCounter, asyncsInFlight, workAvail, deq, cur,
                 received, tasks>>

\* Mutant: one rank short of all is enough.
cbarrier_test_Early(r) ==
  /\ pc[r] \in {"inc_test", "cb_test"}
  /\ Goto(r, IF cb_count >= N-1 THEN "notify3" ELSE "detect")
  /\ UNCHANGED <<round, finishCounter, asyncsInFlight, workAvail, cb_count,
                 deq, cur, received, sum, tasks>>

\* Mutant: a rank that is released counts itself out.
cbarrier_test_Dec(r) ==
  /\ pc[r] \in {"inc_test", "cb_test"}
  /\ IF cb_count = N THEN Goto(r, "notify3") /\ cb_count' = cb_count - 1
                     ELSE Goto(r, "detect") /\ UNCHANGED cb_count
  /\ UNCHANGED <<round, finishCounter, asyncsInFlight, workAvail,
                 deq, cur, received, sum, tasks>>

\* ... and the test after the unlock, which reads cb_count again.  The same
\* read is cbarrier_test's at the end of an iteration of the inner loop.
cbarrier_test(r) ==
  /\ pc[r] \in {"inc_test", "cb_test"}
  /\ Goto(r, IF cb_count = N THEN "notify3" ELSE "detect")
  /\ UNCHANGED <<round, finishCounter, asyncsInFlight, workAvail, cb_count,
                 deq, cur, received, sum, tasks>>

detectWork(r) == workAvail[(r + 1) % N] # NOT_WORKING

\* Mutant: leave only with an arrival and a neighbour that has work.
Detect_Both(r) ==
  /\ pc[r] = "detect"
  /\ Goto(r, IF received[r] # {} /\ workAvail[(r + 1) % N] > 0
             THEN "cb_dec" ELSE "cb_advance")
  /\ UNCHANGED <<round, finishCounter, asyncsInFlight, workAvail, cb_count,
                 deq, cur, received, sum, tasks>>

Detect(r) ==
  /\ pc[r] = "detect"
  /\ Goto(r, IF received[r] # {} \/ detectWork(r) THEN "cb_dec"
                                                   ELSE "cb_advance")
  /\ UNCHANGED <<round, finishCounter, asyncsInFlight, workAvail, cb_count,
                 deq, cur, received, sum, tasks>>

\* Mutant: leave the barrier at any time.
cbarrier_dec_Always(r) ==
  /\ pc[r] = "cb_dec"
  /\ cb_count' = cb_count - 1 /\ Goto(r, "pop")
  /\ UNCHANGED <<round, finishCounter, asyncsInFlight, workAvail, deq, cur,
                 received, sum, tasks>>

\* Leave the barrier, unless it has been achieved.
cbarrier_dec(r) ==
  /\ pc[r] = "cb_dec"
  /\ IF cb_count < N THEN cb_count' = cb_count - 1 /\ Goto(r, "pop")
                     ELSE UNCHANGED cb_count /\ Goto(r, "cb_advance")
  /\ UNCHANGED <<round, finishCounter, asyncsInFlight, workAvail, deq, cur,
                 received, sum, tasks>>

-----------------------------------------------------------------------------
\* The communication worker of rank r takes a step of its own.
CommStep(r) ==
  \/ cb_init(r) \/ BarrierNotify(r) \/ BarrierStart(r) \/ BarrierLoop(r)
  \/ EndLambda(r) \/ EndFinish(r)
  \/ PopCommTask(r) \/ ExecCommTask(r) \/ DecCommTask(r) \/ PopEmpty(r)
  \/ publish_local_load_info(r) \/ EndAdvance(r)
  \/ \E o \in Rank : ReportTo(r, o)
  \/ EndReport(r) \/ CheckPending(r) \/ ReadInFlight(r) \/ EndSum(r)
  \/ cbarrier_inc(r) \/ cbarrier_test(r) \/ Detect(r) \/ cbarrier_dec(r)

\* The program creates a task: what and when is the user's choice.
Spawn ==
  \E u \in Task :
    \/ \E r \in Rank : LambdaAsync(r, u)
    \/ \E r, p \in Rank : LambdaComm(r, u, p)
    \/ \E t \in Task : TaskAsync(t, u)
    \/ \E t \in Task, p \in Rank : TaskComm(t, u, p)

Worker(t) == TaskPush(t) \/ TaskEnd(t)

\* Every rank has returned from its last finish_spmd.
Finalized == (\A r \in Rank : pc[r] = "finalized") /\ UNCHANGED vars

Next ==
  \/ \E r \in Rank : CommStep(r)
  \/ Spawn
  \/ \E t \in Task : Worker(t) \/ Receive(t)
  \/ Finalized

Spec == Init /\ [][Next]_vars

\* Workers and communication workers are threads that keep running; a task
\* that has nothing left to spawn ends.  An arrived operation is run by some
\* later advance(): each call may return before reaching it, hence SF.
Fairness == /\ \A r \in Rank : WF_vars(CommStep(r))
            /\ \A t \in Task : WF_vars(Worker(t)) /\ SF_vars(Receive(t))

FairSpec == Spec /\ Fairness

-----------------------------------------------------------------------------
(* Properties.                                                             *)

InDetection(r) == pc[r] \in StartPc \cup LoopPc \cup BarPc \cup TermPc

\* Tasks rank r's finish counter stands for: running here, or created here
\* for the communication worker and not yet handed to UPC++.
CountedAt(r) == {t \in Task :
                   \/ st[t] = "live" /\ dest[t] = r
                   \/ st[t] \in {"counted", "queued", "exec"} /\ home[t] = r}

\* Remote operations of rank r that have not been reported back to it.
Flying(r) == {t \in Task : /\ home[t] = r
                           /\ \/ st[t] \in {"exec", "net"}
                              \/ t \in received[dest[t]]}

\* What the finish counter counts besides: the detection task, and the
\* communication task that has been executed but not yet counted down.
Extra(r) == (IF InDetection(r) THEN 1 ELSE 0) + (IF pc[r] = "dec" THEN 1 ELSE 0)

InBarrier == {r \in Rank : pc[r] \in BarPc \cup TermPc}

Quiet(r) == CountedAt(r) = {} /\ Flying(r) = {} /\ received[r] = {}

\* Every variable has its type; in-flight counters are never negative.
TypeOK ==
  /\ pc \in [Rank -> Pc]
  /\ round \in [Rank -> 0 .. MaxFinish]
  /\ finishCounter \in [Rank -> Int]
  /\ asyncsInFlight \in [Rank -> Nat]
  /\ workAvail \in [Rank -> Int]
  /\ cb_count \in Int
  /\ deq \in [Rank -> Seq(Task)]
  /\ cur \in [Rank -> Task \cup {NoTask}]
  /\ received \in [Rank -> SUBSET Task]
  /\ sum \in [Rank -> [i : 0 .. N, acc : Int]]
  /\ st \in [Task -> TaskState]
  /\ home \in [Task -> Rank]
  /\ dest \in [Task -> Rank]
  /\ pushing \in [Task -> Task \cup {NoTask}]
  /\ event_list \in [Rank -> SUBSET Task]

\* The finish counter is never ahead of nor behind the work it stands for,
\* although asyncs, sends and ends by all workers, arrivals from other ranks
\* and the communication worker change it in any order (lines 205-211,
\* 217-242 of hcupc_spmd.cpp).
FinishCounterExact ==
  \A r \in Rank : finishCounter[r] = Cardinality(CountedAt(r)) + Extra(r)

\* The in-flight counter a rank publishes is exactly the number of its remote
\* operations nobody has reported back: incremented before the operation
\* leaves and decremented, by another rank, only after it has taken effect.
InFlightExact == \A r \in Rank : asyncsInFlight[r] = Cardinality(Flying(r))

\* A rank inside the cancellable barrier has nothing of its own in flight,
\* and if work has reached it since, the arrival is still in received, where
\* the inner loop looks before it believes the barrier (line 296).
ParkedIsQuiet ==
  \A r \in Rank : pc[r] \in BarPc \cup TermPc =>
    /\ Flying(r) = {}
    /\ CountedAt(r) # {} => received[r] # {}

\* When one rank has left the detection loop, no task is left on any rank or
\* on the network, and the HASSERT of line 309 holds: "this finish will end
\* only if all the local and remote tasks terminates" (line 352).
TerminationSafe ==
  \A r \in Rank : pc[r] \in TermPc =>
    /\ Pending(r) = 0
    /\ \A q \in Rank : received[q] = {} /\ deq[q] = <<>>
    /\ \A t \in Task : st[t] \in {"new", "done"}

\* A copy on the network will signal an upcxx::event and its rank will then
\* look for it: the list that holds the event is emptied at the end of a
\* finish without asking (lines 107-113, 355), so termination must have waited
\* for the copies of this rank, also those a task sends while others park.
EventsOutliveCopies ==
  \A t \in Task :
    st[t] = "net" /\ dest[t] = home[t] => t \in event_list[home[t]]

\* cb_count is the number of ranks inside the barrier from the lambda to the
\* last barrier of a finish: the unsynchronised reset by every rank's cb_init
\* wipes out nobody's increment, also across consecutive finishes.
BarrierCount ==
  \A r \in Rank :
    N > 1 /\ pc[r] \in ScopePc => cb_count = Cardinality(InBarrier)

\* "cbarrier_dec allows thread to exit barrier wait, but not after barrier has
\* been achieved" (lines 182-183): while a rank is still in the barrier, the
\* count never falls from N, whatever it has received or been told.
AchievedIsFinal ==
  [][\A r \in Rank : cb_count = N /\ pc[r] \in BarPc => cb_count' = N]_vars

\* What finish_spmd promises: see GlobalFinish.
Entered(r) == round[r] + (IF pc[r] \in PrePc \cup {"finalized"} THEN 0 ELSE 1)
Exited(r) == round[r] + (IF pc[r] \in TermPc THEN 1 ELSE 0)

Status(t) == IF st[t] = "new" THEN "none"
             ELSE IF st[t] = "done" THEN "closed" ELSE "open"

Global == INSTANCE GlobalFinish WITH
  entered <- [r \in Rank |-> Entered(r)],
  left <- [r \in Rank |-> Exited(r)],
  task <- [t \in Task |-> Status(t)]

\* finish_spmd's protocol implements the abstract global finish scope.
ImplementsGlobalFinish == Global!Spec

\* Every task handed to the runtime is executed, wherever it is sent and
\* although the communication workers park in the barrier and leave it again.
TasksAreExecuted == \A t \in Task : st[t] # "new" ~> st[t] = "done"

\* A barrier that is achieved releases every rank: nobody is left spinning in
\* the inner loop, and the finish returns everywhere.
AchievedReleasesAll ==
  \A r \in Rank : cb_count = N /\ pc[r] \in BarPc ~> pc[r] = "end"

\* A finish with nothing left to do ends: once no rank has work and none will
\* create any (all lambdas have returned), every rank leaves the loop.
IdleFinishEnds ==
  \A r \in Rank :
    (\A q \in Rank : InDetection(q) /\ Quiet(q)) ~> ~InDetection(r)
=============================================================================
