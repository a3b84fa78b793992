------------------------------- MODULE DistWS -------------------------------
(***************************************************************************)
(* Distributed work stealing (the DIST_WS build): the detection loop with  *)
(* the four protocols the environment selects.                             *)
(*                                                                         *)
(*   baseline         a thief writes its rank into the victim's request    *)
(*                    word and waits for the victim to clear its flag;     *)
(*   successonly      a thief queues at the victim and goes on: the victim *)
(*                    sends a task when it has one;                        *)
(*   successonly_glb  the same, towards the hypercube neighbours only;     *)
(*   glb              some baseline attempts, then successonly_glb.        *)
(*                                                                         *)
(* The communication worker of rank r is the process pc[r].  Computation   *)
(* workers are the running tasks and the count of idle workers.  The       *)
(* bookkeeping of finish counter, deque and barrier phases, the same as in *)
(* the default build, is in FinishSpmd and not repeated: a communication   *)
(* task is executed in one step, and barriers are collective.              *)
(***************************************************************************)
EXTENDS Integers, FiniteSets

CONSTANTS N,           \* upcxx::global_ranks()
          Task,        \* task identities, each used at most once
          Protocols,   \* protocols the environment may select
          Cancel,      \* values HCPP_CANCEL_CYCLIC_STEALS may have
          GlbRand,     \* values HCPP_DIST_WS_GLB_RAND may have
          IdleThreshold, \* idle_workers_threshold: 2 above 12 workers, or 0
          Threshold,   \* task_transfer_threshold
          StealN,      \* HCPP_STEAL_N
          Workers,     \* computation workers of a rank
          Root,        \* ranks whose lambda creates tasks
          MaxFinish    \* bound: finish_spmd calls made by the program

\* Selecting a victim takes another rank.
ASSUME NAssumption == N \in Nat \ {0, 1}
ASSUME TaskAssumption == IsFiniteSet(Task)
ASSUME ChoiceAssumption ==
  /\ Protocols \subseteq {"baseline", "successonly", "successonly_glb", "glb"}
  /\ Cancel \subseteq BOOLEAN /\ Root \subseteq 0 .. N-1
ASSUME NumberAssumption ==
  /\ \A k \in GlbRand : k \in Int /\ k < N
  /\ IdleThreshold \in {0, 2}
  /\ Threshold \in Nat /\ StealN \in 1 .. 5
  /\ Workers \in Nat \ {0} /\ MaxFinish \in Nat \ {0}

Rank == 0 .. N-1
NOT_WORKING == -1
REQ_AVAILABLE == -1
REQ_UNAVAILABLE == -2
POPPED_ENTRY == -4

VARIABLES
  protocol, cyclic_steals_not_allowed, glb_max_rand_attempts, \* environment
  pc, round,
  loc,              \* locals of the loops: index, victim, found
  st, place,        \* life of a task, and the rank it is at
  idle_workers,
  net,              \* upcxx::async calls that have not been run yet
  workAvail,        \* published load: NOT_WORKING, or 0 for at most Threshold
                    \* tasks, or 1 for more
  asyncsInFlight, received_tasks_origin, cb_count,
  req_thread, waitForTaskFromVictim,
  contacted_victims, waiting_for_returnAsync,
  head, tail, queued_thieves, thieves_waiting,
  out_of_work, current_glb_max_rand_attempts,
  failed            \* an HASSERT did not hold

env == <<protocol, cyclic_steals_not_allowed, glb_max_rand_attempts>>
work == <<st, place, idle_workers>>
count == <<asyncsInFlight, received_tasks_origin>>
word == <<req_thread, waitForTaskFromVictim>>
queue == <<head, tail, queued_thieves, thieves_waiting>>
lifeline == <<contacted_victims, waiting_for_returnAsync, queue>>
mine == <<out_of_work, current_glb_max_rand_attempts>>
vars == <<env, pc, round, loc, work, net, workAvail, count, cb_count, word,
          lifeline, mine, failed>>

-----------------------------------------------------------------------------
\* upcxx::advance() is called here.
AdvancePc == {"advance", "ship_advance", "wait_ack", "wait_task", "cb_advance"}
BarPc == {"inc_test", "detect", "cb_dec", "cb_advance"}
Pc == {"lambda", "start", "incoming", "serve", "steal", "ship", "renew",
       "publish", "invalidate", "release", "attempt", "request", "probe",
       "pending", "inc", "left"} \cup AdvancePc \cup BarPc
TaskState == {"new", "any", "async", "run", "stolen", "net", "done"}

\* Variant: tasks that were stolen for this place do not count.
Pending_Own(r) == {t \in Task : place[t] = r /\ st[t] \in {"any", "run"}}

Pending(r) == {t \in Task : place[t] = r /\ st[t] \in {"any", "async", "run"}}

AsyncAny(r) == {t \in Task : place[t] = r /\ st[t] = "any"}
Stolen(r) == {t \in Task : place[t] = r /\ st[t] = "stolen"}
Running(r) == {t \in Task : place[t] = r /\ st[t] = "run"}

Sync == protocol \in {"baseline", "glb"}
Zero == [i |-> 0, victim |-> -1, found |-> FALSE]
Load(k) == IF k > Threshold THEN 1 ELSE 0
Msg(k, s, d, ts) == [kind |-> k, src |-> s, dst |-> d, tasks |-> ts]

\* The natural logarithm of n, truncated (n < 55).
Log(n) == Cardinality({k \in {3, 8, 21} : k =< n})

Init ==
  /\ protocol \in Protocols
  /\ cyclic_steals_not_allowed \in Cancel
  \* HCPP_DIST_WS_GLB_RAND is read by rank 0 only.
  /\ \E k \in IF protocol = "glb" THEN GlbRand ELSE {1} :
       glb_max_rand_attempts = [r \in Rank |-> IF r = 0 THEN k ELSE 1]
  /\ pc = [r \in Rank |-> "lambda"] /\ round = 1
  /\ loc = [r \in Rank |-> Zero]
  /\ st = [t \in Task |-> "new"] /\ place = [t \in Task |-> 0]
  /\ idle_workers = [r \in Rank |-> 0]
  /\ net = {}
  /\ workAvail = [r \in Rank |-> NOT_WORKING]
  /\ asyncsInFlight = [r \in Rank |-> 0] /\ cb_count = 0
  /\ received_tasks_origin = [r \in Rank |-> {}]
  /\ req_thread = [r \in Rank |-> REQ_UNAVAILABLE]
  /\ waitForTaskFromVictim = [r \in Rank |-> FALSE]
  /\ contacted_victims = [r \in Rank |-> {}]
  /\ waiting_for_returnAsync = [r \in Rank |-> FALSE]
  /\ head = [r \in Rank |-> -1] /\ tail = [r \in Rank |-> -1]
  /\ queued_thieves = [r \in Rank |-> [k \in Rank |-> POPPED_ENTRY]]
  /\ thieves_waiting = [r \in Rank |-> FALSE]
  /\ out_of_work = [r \in Rank |-> FALSE]
  /\ current_glb_max_rand_attempts = [r \in Rank |-> 0]
  /\ failed = FALSE

Goto(r, p) == pc' = [pc EXCEPT ![r] = p]
Step(r, p, q) == pc[r] = p /\ Goto(r, q)
received_tasks_from_victim(r) == received_tasks_origin[r] # {}

\* The shipments from o that r has yet to report: received_tasks_origin[o].
From(r, o) == {m \in received_tasks_origin[r] : m.src = o}

-----------------------------------------------------------------------------
(* The program: lambda and tasks.                                          *)

Create(u, r) ==
  /\ st[u] = "new"
  /\ st' = [st EXCEPT ![u] = "any"]
  /\ place' = [place EXCEPT ![u] = r]
  /\ UNCHANGED <<env, pc, round, loc, idle_workers, net, workAvail, count,
                 cb_count, word, lifeline, mine, failed>>

Spawn(u) ==
  \/ \E r \in Root : pc[r] = "lambda" /\ Create(u, r)
  \/ \E t \in Task : st[t] = "run" /\ Create(u, place[t])

\* A worker that has nothing to do registers as idle ...
WorkerIdle(r) ==
  /\ AsyncAny(r) = {} /\ \A t \in Task : place[t] = r => st[t] # "async"
  /\ idle_workers[r] + Cardinality(Running(r)) < Workers
  /\ idle_workers' = [idle_workers EXCEPT ![r] = @ + 1]
  /\ UNCHANGED <<env, pc, round, loc, st, place, net, workAvail, count,
                 cb_count, word, lifeline, mine, failed>>

\* ... and no longer when it takes a task.  A worker that has just finished
\* a task takes the next without having been idle.
TaskStart(t) ==
  /\ st[t] \in {"any", "async"}
  /\ Cardinality(Running(place[t])) < Workers
  /\ st' = [st EXCEPT ![t] = "run"]
  /\ IF idle_workers[place[t]] + Cardinality(Running(place[t])) = Workers
     THEN idle_workers' = [idle_workers EXCEPT ![place[t]] = @ - 1]
     ELSE UNCHANGED idle_workers
  /\ UNCHANGED <<env, pc, round, loc, place, net, workAvail, count, cb_count,
                 word, lifeline, mine, failed>>

TaskEnd(t) ==
  /\ st[t] = "run"
  /\ st' = [st EXCEPT ![t] = "done"]
  /\ UNCHANGED <<env, pc, round, loc, place, idle_workers, net, workAvail,
                 count, cb_count, word, lifeline, mine, failed>>

-----------------------------------------------------------------------------
(* finish_spmd around the loop.                                            *)

EndLambda(r) ==
  /\ Step(r, "lambda", "start")
  /\ UNCHANGED <<env, round, loc, work, net, workAvail, count, cb_count, word,
                 lifeline, mine, failed>>

\* The barrier after the lambda.
BarrierStart ==
  /\ \A r \in Rank : pc[r] = "start"
  /\ pc' = [r \in Rank |-> "advance"]
  /\ UNCHANGED <<env, round, loc, work, net, workAvail, count, cb_count, word,
                 lifeline, mine, failed>>

\* The last barrier and the first of the next finish_spmd: only the count of
\* the cancellable barrier starts anew, requests and loads stay.
Restart ==
  /\ round < MaxFinish /\ \A r \in Rank : pc[r] = "left"
  /\ round' = round + 1
  /\ pc' = [r \in Rank |-> "lambda"] /\ cb_count' = 0
  /\ UNCHANGED <<env, loc, work, net, workAvail, count, word, lifeline, mine,
                 failed>>

-----------------------------------------------------------------------------
(* The loop.  What upcxx::advance() runs is below (Receive).                *)

\* Variant: the entry of the origin is not reset.
decrement_tasks_in_flight_count_Kept(r, o) ==
  /\ asyncsInFlight' = [asyncsInFlight EXCEPT ![o] = @ - Cardinality(From(r, o))]
  /\ UNCHANGED received_tasks_origin

\* Variant: the thief counts its own counter down.
decrement_tasks_in_flight_count_Own(r, o) ==
  /\ asyncsInFlight' = [asyncsInFlight EXCEPT ![r] = @ - Cardinality(From(r, o))]
  /\ received_tasks_origin' = [received_tasks_origin EXCEPT ![r] = @ \ From(r, o)]

\* All that was received from o is reported at once.
decrement_tasks_in_flight_count(r, o) ==
  /\ asyncsInFlight' = [asyncsInFlight EXCEPT ![o] = @ - Cardinality(From(r, o))]
  /\ received_tasks_origin' = [received_tasks_origin EXCEPT ![r] = @ \ From(r, o)]

\* checkIncomingTasksFromLifelines: baseline does nothing.
ToReport(r) == protocol # "baseline" /\ received_tasks_from_victim(r)

ReportTo(r, o) ==
  /\ pc[r] \in {"advance", "incoming"} /\ ToReport(r)
  /\ From(r, o) # {}
  /\ Goto(r, "incoming")
  /\ decrement_tasks_in_flight_count(r, o)
  /\ UNCHANGED <<env, round, loc, work, net, workAvail, cb_count, word,
                 lifeline, mine, failed>>

\* All is reported: feed others or search.
Choose(r) == pc[r] \in {"advance", "incoming"} /\ ~ToReport(r)

-----------------------------------------------------------------------------
(* Feeding remote thieves.                                                 *)

\* Variant: without looking whether a request is pending.
renewed_as_victim_Always(r) ==
  IF AsyncAny(r) # {} THEN req_thread' = [req_thread EXCEPT ![r] = REQ_AVAILABLE]
  ELSE UNCHANGED req_thread

\* A place that has tasks accepts requests again.
renewed_as_victim(r) ==
  IF AsyncAny(r) # {} /\ req_thread[r] = REQ_UNAVAILABLE
  THEN req_thread' = [req_thread EXCEPT ![r] = REQ_AVAILABLE]
  ELSE UNCHANGED req_thread

\* Enough workers are idle to look for tasks on other ranks.
initiate_global_steal(r) == idle_workers[r] > IdleThreshold

\* No need to search: this place looks at the requests of others.
Feed(r) ==
  /\ Choose(r) /\ ~initiate_global_steal(r)
  /\ IF protocol = "glb"
     THEN /\ out_of_work' = [out_of_work EXCEPT ![r] = FALSE]
          /\ current_glb_max_rand_attempts' =
               [current_glb_max_rand_attempts EXCEPT ![r] = 0]
     ELSE UNCHANGED mine
  /\ IF Sync THEN renewed_as_victim(r) ELSE UNCHANGED req_thread
  /\ Goto(r, IF Sync /\ AsyncAny(r) = {} THEN "publish" ELSE "serve")
  /\ UNCHANGED <<env, round, loc, work, net, workAvail, count, cb_count,
                 waitForTaskFromVictim, lifeline, failed>>

Requested(r) == Sync /\ req_thread[r] >= 0

\* serve_pending_distSteal_request_synchronous, _asynchronous: whom to serve.
Serve(r) ==
  /\ \/ pc[r] = "serve"
     \/ pc[r] = "ship_advance" /\ protocol # "baseline"
  /\ \/ /\ Requested(r)
        /\ loc' = [loc EXCEPT ![r].victim = req_thread[r]]
        /\ out_of_work' = [out_of_work EXCEPT ![r] = FALSE]
        /\ Goto(r, "steal")
     \/ /\ ~Requested(r) /\ protocol # "baseline"
        /\ idle_workers[r] = 0 /\ thieves_waiting[r]
        /\ out_of_work' = [out_of_work EXCEPT ![r] = FALSE]
        /\ Goto(r, "steal") /\ UNCHANGED loc
     \/ /\ ~Requested(r)
        /\ protocol = "baseline" \/ idle_workers[r] > 0 \/ ~thieves_waiting[r]
        /\ out_of_work' = [out_of_work EXCEPT
                             ![r] = @ /\ protocol # "baseline"]
        /\ Goto(r, "publish") /\ UNCHANGED loc
  /\ UNCHANGED <<env, round, work, net, workAvail, count, cb_count, word,
                 lifeline, current_glb_max_rand_attempts, failed>>

\* steal_from_my_computation_workers: up to StealN tasks, one only as soon as
\* a worker is idle.
StealTask(r, t) ==
  /\ pc[r] = "steal" /\ t \in AsyncAny(r)
  /\ loc[r].i < StealN /\ (loc[r].i = 0 \/ idle_workers[r] = 0)
  /\ st' = [st EXCEPT ![t] = "stolen"]
  /\ loc' = [loc EXCEPT ![r].i = @ + 1]
  /\ UNCHANGED <<env, pc, round, place, idle_workers, net, workAvail, count,
                 cb_count, word, lifeline, mine, failed>>

\* Variant: once for each task.
INCREMENT_TASK_IN_FLIGHT_SELF_Each(r) ==
  asyncsInFlight' = [asyncsInFlight EXCEPT ![r] = @ + loc[r].i]

INCREMENT_TASK_IN_FLIGHT_SELF(r) ==
  asyncsInFlight' = [asyncsInFlight EXCEPT ![r] = @ + 1]

\* The shipment is put in flight, however many tasks it has.
EndSteal(r) ==
  /\ pc[r] = "steal"
  /\ \/ AsyncAny(r) = {} \/ loc[r].i = StealN
     \/ loc[r].i > 0 /\ idle_workers[r] > 0
  /\ IF loc[r].i > 0
     THEN INCREMENT_TASK_IN_FLIGHT_SELF(r) /\ Goto(r, "ship")
     ELSE Goto(r, "publish") /\ UNCHANGED asyncsInFlight
  /\ UNCHANGED <<env, round, loc, work, net, workAvail, received_tasks_origin,
                 cb_count, word, lifeline, mine, failed>>

Send(r, m) ==
  /\ net' = net \cup {m}
  /\ st' = [t \in Task |-> IF t \in Stolen(r) THEN "net" ELSE st[t]]
  /\ loc' = [loc EXCEPT ![r] = Zero]

\* Variant: the request word is not freed afterwards.
ShipSync_Kept(r) ==
  /\ Step(r, "ship", "ship_advance") /\ loc[r].victim >= 0
  /\ Send(r, Msg("sync", r, loc[r].victim, Stolen(r)))
  /\ UNCHANGED <<env, round, place, idle_workers, workAvail, count, cb_count,
                 word, lifeline, mine, failed>>

\* ship_asyncAny_to_remote_thief, to the thief of the request word ...
ShipSync(r) ==
  /\ Step(r, "ship", "renew") /\ loc[r].victim >= 0
  /\ Send(r, Msg("sync", r, loc[r].victim, Stolen(r)))
  /\ UNCHANGED <<env, round, place, idle_workers, workAvail, count, cb_count,
                 word, lifeline, mine, failed>>

\* Variant: the flag stays set when the last thief has gone.
pop_thief_Flag(r) ==
  LET last == head[r] + 1 = tail[r] IN
  /\ head' = [head EXCEPT ![r] = IF last THEN -1 ELSE @ + 1]
  /\ tail' = [tail EXCEPT ![r] = IF last THEN -1 ELSE @]
  /\ UNCHANGED <<thieves_waiting, queued_thieves>>

\* Both indices go back to -1 when the queue is empty.
pop_thief(r) ==
  LET last == head[r] + 1 = tail[r] IN
  /\ head' = [head EXCEPT ![r] = IF last THEN -1 ELSE @ + 1]
  /\ tail' = [tail EXCEPT ![r] = IF last THEN -1 ELSE @]
  /\ thieves_waiting' = [thieves_waiting EXCEPT ![r] = ~last]
  /\ UNCHANGED queued_thieves

\* ... or to the thief at the head of the queue.
ShipLifeline(r) ==
  LET thief == queued_thieves[r][(head[r] + 1) % N] IN
  /\ Step(r, "ship", "ship_advance") /\ loc[r].victim < 0
  /\ failed' = (head[r] = tail[r] \/ thief \notin Rank)
  /\ IF failed' THEN UNCHANGED <<net, st, loc, queue>>
     ELSE pop_thief(r) /\ Send(r, Msg("lifeline", r, thief, Stolen(r)))
  /\ UNCHANGED <<env, round, place, idle_workers, workAvail, count, cb_count,
                 word, contacted_victims, waiting_for_returnAsync, mine>>

\* The request word is free again, written without the lock.
Renew(r) ==
  /\ Step(r, "renew", "ship_advance")
  /\ req_thread' = [req_thread EXCEPT ![r] = REQ_AVAILABLE]
  /\ UNCHANGED <<env, round, loc, work, net, workAvail, count, cb_count,
                 waitForTaskFromVictim, lifeline, mine, failed>>

publish_local_load_info(r) ==
  /\ \/ pc[r] = "publish"
     \/ pc[r] = "ship_advance" /\ protocol = "baseline"
  /\ Goto(r, "pending")
  /\ workAvail' = [workAvail EXCEPT ![r] =
       Load(Cardinality(IF AsyncAny(r) # {} THEN AsyncAny(r) ELSE Pending(r)))]
  /\ loc' = [loc EXCEPT ![r] = Zero]
  /\ UNCHANGED <<env, round, work, net, count, cb_count, word, lifeline, mine,
                 failed>>

-----------------------------------------------------------------------------
(* Searching for tasks.                                                    *)

\* glb: random attempts come first, unless this place has made them all.
SearchPc(r) ==
  IF \/ protocol = "baseline"
     \/ /\ protocol = "glb"
        /\ current_glb_max_rand_attempts[r] < glb_max_rand_attempts[r]
  THEN "probe" ELSE "attempt"

\* Workers are idle: mark_myPlace_asIdle, unless it is marked already.
MarkIdle(r) ==
  /\ Choose(r) /\ initiate_global_steal(r)
  /\ IF out_of_work[r]
     THEN Goto(r, SearchPc(r)) /\ UNCHANGED <<out_of_work, workAvail>>
     ELSE /\ out_of_work' = [out_of_work EXCEPT ![r] = TRUE]
          /\ workAvail' = [workAvail EXCEPT ![r] = NOT_WORKING]
          /\ Goto(r, IF Sync THEN "invalidate" ELSE SearchPc(r))
  /\ UNCHANGED <<env, round, loc, work, net, count, cb_count, word, lifeline,
                 current_glb_max_rand_attempts, failed>>

\* Under the lock: no more requests ...
Invalidate(r) ==
  /\ pc[r] = "invalidate"
  /\ loc' = [loc EXCEPT ![r].victim = req_thread[r]]
  /\ req_thread' = [req_thread EXCEPT ![r] = REQ_UNAVAILABLE]
  /\ Goto(r, IF req_thread[r] >= 0 THEN "release" ELSE SearchPc(r))
  /\ UNCHANGED <<env, round, work, net, workAvail, count, cb_count,
                 waitForTaskFromVictim, lifeline, mine, failed>>

\* ... and the thief of the last one is let go.
Release(r) ==
  /\ Step(r, "release", SearchPc(r))
  /\ waitForTaskFromVictim' =
       [waitForTaskFromVictim EXCEPT ![loc[r].victim] = FALSE]
  /\ loc' = [loc EXCEPT ![r] = Zero]
  /\ UNCHANGED <<env, round, work, net, workAvail, count, cb_count, req_thread,
                 lifeline, mine, failed>>

\* search_tasks_globally_synchronous: one victim per iteration.
Probe(r) ==
  /\ pc[r] = "probe" /\ loc[r].i < N - 1
  /\ \E v \in Rank \ {r} :
       IF workAvail[v] > 0
       THEN loc' = [loc EXCEPT ![r].victim = v] /\ Goto(r, "request")
       ELSE loc' = [loc EXCEPT ![r].i = @ + 1] /\ UNCHANGED pc
  /\ UNCHANGED <<env, round, work, net, workAvail, count, cb_count, word,
                 lifeline, mine, failed>>

EndProbe(r) ==
  /\ Step(r, "probe", "pending") /\ loc[r].i = N - 1
  /\ loc' = [loc EXCEPT ![r] = Zero]
  /\ UNCHANGED <<env, round, work, net, workAvail, count, cb_count, word,
                 lifeline, mine, failed>>

\* Variant: any place that is not out of work is asked.
RequestSucceeds_NoTest(r) ==
  LET v == loc[r].victim IN
  /\ Step(r, "request", "wait_task") /\ req_thread[v] # REQ_UNAVAILABLE
  /\ waitForTaskFromVictim' = [waitForTaskFromVictim EXCEPT ![r] = TRUE]
  /\ req_thread' = [req_thread EXCEPT ![v] = r]
  /\ loc' = [loc EXCEPT ![r] = Zero]
  /\ UNCHANGED <<env, round, work, net, workAvail, count, cb_count, lifeline,
                 mine, failed>>

\* attempt_synchronous_steal, under the victim's lock.
RequestSucceeds(r) ==
  LET v == loc[r].victim IN
  /\ Step(r, "request", "wait_task") /\ req_thread[v] = REQ_AVAILABLE
  /\ waitForTaskFromVictim' = [waitForTaskFromVictim EXCEPT ![r] = TRUE]
  /\ req_thread' = [req_thread EXCEPT ![v] = r]
  /\ loc' = [loc EXCEPT ![r] = Zero]
  /\ UNCHANGED <<env, round, work, net, workAvail, count, cb_count, lifeline,
                 mine, failed>>

RequestFails(r) ==
  LET tried == current_glb_max_rand_attempts[r] + 1
      enough == protocol = "glb" /\ tried >= glb_max_rand_attempts[r]
  IN
  /\ pc[r] = "request" /\ req_thread[loc[r].victim] # REQ_AVAILABLE
  /\ IF protocol = "glb"
     THEN current_glb_max_rand_attempts' =
            [current_glb_max_rand_attempts EXCEPT ![r] = tried]
     ELSE UNCHANGED current_glb_max_rand_attempts
  /\ loc' = [loc EXCEPT ![r] = [Zero EXCEPT !.i = IF enough THEN 0
                                                  ELSE loc[r].i + 1]]
  /\ Goto(r, IF enough THEN "attempt" ELSE "probe")
  /\ UNCHANGED <<env, round, work, net, workAvail, count, cb_count, word,
                 lifeline, out_of_work, failed>>

\* Variant: the place goes on counting as out of work.
EndWait_Idle(r) ==
  /\ Step(r, "wait_task", "advance") /\ ~waitForTaskFromVictim[r]
  /\ workAvail' = [workAvail EXCEPT ![r] = 0]
  /\ req_thread' = [req_thread EXCEPT ![r] = REQ_AVAILABLE]
  /\ UNCHANGED <<env, round, loc, work, net, count, cb_count,
                 waitForTaskFromVictim, lifeline, mine, failed>>

\* steal_from_victim_baseline has returned, with a task or without.
EndWait(r) ==
  /\ Step(r, "wait_task", "advance") /\ ~waitForTaskFromVictim[r]
  /\ workAvail' = [workAvail EXCEPT ![r] = 0]
  /\ req_thread' = [req_thread EXCEPT ![r] = REQ_AVAILABLE]
  /\ out_of_work' = [out_of_work EXCEPT ![r] = FALSE]
  /\ current_glb_max_rand_attempts' =
       [current_glb_max_rand_attempts EXCEPT ![r] =
          IF protocol = "glb" THEN 0 ELSE @]
  /\ UNCHANGED <<env, round, loc, work, net, count, cb_count,
                 waitForTaskFromVictim, lifeline, failed>>

\* search_for_lifelines: as many victims as there are ranks, or the neighbours
\* in the hypercube.
UpperBound == IF protocol = "successonly" THEN N ELSE Log(N)
Victims(r, i) == IF protocol = "successonly" THEN Rank \ {r}
                 ELSE {(2^i + r) % N}

Thieves(r) == [k \in 1 .. tail[r] - head[r] |-> queued_thieves[r][(head[r] + k) % N]]

\* Variant: the victim is not marked.
mark_victimContacted_Not(r, v) == UNCHANGED <<contacted_victims, queue>>

\* The positions of the queue that stay when v is dropped, and the index each
\* gets: the number of those before it.
Kept(r, v) == {k \in DOMAIN Thieves(r) : Thieves(r)[k] # v}
NewIndex(K, k) == Cardinality({j \in K : j < k})

\* mark_victimContacted: a victim that is queued here as a thief is dropped,
\* if cyclic steals are to be cancelled.
mark_victimContacted(r, v) ==
  LET K == Kept(r, v)
      size == Cardinality(K)
  IN
  /\ contacted_victims' = [contacted_victims EXCEPT ![r] = @ \cup {v}]
  /\ IF cyclic_steals_not_allowed /\ K # DOMAIN Thieves(r)
     THEN /\ head' = [head EXCEPT ![r] = -1]
          /\ tail' = [tail EXCEPT ![r] = size - 1]
          /\ thieves_waiting' = [thieves_waiting EXCEPT ![r] = K # {}]
          /\ queued_thieves' = [queued_thieves EXCEPT ![r] =
               [i \in Rank |-> IF i < size
                               THEN Thieves(r)[CHOOSE k \in K : NewIndex(K, k) = i]
                               ELSE @[i]]]
     ELSE UNCHANGED queue

\* Variant: without victim_already_contacted.
Attempt_Again(r) ==
  /\ pc[r] = "attempt"
  /\ loc[r].i < UpperBound /\ ~received_tasks_from_victim(r)
  /\ \E v \in Victims(r, loc[r].i) :
       IF v = r \/ workAvail[v] =< 0
       THEN /\ loc' = [loc EXCEPT ![r].i = @ + 1]
            /\ UNCHANGED <<pc, net, lifeline>>
       ELSE /\ mark_victimContacted(r, v)
            /\ waiting_for_returnAsync' =
                 [waiting_for_returnAsync EXCEPT ![r] = TRUE]
            /\ net' = net \cup {Msg("steal", r, v, {})}
            /\ loc' = [loc EXCEPT ![r].found = TRUE]
            /\ Goto(r, "wait_ack")
  /\ UNCHANGED <<env, round, work, workAvail, count, cb_count, word, mine,
                 failed>>

\* attempt_steal_or_set_lifeline.
Attempt(r) ==
  /\ pc[r] = "attempt"
  /\ loc[r].i < UpperBound /\ ~received_tasks_from_victim(r)
  /\ \E v \in Victims(r, loc[r].i) :
       IF v = r \/ v \in contacted_victims[r] \/ workAvail[v] =< 0
       THEN /\ loc' = [loc EXCEPT ![r].i = @ + 1]
            /\ UNCHANGED <<pc, net, lifeline>>
       ELSE /\ mark_victimContacted(r, v)
            /\ waiting_for_returnAsync' =
                 [waiting_for_returnAsync EXCEPT ![r] = TRUE]
            /\ net' = net \cup {Msg("steal", r, v, {})}
            /\ loc' = [loc EXCEPT ![r].found = TRUE]
            /\ Goto(r, "wait_ack")
  /\ UNCHANGED <<env, round, work, workAvail, count, cb_count, word, mine,
                 failed>>

EndAck(r) ==
  /\ Step(r, "wait_ack", "attempt") /\ ~waiting_for_returnAsync[r]
  /\ loc' = [loc EXCEPT ![r].i = @ + 1]
  /\ UNCHANGED <<env, round, work, net, workAvail, count, cb_count, word,
                 lifeline, mine, failed>>

EndAttempt(r) ==
  /\ loc[r].i = UpperBound \/ received_tasks_from_victim(r)
  /\ Step(r, "attempt", IF loc[r].found THEN "advance" ELSE "pending")
  /\ loc' = [loc EXCEPT ![r] = Zero]
  /\ UNCHANGED <<env, round, work, net, workAvail, count, cb_count, word,
                 lifeline, mine, failed>>

-----------------------------------------------------------------------------
(* Run by upcxx::advance() at m.dst.                                       *)

Unwrap(m) ==
  /\ st' = [t \in Task |-> IF t \in m.tasks THEN "async" ELSE st[t]]
  /\ place' = [t \in Task |-> IF t \in m.tasks THEN m.dst ELSE place[t]]
  /\ net' = net \ {m}

queue_source_place_of_remoteTask(r, m) ==
  /\ out_of_work' = [out_of_work EXCEPT ![r] = FALSE]
  /\ received_tasks_origin' = [received_tasks_origin EXCEPT ![r] = @ \cup {m}]

\* A victim that owes a task is let off, if cyclic steals are to be cancelled.
queue_thief(r, t) ==
  /\ failed' = (tail[r] - N = head[r])
  /\ thieves_waiting' = [thieves_waiting EXCEPT ![r] = TRUE]
  /\ tail' = [tail EXCEPT ![r] = @ + 1]
  /\ queued_thieves' = [queued_thieves EXCEPT ![r][(tail[r] + 1) % N] = t]
  /\ contacted_victims' = [contacted_victims EXCEPT ![r] =
                             IF cyclic_steals_not_allowed THEN @ \ {t} ELSE @]

\* The thief is queued and the request acknowledged.
ReceiveRequest(m) ==
  /\ m.kind = "steal"
  /\ queue_thief(m.dst, m.src)
  /\ net' = (net \ {m}) \cup {Msg("ack", m.dst, m.src, {})}
  /\ UNCHANGED <<work, count, word, waiting_for_returnAsync, head, mine>>

receipt_of_stealRequest(m) ==
  /\ m.kind = "ack"
  /\ waiting_for_returnAsync' = [waiting_for_returnAsync EXCEPT ![m.dst] = FALSE]
  /\ net' = net \ {m}
  /\ UNCHANGED <<work, count, word, contacted_victims, queue, mine, failed>>

\* Variant: the victim stays marked.
unmark_victimContacted_Kept(r, v) ==
  failed' = (v \notin contacted_victims[r]) /\ UNCHANGED contacted_victims

unmark_victimContacted(r, v) ==
  /\ failed' = (v \notin contacted_victims[r])
  /\ contacted_victims' = [contacted_victims EXCEPT ![r] = @ \ {v}]

\* Tasks for a thief that has queued.
ReceiveLifeline(m) ==
  /\ m.kind = "lifeline"
  /\ Unwrap(m)
  /\ queue_source_place_of_remoteTask(m.dst, m)
  /\ unmark_victimContacted(m.dst, m.src)
  /\ UNCHANGED <<idle_workers, asyncsInFlight, word, waiting_for_returnAsync,
                 queue, current_glb_max_rand_attempts>>

\* Tasks for a thief that waits.
ReceiveSync(m) ==
  /\ m.kind = "sync"
  /\ Unwrap(m)
  /\ asyncsInFlight' = [asyncsInFlight EXCEPT ![m.src] = @ - 1]
  /\ waitForTaskFromVictim' = [waitForTaskFromVictim EXCEPT ![m.dst] = FALSE]
  /\ UNCHANGED <<idle_workers, received_tasks_origin, req_thread, lifeline,
                 mine, failed>>

Receive(m) ==
  /\ m \in net /\ pc[m.dst] \in AdvancePc
  /\ \/ ReceiveRequest(m) \/ receipt_of_stealRequest(m)
     \/ ReceiveLifeline(m) \/ ReceiveSync(m)
  /\ UNCHANGED <<env, pc, round, loc, workAvail, cb_count>>

-----------------------------------------------------------------------------
(* Termination, as in FinishSpmd.                                          *)

\* Local tasks are left: back to the loop.
CheckPending(r) ==
  /\ Step(r, "pending", "advance") /\ Pending(r) # {}
  /\ UNCHANGED <<env, round, loc, work, net, workAvail, count, cb_count, word,
                 lifeline, mine, failed>>

\* Variant: after the local tasks, nothing in flight is looked at.
ReadInFlight_Skip(r) ==
  /\ pc[r] = "pending" /\ Pending(r) = {}
  /\ loc' = [loc EXCEPT ![r] = Zero]
  /\ Goto(r, "inc")
  /\ UNCHANGED <<env, round, work, net, workAvail, count, cb_count, word,
                 lifeline, mine, failed>>

\* total_asyncs_inFlight.  A sum of natural numbers is 0 if each of them is, so
\* the first that is not decides.
ReadInFlight(r) ==
  LET i == loc[r].i IN
  /\ pc[r] = "pending" /\ Pending(r) = {}
  /\ IF asyncsInFlight[i] = 0 /\ i < N - 1
     THEN loc' = [loc EXCEPT ![r].i = i + 1] /\ UNCHANGED pc
     ELSE /\ loc' = [loc EXCEPT ![r] = Zero]
          /\ Goto(r, IF asyncsInFlight[i] = 0 THEN "inc" ELSE "advance")
  /\ UNCHANGED <<env, round, work, net, workAvail, count, cb_count, word,
                 lifeline, mine, failed>>

cbarrier_inc(r) ==
  /\ Step(r, "inc", "inc_test")
  /\ cb_count' = cb_count + 1
  /\ UNCHANGED <<env, round, loc, work, net, workAvail, count, word, lifeline,
                 mine, failed>>

cbarrier_test(r) ==
  /\ pc[r] \in {"inc_test", "cb_advance"}
  /\ Goto(r, IF cb_count = N THEN "left" ELSE "detect")
  /\ UNCHANGED <<env, round, loc, work, net, workAvail, count, cb_count, word,
                 lifeline, mine, failed>>

Detect(r) ==
  /\ Step(r, "detect", IF \/ received_tasks_from_victim(r)
                          \/ workAvail[(r + 1) % N] # NOT_WORKING
                       THEN "cb_dec" ELSE "cb_advance")
  /\ UNCHANGED <<env, round, loc, work, net, workAvail, count, cb_count, word,
                 lifeline, mine, failed>>

cbarrier_dec(r) ==
  /\ Step(r, "cb_dec", IF cb_count < N THEN "advance" ELSE "cb_advance")
  /\ cb_count' = IF cb_count < N THEN cb_count - 1 ELSE cb_count
  /\ UNCHANGED <<env, round, loc, work, net, workAvail, count, word, lifeline,
                 mine, failed>>

-----------------------------------------------------------------------------
CommStep(r) ==
  \/ EndLambda(r) \/ (\E o \in Rank : ReportTo(r, o))
  \/ Feed(r) \/ Serve(r) \/ (\E t \in Task : StealTask(r, t)) \/ EndSteal(r)
  \/ ShipSync(r) \/ ShipLifeline(r) \/ Renew(r) \/ publish_local_load_info(r)
  \/ MarkIdle(r) \/ Invalidate(r) \/ Release(r) \/ Probe(r) \/ EndProbe(r)
  \/ RequestSucceeds(r) \/ RequestFails(r) \/ EndWait(r)
  \/ Attempt(r) \/ EndAck(r) \/ EndAttempt(r)
  \/ CheckPending(r) \/ ReadInFlight(r) \/ cbarrier_inc(r)
  \/ cbarrier_test(r) \/ Detect(r) \/ cbarrier_dec(r)

\* Computation workers and barriers.
LocalStep ==
  \/ BarrierStart \/ Restart
  \/ \E r \in Rank : WorkerIdle(r)
  \/ \E t \in Task : TaskStart(t) \/ TaskEnd(t)

\* Nothing more to do, or stopped by an assertion.
Stopped == /\ failed \/ (round = MaxFinish /\ \A r \in Rank : pc[r] = "left")
           /\ UNCHANGED vars

Run ==
  \/ \E r \in Rank : CommStep(r)
  \/ LocalStep
  \/ \E t \in Task : Spawn(t)
  \/ \E m \in net : Receive(m)

Next == (~failed /\ Run) \/ Stopped

Spec == Init /\ [][Next]_vars

Arrival(d) == ~failed /\ \E m \in net : m.dst = d /\ Receive(m)

\* Each communication worker runs.  The computation workers take only finitely
\* many steps, so that some step is taken as long as there is one is enough.  A
\* place that calls advance() again and again runs what was sent to it (each
\* call may return before it gets there).
Fairness ==
  /\ \A r \in Rank : WF_vars(~failed /\ CommStep(r)) /\ SF_vars(Arrival(r))
  /\ WF_vars(~failed /\ LocalStep)

FairSpec == Spec /\ Fairness

-----------------------------------------------------------------------------
(* Properties.                                                             *)

Message == [kind : {"steal", "ack", "lifeline", "sync"},
            src : Rank, dst : Rank, tasks : SUBSET Task]

\* Every variable has its type.
TypeOK ==
  /\ protocol \in Protocols /\ cyclic_steals_not_allowed \in Cancel
  /\ glb_max_rand_attempts \in [Rank -> Int]
  /\ pc \in [Rank -> Pc] /\ round \in 1 .. MaxFinish
  /\ loc \in [Rank -> [i : Nat, victim : -2 .. N-1, found : BOOLEAN]]
  /\ st \in [Task -> TaskState] /\ place \in [Task -> Rank]
  /\ idle_workers \in [Rank -> 0 .. Workers]
  /\ net \subseteq Message
  /\ workAvail \in [Rank -> {NOT_WORKING, 0, 1}]
  /\ asyncsInFlight \in [Rank -> Nat] /\ cb_count \in 0 .. N
  /\ received_tasks_origin \in [Rank -> SUBSET Message]
  /\ req_thread \in [Rank -> Rank \cup {REQ_AVAILABLE, REQ_UNAVAILABLE}]
  /\ waitForTaskFromVictim \in [Rank -> BOOLEAN]
  /\ contacted_victims \in [Rank -> SUBSET Rank]
  /\ waiting_for_returnAsync \in [Rank -> BOOLEAN]
  /\ head \in [Rank -> Int] /\ tail \in [Rank -> Int]
  /\ queued_thieves \in [Rank -> [Rank -> Rank \cup {POPPED_ENTRY}]]
  /\ thieves_waiting \in [Rank -> BOOLEAN]
  /\ out_of_work \in [Rank -> BOOLEAN]
  /\ current_glb_max_rand_attempts \in [Rank -> Nat]
  /\ failed \in BOOLEAN

\* What r has shipped and no thief has reported yet.
Flying(r) ==
  {m \in net \cup UNION {received_tasks_origin[q] : q \in Rank} :
     m.src = r /\ m.tasks # {}}

\* The in-flight counter of a rank is the number of its shipments on the
\* network or not yet reported, plus the one about to be sent: whether the
\* thief reports them later (lifelines) or at once (request word).
InFlightExact ==
  \A r \in Rank :
    asyncsInFlight[r] =
      Cardinality(Flying(r)) + (IF pc[r] = "ship" THEN 1 ELSE 0)

\* No HASSERT of the thief queue and the contacted victims ever fails (lines
\* 233, 266, 282, 286, 551): the queue of a victim does not overflow, and tasks
\* arrive only from a victim that has been contacted.  Line 206 asserts what its
\* one caller has just tested (line 685), so there is nothing to record of it.
NoHassert == ~failed

\* Outside the cancelling mode a place owes a task exactly to the places that
\* count it as contacted: the request is on its way, queued at the victim, or
\* being answered, in one of these places only.
Outstanding(t, v) ==
  Cardinality({m \in net : \/ m.kind = "steal" /\ m.src = t /\ m.dst = v
                           \/ m.kind = "lifeline" /\ m.src = v /\ m.dst = t})
  + Cardinality({k \in DOMAIN Thieves(v) : Thieves(v)[k] = t})

RequestsConserved ==
  ~cyclic_steals_not_allowed =>
    \A t, v \in Rank :
      Outstanding(t, v) = IF v \in contacted_victims[t] THEN 1 ELSE 0

\* The flag thieves_waiting says whether the circular thief queue has an entry;
\* its entries are other places, each once.
QueueSound ==
  \A r \in Rank :
    /\ thieves_waiting[r] = (head[r] # tail[r])
    /\ \A k \in DOMAIN Thieves(r) : Thieves(r)[k] \in Rank \ {r}
    /\ \A j, k \in DOMAIN Thieves(r) : Thieves(r)[j] = Thieves(r)[k] => j = k

\* A place that waits for a task of its victim is known to exactly one place or
\* message that will clear its flag: the victim whose request word names it,
\* the shipment, or the victim that is just letting it go.  The request word is
\* written without the lock in between (line 529), so the place that is about
\* to write it no longer counts.
Holders(t) ==
  Cardinality({v \in Rank : req_thread[v] = t /\ pc[v] # "renew"})
  + Cardinality({m \in net : m.kind = "sync" /\ m.dst = t})
  + Cardinality({v \in Rank : pc[v] = "release" /\ loc[v].victim = t})

WaitingThiefIsKnown ==
  \A t \in Rank : Holders(t) = IF waitForTaskFromVictim[t] THEN 1 ELSE 0

\* A place that searches for tasks, or waits for them, accepts no request word:
\* mark_myPlace_asIdle does nothing when out_of_work is set already, so the word
\* has to be unavailable then.
SearcherAcceptsNone ==
  \A r \in Rank :
    (Sync /\ pc[r] \in {"release", "probe", "request", "wait_task", "attempt",
                        "wait_ack"})
      => req_thread[r] = REQ_UNAVAILABLE

\* No rank leaves finish_spmd while a task of the scope is unfinished at any
\* rank, is being stolen or is under way, or while a thief waits.
TerminationSafe ==
  (\E r \in Rank : pc[r] = "left") =>
    /\ \A t \in Task : st[t] \in {"new", "done"}
    /\ \A m \in net : m.tasks = {}
    /\ \A r \in Rank : asyncsInFlight[r] = 0 /\ ~waitForTaskFromVictim[r]

\* What work stealing promises: see WorkStealing.  A thief that waits for v is
\* in v's request word, in v's hands, or its tasks are on the way.
WaitsFor(t, v) ==
  \/ req_thread[v] = t /\ pc[v] # "renew"
  \/ pc[v] = "release" /\ loc[v].victim = t
  \/ \E m \in net : m.kind = "sync" /\ m.dst = t /\ m.src = v

Status(t) == CASE st[t] = "new" -> "none"
               [] st[t] = "run" -> "running"
               [] st[t] = "done" -> "closed"
               [] OTHER -> "open"

Stealing == INSTANCE WorkStealing WITH
  task <- [t \in Task |-> Status(t)],
  waiting <- {p \in Rank \X Rank : WaitsFor(p[1], p[2])},
  queued <- {p \in Rank \X Rank : p[2] \in contacted_victims[p[1]]},
  left <- {r \in Rank : pc[r] = "left"}

\* The protocols implement the abstract stealing of tasks (without the
\* cancelling of cyclic steals): a task moves only before it runs and only to a
\* place that has asked and is not answered yet, each request is answered once,
\* and the scope ends with nobody waiting and no task open.
ImplementsStealing == Stealing!Spec

\* "This will get the thief out of the while loop": a thief that waits for the
\* answer of a victim gets one.
ThiefIsReleased ==
  \A r \in Rank : waitForTaskFromVictim[r] ~> ~waitForTaskFromVictim[r]
=============================================================================
