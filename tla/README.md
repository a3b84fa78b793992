# HabaneroUPC++ in TLA+

HabaneroUPC++ is a library for programs that run on many *places* (UPC++
ranks).  Inside a place, hclib ("hcpp") schedules asynchronous tasks on
computation workers; between places, one communication worker per place talks
to UPC++.  The program text is SPMD: every rank calls `finish_spmd`, spawns
local tasks (`async`), sends tasks to other ranks (`asyncAt`), copies memory
between ranks (`asyncCopy`), and the call returns when all of that is over
*everywhere*.  Whether it returns at the right moment is decided by a
distributed termination-detection protocol that the library implements itself.
That protocol, the deque it depends on, the stealing of tasks between places
and the futures that rest on them are the subject of these modules.

## 1. Inventory

| component | source | state | operations |
|---|---|---|---|
| global finish and termination detection | `src/hcupc_spmd.cpp` | `current_finish_counter`, `cb_count`, the phase of each rank, the list of `asyncCopy` events | `finish_spmd`, `hcpp_finish_barrier`, `cb_init`, `cbarrier_inc/dec/test`, `barrier`, `pop_execute_comm_task`, `send_taskto_comm_worker` |
| communication deque | `src/hcupc_spmd-semiConcDeque.cpp`, `inc/hcupc_spmd-atomics.h` | `DEQUE`, `deqHead`, `deqTail`, `lock` | `comm_task_push` (many workers), `comm_task_pop` (communication worker) |
| communication tasks | `inc/hcupc_spmd-commTask.h`, `inc/hcupc_spmd-runtime-interface.h` | the tasks in deques, on the network and at the target | `asyncAt`, `asyncCopy`, `async_at_received`, `async_after_asyncCopy` |
| in-flight counters, published load | `src/hcupc_spmd_distWS_common.cpp` | `asyncsInFlight[]`, `workAvail[]`, `received_tasks_origin[]`, `tasks_received` | `increment_task_in_flight_self`, `decrement_tasks_in_flight_count`, `total_asyncs_inFlight`, `publish_local_load_info`, `detectWork` |
| distributed work stealing (built with `DIST_WS`) | same file | `queued_thieves` (`head`, `tail`), `contacted_victims`, `req_thread[]`, `waitForTaskFromVictim[]`, `out_of_work` | baseline, success-only and GLB variants of steal and serve |
| victim selection, place tree | `inc/hcupc_spmd-random.h`, `src/hcupc_spmd-distHPT.cpp` | `last_steal`, the tree, `proximity` | `selectvictim`, `create_edison_topology`, `create_proximity_array` |
| distributed data-driven futures | `src/hcupc_spmd_dddf.cpp` | a `DDDF_t` per rank: datum, `put_initiator_rank`, `putRequestedFromHome` | `DDF_PUT`, `DDF_PUT_remote`, `DDF_PUT_home`, `DDF_PUT_callback`, `dddf_register_callback` |
| statistics | `src/hcupc_spmd_stats.cpp` | counters and a timeline | printing, `check_cyclicSteals` |
| distributed promises | `src/hcupc_spmd-distributed-promise.cpp` | | not compiled (absent from `src/Makefile.am`) |

How they interact.  A task (on a computation worker) counts a remote operation
in the finish counter and pushes it to the deque.  The communication worker
sits in `hcpp_finish_barrier`: it pops the deque, puts each operation in flight
(its own `asyncsInFlight` entry, in global memory), hands it to UPC++, and
counts it down from the finish counter.  `upcxx::advance()` runs what has
arrived: an async becomes a local task and its origin is noted.  Later in the
loop the *target* decrements the *origin's* in-flight counter.  A rank that sees
no local task and a zero sum of all in-flight counters enters the cancellable
barrier `cb_count`; it may leave again when work arrives; when all ranks are
inside, the finish is over.

In a `DIST_WS` build the same loop also steals.  A place whose workers are all
busy feeds others: it takes `asyncAny` tasks back from its own workers and ships
them.  A place with an idle worker marks itself idle and looks for work: it
writes its rank into a victim's request word, in global memory and under a lock,
and waits for its flag to be cleared; or it has itself queued at the victim by a
remote call and goes on.  Loads (`workAvail`) are published for thieves to read,
and the same array tells parked neighbours whether to leave the barrier.

What is hard.  The sum of the in-flight counters is taken by remote reads, one
at a time, with no lock.  Tasks keep arriving at ranks that are already in the
barrier.  A counter is incremented by one rank and decremented by another.  The
barrier's count is tested outside its lock and reset by every rank at each
finish.  The deque's full test is outside its lock, and its consumer never locks.
A request word is written by thieves under a lock and by its owner without it;
a queued thief is owed a task across finishes; a stolen task is, for a moment,
in nobody's finish counter.
The hazards with their lines are in `PROJECT.json`.

What makes each component correct: the finish never ends early anywhere, and
ends; the deque is a FIFO; a counter always equals what it counts; a stolen task
runs exactly once and a thief never waits for ever; a DDDF's waiters run once,
after the datum has reached their rank; a victim order is a permutation of the
other ranks.

## 2. Modules

| module | role |
|---|---|
| `GlobalFinish` | abstract specification: a global scope that ranks enter and leave, and tasks that are open or closed |
| `FinishSpmd` | `finish_spmd` in the default build: ranks, workers, network, counters, barrier |
| `FinishSpmd_proofs` | inductive invariant, its consequences, and the refinement of `GlobalFinish` |
| `MCFinishSpmd` | instances for TLC |
| `WorkStealing` | abstract specification of stealing: tasks that move to ranks that asked, and a scope nobody leaves too early |
| `DistWS` | the detection loop of the `DIST_WS` build with the four stealing protocols |
| `DistWS_proofs` | the request words: who waits for whom, whoever else steals |
| `DistWSSteal_proofs` | the inductive invariant of stealing: queue, counters, termination, with and without the cancelling of cyclic steals |
| `DistWSRefine_proofs` | `DistWS` implements `WorkStealing` |
| `MCDistWS` | instances for TLC (task symmetry) |
| `CommFifo` | abstract specification of the deque: a queue with the history of pushes and pops |
| `CommDeque` | the semi-concurrent deque, one step per shared-memory access |
| `CommDeque_proofs` | inductive invariant of the deque and the refinement of `CommFifo` |
| `MCCommDeque` | instances for TLC |
| `SharedFuture` | abstract specification of a DDDF: where it is ready, and which tasks await it where |
| `Dddf` | one distributed data-driven future: put, request, put-back, await |
| `Dddf_proofs` | inductive invariant of the future: single assignment, the copy before the put, and the refinement of `SharedFuture` |
| `MCDddf` | instances for TLC |
| `VictimSearch` | abstract specification of a search: other ranks, none twice, the nearest first |
| `DistHpt` | the distributed place tree, the victim order made from it, and a search in that order; the loops are steps |
| `DistHpt_proofs` | inductive invariant of those loops: the lists, the victim order, and the refinement of `VictimSearch` |
| `MCDistHpt` | instances for TLC (coordinates) |

### FinishSpmd

`pc[r]` is where rank `r`'s call of `finish_spmd` is: `cb_init`, the barrier
before the lambda (`notify1`, `wait1`), the `lambda`, the barrier at the start
of the loop (`notify2`, `wait2`), the loop (`pop` ... `sum`), the cancellable
barrier (`inc_test` ... `cb_test`), the last barrier (`notify3`, `wait3`), `end`.
`barrier()` is gasnet's split barrier: a notify, and a try that succeeds when
all have notified; `Arrived` counts a rank's notifies.

| variable | code |
|---|---|
| `finishCounter[r]` | `*current_finish_counter` |
| `asyncsInFlight[r]`, `workAvail[r]`, `cb_count` | the shared variables of those names |
| `deq[r]` | the communication deque, as the FIFO `CommDeque` implements |
| `received[r]` | `received_tasks_origin` and `tasks_received`: the code keeps numbers per origin, the model the set of operations, from which the numbers follow |
| `cur[r]` | the local `task` of `pop_execute_comm_task` |
| `sum[r]` | `i` and `pending_asyncs` of `total_asyncs_inFlight` |
| `st`, `home`, `dest` | what has become of a task, who created it, where it runs |
| `pushing[t]` | running task `t` is between the count and the push of `send_taskto_comm_worker` |
| `event_list[r]` | the list from `event_list_head`, as the set of the copies whose events are in it |

One action is one access to shared state, where two threads or ranks can
interleave: reading one counter of another rank, the locked increment of
`cb_count`, its test after the unlock, and so on.  Workers are the running
tasks: any number of them run at the same time, each may spawn, send and end
at any moment.  `BarrierStart` contains the reset of the finish counter because
nobody else touches it before the lambda runs.  `LambdaComm` counts and pushes
in one step: the communication worker starts on the deque after the lambda has
returned, so nobody can observe the difference.  `EndFinish` contains
`free_upcxx_event_list`, which follows `end_finish` on the thread that has just
found the finish counter at zero; it deletes every event of the list, fired or
not, so a copy that is still on the network would signal a deleted one
(`EventsOutliveCopies`).

Modelled from how the code uses it, hence external: UPC++ runs arrived
operations only inside `upcxx::advance()`, on the communication worker; a
message is delivered once, at some time; locks exclude; gasnet's barrier is
collective; the hclib task that ends decrements the counter of its finish.

### DistWS

The environment selects one of four protocols (`protocol`):

| protocol | a thief ... | a victim ... |
|---|---|---|
| `baseline` | probes random victims that show a load; writes its rank into the first free request word and waits | ships to the rank in its word, then frees the word; withdraws it when it goes idle |
| `successonly` | queues at random victims, each once at a time, and does not wait for tasks | ships to the thief at the head of its queue |
| `successonly_glb` | queues at its hypercube neighbours | as above |
| `glb` | makes some baseline attempts, then queues at the neighbours | both |

The process of rank `r` is its communication worker:

| `pc[r]` | code |
|---|---|
| `lambda`, `start` | the lambda, the barrier after it |
| `advance`, `incoming` | `upcxx::advance()`, `checkIncomingTasksFromLifelines` |
| `serve`, `steal`, `ship`, `renew`, `ship_advance` | no worker is idle: `serve_pending_distSteal_request_*`, `steal_from_my_computation_workers`, `ship_asyncAny_to_remote_thief` (its remote call, its write of the request word, its `advance`) |
| `publish` | `publish_local_load_info` |
| `invalidate`, `release` | a worker is idle: the locked part of `mark_myPlace_asIdle`, and the write that lets the thief go |
| `probe`, `request`, `wait_task` | `search_tasks_globally_synchronous`, `attempt_synchronous_steal`, `steal_from_victim_baseline` |
| `attempt`, `wait_ack` | `search_for_lifelines`, `attempt_steal_or_set_lifeline` |
| `pending`, `inc`, `inc_test`, `detect`, `cb_dec`, `cb_advance`, `left` | termination, as in `FinishSpmd` |

| variable | code |
|---|---|
| `req_thread[r]`, `waitForTaskFromVictim[r]` | the shared variables of those names |
| `queued_thieves[r]`, `head[r]`, `tail[r]`, `thieves_waiting[r]` | the ring of thieves and its flag |
| `contacted_victims[r]` | the array of that name, as the set of its members |
| `received_tasks_origin[r]` | shipments to be reported: numbers per origin in the code, the shipments themselves here |
| `workAvail[r]` | the published load, up to what is compared: not working, at most the threshold, more |
| `out_of_work[r]`, `current_glb_max_rand_attempts[r]` | the static variables of those names |
| `loc[r]` | locals of the loops: index, victim, whether a lifeline was set |
| `st[t]`, `place[t]` | whether a task is stealable (`any`), fixed (`async`), running, taken back from its workers (`stolen`), on the network or done; and where |
| `idle_workers[r]` | the count hclib keeps: a worker that finds nothing counts itself, one that takes a task from idleness stops doing so, one that goes from task to task never did |
| `net` | UPC++ calls that have not been run |
| `failed` | an `HASSERT` did not hold |

`Feed` and `MarkIdle` are the two branches of `initiate_global_steal`, which
compares `idle_workers` with a threshold (`IdleThreshold`): 0, or 2 in a place
with more than 12 workers.  The other tests of `idle_workers` (when to go on
taking tasks back, when to stop serving) compare with 0 in the code too.
`GlbRand` is what `HCPP_DIST_WS_GLB_RAND` may be: any integer below the number
of ranks, as only that bound is asserted; with 0 or less a place makes no random
attempt.

`failed` stops the system.  What `FinishSpmd` shows in detail is one step here:
a local task is counted and in its deque at once, and the barriers between
the phases are collective.  Requests, contacted victims, loads and the word keep
their values from one finish to the next, as in the code.  A random victim is
any other rank, whoever `selectvictim` returns; the round-robin order is a
special case.

`Stealing` is the refinement mapping.  A thief *waits* for `v` while its rank is
in `v`'s word (until the moment `v` has answered: between the shipment and the
reset of the word, `renew`, the rank in it is stale), or `v` is about to let it
go, or the tasks are on the network.  It is *queued* at `v` while it counts `v`
as contacted.

### CommDeque

Producers step through `comm_task_push`: the two reads of the size expression in
either order, the assertion, the CAS, the copy of the slot, `++deqTail`, the
unlock.  The consumer steps through `comm_task_pop`.  `pushed` and `popped` are
history variables for the refinement.  A failed assertion stops the process
(`aborted`).  `MaxOutstanding` says how many communication tasks the program
leaves outstanding: with at most `Size`, the deque is correct; with more, it is
not (run `deque_overrun`).

### Dddf

| variable | code |
|---|---|
| `val[r]` | value of `theDDF` on rank `r` (hclib); `"null"` until its `ddf_put` |
| `datum[r]` | `r`'s block of the shared array, `"garbage"` until written |
| `putRequestedFromHome[r]`, `initiator[r]` | the fields of `DDDF_t` (`put_initiator_rank`) |
| `putter`, `ppc` | the program's call of `DDF_PUT`: initiator, copy, flag, in the order of the code, after the local put |
| `rput[s][d]`, `event[s][d]`, `home_put[s][d]` | `DDF_PUT_remote` from `s` to `d`: its two communication tasks, its event, its `DDF_PUT_home` at `d` |
| `callback[d]` | rank `d`'s request at the home |
| `deq[r]` | the communication tasks of rank `r` that belong to the future, in order |
| `where[w]`, `wpc[w]` | the rank and the progress of an `asyncAwait` |

`failed` records a second put of a local future or a failed assertion on
`put_initiator_rank`.  The program puts the future at most once, on any rank;
that is the user's obligation (single assignment), and `SingleAssignment` says
the library keeps to it on every rank.  The copy of the datum reads its source
at some time between the start of `async_copy` and its event.  `DDF_PUT_home` is
one step, from the copy to private memory to `ddf_put`: that memory is the task's
own until it is put, the block it copies is not written any more once the event
has fired, and the initiator is read only by put-backs, which await the value.

`Future` is the refinement mapping to `SharedFuture`: the future is *ready* at
the ranks whose local future has been put, and a task is *waiting* from its
`asyncAwait` until it runs.  The local put is `Put`, the put task that arrives
at the home is `Bring`, one that the home sent to a rank that asked is
`Forward`; everything between (requests, copies, events, put-backs) stutters.

### DistHpt

A place of the tree (cabinet group, chassis, blade) is the path of ids from the
root to it, so `Parent` and `Id` need no state; `child`, `next` and `prev` are
the pointers of `place_t`, `workers` its ranks.  Every iteration of a loop of the
code is one step, so the module needs no recursion.

| `pc` | code |
|---|---|
| `add`, `walk` | `add_place`; the loop of `sortedInsertion` |
| `rank` | `add_rank_in_blade` |
| `ranks` | `add_ranks_inBlade_toProximityArray` |
| `around` | the loop of `create_proximity_array` that takes one place from the left and one from the right |
| `down`, `up` | the nested loops over the chassis and blades of a place, on the way in and on the way out |
| `ready` | the array is made; searches |

| variable | code |
|---|---|
| `topo`, `me` | `global_topology` after the all-gather, and the calling rank |
| `i`, `level` | the loop of `create_edison_topology`: rank `i`, and which of its three places is added next (4: its blade has been); in the walk, the level it goes round |
| `head` | the cursor of `sortedInsertion` |
| `cursor`, `side` | `x_left` and `x_right`, and whose turn it is |
| `at`, `index` | the place the nested loops have come to, and the position among its ranks |
| `victims` | `proximity` |
| `last_steal` | the position in it |
| `attempt`, `searches`, `chosen` | the loop of a search, and the victims it has taken (-1 stands for a read past the end) |

Going up from a place is the end of an inner loop: to the next sibling, or, when
there is none, out to the parent, until the place the walk was called for.
`EndSearch` is a steal that succeeds, a task that arrives, or the end of the
loop.  The code asserts at most four nodes on a blade; `add_rank_in_blade` is
not enabled for a fifth, the program having aborted.

`VictimSearch` is refined by the mapping of `chosen` to the ranks tried and of
`Distance`, the level at which two nodes meet, to the distance.

## 3. Runs

| run | instance | shows |
|---|---|---|
| `finish_async` | 2 ranks, 2 tasks, 2 finishes, fair | all safety of `FinishSpmd` (termination, exact counters, events that outlive their copies), that it implements `GlobalFinish`, that every task is executed and an achieved barrier releases all |
| `finish_livelock` | 2 ranks, 1 task, 1 finish, fair | violation: an idle finish need not end |
| `steal` | 2 ranks, 2 tasks on either rank, 2 finishes, `baseline` and `successonly` | no request, shipment or waiting thief is lost or counted twice, no assertion fails, no rank leaves too early; `DistWS` implements `WorkStealing` |
| `steal_lifelines` | 3 ranks, 1 task, 1 finish, `successonly_glb` and `glb` | the same of hypercube lifelines, and of two thieves that compete for a word |
| `steal_cyclic` | 2 ranks, 2 tasks, `successonly`, cyclic steals cancelled | violation: a shipment arrives that is no longer expected |
| `steal_hang` | 2 ranks, 1 task, `baseline`, fair | violation: a thief waits for ever for a victim in the barrier |
| `deque_fifo` | 3 producers, 2 pushes each, ring of 3, 3 outstanding | the deque is a FIFO, and every push is popped |
| `deque_overrun` | 2 producers, 2 pushes each, ring of 2, 3 outstanding | violation: the deque takes more entries than it has slots |
| `dddf` | 3 ranks, 2 waiters, one put on any rank, fair | no rank is put twice; a put away from home arrives complete; `Dddf` implements `SharedFuture`: only the home and ranks that await the future get it; every waiter runs |
| `dddf_stale` | 2 ranks, 1 waiter | violation: a put at home may reach a remote rank without its datum |
| `hpt_order` | 4 ranks placed in every way on 6 coordinates, every rank as `me`, 2 synchronous searches, fair | after each insertion the tree is complete, sorted and doubly linked; the victim order is complete, without repetition, nearest first; the loops end; a search implements `VictimSearch` |
| `hpt_lifelines` | 3 ranks, 2 coordinates, 1 success-only search | violation: the search goes one entry past the victim array |

Why the bounds are enough.  Two ranks already give every pair of roles (origin
and target, parked and working, first and last to enter, thief and victim), and
the sum over two counters can be inconsistent; two tasks allow one that sends
another, or two operations in flight; two finishes exercise the reset of the
barrier while another rank is still leaving the previous finish, and steal
requests that outlive a finish.  The safety theorems below hold for every number
of ranks, tasks and finishes, so the bounds limit only the liveness results.
In `steal` both ranks may create tasks, so each can be the other's thief; a
victim may take one task or both in a shipment (`StealN`), and a place has two
workers, so one can be idle while the other makes a task to steal.  The number
of hypercube neighbours is the natural logarithm of the number of ranks,
truncated: two ranks have none, so `successonly_glb` never steals there and `glb`
is `baseline` with fewer attempts; `steal_lifelines` takes three ranks for these
two, with one task, one worker and one finish.
Two thieves queued at one victim need a third rank and the `successonly`
protocol; that instance is too large for a run.  In `steal` a ring therefore never
has two entries, and `QueueSound` there is about the indices, their reset and the
flag; that a ring that wraps round holds no thief twice rests on the theorem
`QueueIsSound` alone, which holds for every number of ranks.
All stealing runs have `IdleThreshold = 0`, because a place of theirs has one or
two workers, and `steal_lifelines` has `GlbRand = {2}`, the largest value it may
have with three ranks; the theorems hold for the other values too.
In `deque_fifo` six pushes go twice
round the ring of three slots while three producers compete for the lock.
In `dddf`, three ranks are a
home, a putter and a third that only waits, in every assignment of the put, and
the two waiters race on one rank or request from two different ones.
The six coordinates of `hpt_order` are two blades of one chassis, a second
chassis of the same cabinet, one of the other cabinet of the group, and two
other groups, one to each side: with four ranks in every order a
list gets insertions at its front, middle and end and repeated ones, and the
walk has up to one blade and up to two chassis and groups on either side.
Tasks are interchangeable, so `steal` uses their symmetry; the runs with
liveness do not.  The deque and DDDF runs allow the system to stop: the
pushes are bounded and an assertion aborts, the future is put once and the
waiters run once; so do the place-tree runs, whose searches are counted.
The runs of `FinishSpmd` and `DistWS` check
deadlock (all ranks being finalized, or a failed assertion, is a stuttering
step).

The six violations:

* `deque_overrun`.  The test for a full deque is made before the lock is taken
  and is not repeated.  Two producers that both find one free slot both push.
  The assertion that should have stopped the program is never reached, and the
  oldest pending task is overwritten.
* `finish_livelock`.  `detectWork` compares the neighbour's load with
  `NOT_WORKING`, but in the default build an idle rank publishes 0.  A rank in
  the barrier therefore always believes its neighbour is working and leaves
  whenever the barrier is not yet achieved.  Ranks that take turns do so for
  ever.  Whether it happens is a matter of timing: a run in which the
  last rank enters while all others are inside ends properly.
* `dddf_stale`.  `DDF_PUT` puts the local future first and copies the datum to
  global memory afterwards.  If a remote rank has already asked, the put releases
  its put-back, which copies the global memory before it is written.  A put
  on another rank has no such race (`RemotePutIsComplete`): there the copy to
  the home is started after the datum is in place, and the home's future is put
  after the copy's event.
* `steal_cyclic`.  `queue_thief` forgets the victim this place has contacted as
  soon as that victim asks for a task in turn.  But the victim may already have
  shipped, or, as both requests crossed, may still have this place in its queue
  and ship later.  The shipment that arrives asserts that its sender is still
  contacted, and the place aborts.
* `steal_hang`.  A baseline victim with all workers busy takes the branch that
  feeds others.  If its last task ends there, it serves nobody (there is nothing
  to steal) and, as it has not searched, does not withdraw the pending request;
  it goes on to the cancellable barrier.  The thief waits for its flag, without
  looking at anything else, and the victim waits in the barrier for the thief,
  whose published load is `NOT_WORKING`.  The comment on the withdrawal says it
  gets the thief out of its loop.  (`glb` has the same branches and the same
  hang.)
* `hpt_lifelines`.  Without GLB, `search_for_lifelines` selects as many victims
  as there are ranks.  The random order can live with that; the place-tree order
  is an array of all *other* ranks, read from the start at each search, so the
  last selection of a fruitless search is whatever follows the array.  (The
  synchronous search makes one selection less and is right.)

## 4. Fairness

`FinishSpmd`: each communication worker and each worker inside a task is an OS
thread that is not stopped, so each is weakly fair.  A task that is not waiting
for anything ends, or goes on to spawn; spawning is never forced.  Delivery is
strongly fair, because each call of `upcxx::advance()` may return before it has
reached a given message: the message is not continuously, only repeatedly,
receivable.  Nothing is assumed about when a message arrives.

`DistWS`: each communication worker is weakly fair.  The workers need only go on
as a whole, because what they can do without new tasks is finite.  A place that
calls `upcxx::advance()` again and again runs what was sent to it, which is
strong fairness of arrivals per place for the reason above.  The only liveness
question asked is `ThiefIsReleased`, which fails.  That a stolen task runs, and
that a finish ends where no thief hangs, would need a graph too large for the
liveness check.

`CommDeque`: the communication worker calls `comm_task_pop` in its loop for
ever, and a worker inside `comm_task_push` keeps running.  Starting a push is not
fair.  The CAS is not strongly fair: `PushIsPopped` holds because pushes by the
others are finitely many in an instance, so a starving producer gets the lock
at last.

`Dddf`: started tasks, the communication workers and the network make progress;
the program need neither put nor await.

`DistHpt`: the tree and the array are made by one thread before the program
starts, so its next step (`Build`) is weakly fair; searches are not.

## 5. What is proved

`FinishSpmd_proofs`, for every `N`, every finite set of tasks, and every number
of finishes:

* `TypeCorrect`: type correctness, in-flight counters never negative;
* `FinishCounterIsExact`, `InFlightIsExact`: the finish counter and the in-flight
  counter of a rank equal the cardinality of the set of tasks each stands for;
* `BarrierCorrect`: `cb_count` is the number of ranks in the barrier;
* `ParkedRanksAreQuiet`: a rank in the barrier has nothing in flight and no
  unnoticed work;
* `TerminationIsSafe`: a rank leaves the loop only when nothing is left on any
  rank or on the network;
* `EventsAreKept`: the end of a finish deletes no event of a copy that is still
  on the network;
* `AchievedStays`: an achieved barrier stays achieved;
* `FinishImplementsGlobal`: the protocol implements `GlobalFinish`.

The argument is one inductive invariant, `IInv`:

* `TaskInv` ties a task's state to where it is referred to (deque, `cur`,
  `pushing`, `received`), and `DeqInv` says that a deque holds each of its tasks
  once; without them the cardinalities could not be counted step by step;
* `FinishCounterExact` and `InFlightExact`, the two counting invariants;
* `PhaseInv` says how far apart the phases of two ranks can be (the barriers),
  and `ResetInv` that between a rank's `cb_init` and the first lambda the count
  is zero: together they show that a late `cb_init` cannot reset the count of a
  running detection;
* `BarrierCount`;
* `QuietInv`, the heart.  The sum of the in-flight counters is not a snapshot.
  What makes it sound is that a rank's own counter is part of the sum, that only
  the rank itself can raise it, and that it cannot do so while it adds, because
  it has found no task to do so.  So once it has read its own entry and the
  partial sum is still zero, none of its operations is in flight; it enters the
  barrier like that, and the operations that can still reach it belong to ranks
  outside (`ParkedIsQuiet`);
* `TermInv`: when the barrier is achieved, everybody is in it, so nothing is in
  flight anywhere, so nothing can arrive, so nobody will ever work again.

`EventsAreKept` has an invariant of its own on top of `IInv`: an event is in the
list from the start of its copy, and the one step that empties the list is that
of a rank that has left the loop, when no copy is anywhere.

Each action of `Next` preserves each conjunct by its own step; actions that only
move a rank's `pc` share a lemma.

`CommDeque_proofs`, for any number of producers and any ring size, from the
assumption `MaxOutstanding =< Size` (the program never has more communication
tasks outstanding than the deque has slots): `DequeInvariant`, `DequeTypes`,
`WindowCorrect` and `DequeIsFifo`.  The assumption is what the code's own
assertion tries to enforce, and `deque_overrun` shows that the property fails
without it.

`DistWS_proofs`, for any number of ranks and tasks, any of the protocols, with
and without the cancelling of cyclic steals: `ThiefIsKnown` and
`SearcherIsClosed`, from `WordInvariant`.  The invariant gives each thief at most
one *holder*: the word with its rank, the victim about to let it go, or the
shipment on its way (`HolderInv`).  A thief with a holder waits, in `wait_task`
with its flag set, and one that waits has a holder (`WaitInv`).  So a thief that
has been let go is in no word, and one that waits is not let go twice.  Two
things make it inductive.  A word is taken only when it is available, and then
its owner has not marked itself out of work (`MarkAt`), hence does not search;
and a word the owner has answered but not yet freed (`renew`) is not a holder,
and cannot be taken.

`DistWSSteal_proofs`, for any number of ranks, tasks and finishes.  Without any
assumption on the cancelling of cyclic steals: `StealTypes`,
`ShipmentsAreCounted`, `RequestsAreConserved` (which speaks of executions without
cancelling), `ShippingHasAThief` and `StealTerminationIsSafe`.  When cyclic steals
are not cancelled (`Cancel = {FALSE}`): `AssertionsHold`, which fails otherwise
(`steal_cyclic`), and `QueueIsSound`: with cancelling, a place that is asked by the
victim it has contacted itself forgets that it has, and may contact it again while
its first request is still in the victim's queue.  It is then queued there twice.
All follow from `StealInvariant`:

* `LoopInv` ties what a place has in hand to where it is in the loop, and
  `ThiefInv` says that it has a thief for it.
* `MsgInv`: the tasks of a shipment under way are nowhere else and in no other
  shipment, so every shipment is a message of its own, and counting shipments
  counts messages.
* `FlightInv`: `InFlightExact` in the form that is preserved, with finite sets.
* `BarrierInv`, `ParkInv`: a rank in the barrier, or about to enter, has no
  shipment of its own in flight, and it has local work only if that has come with
  a shipment it has not reported yet, which is in the sender's counter.  It waits
  for nobody, because it is not in `wait_task`.  When all are inside, no shipment
  is in flight, so there is no work anywhere.
* `RingInv`, of every execution until an assertion fails: the indices of a ring
  are in order, its flag tells whether it is empty, and between the indices each
  entry is another rank.  When the cancelling compacts a ring, it keeps the
  entries that stay (`Dropped`, from `NewIndexOnto`: the new indices of the
  entries that stay are `0` to their number less one), so it leaves no stale
  entry to ship to.
* `LifelineInv`, when cyclic steals are not cancelled: no rank is in a ring twice
  (`RingAt`).  A thief counts a victim as contacted in exactly one of three
  cases: its request is on the network, it is in the victim's ring, or its
  answer is on the network (`OweAt`).  A ring without repetition has at most
  `N - 1` entries, so it does not overflow; an arrival of tasks finds its victim
  contacted.

The first five items and `WordInv` need nothing of the rings but that a place
with tasks for its queue has a thief there.  That is why termination stays safe
under the cancelling: what it breaks is the account of requests, not that of
shipments.

`DistWSRefine_proofs`, when cyclic steals are not cancelled:
`StealingIsImplemented`.  The invariant gets one conjunct more, that the tasks of
a message are still at their sender (`PlaceInv`), and each action is mapped to a
step or a stutter: taking the word to `Wait`, a withdrawal to `Refuse`, the
marking of a victim to `Queue`, the arrival of tasks to `Give`, the successful
test of the barrier to `Leave`.  Shipping is a stutter: the holder moves from the
word to the network.

`Dddf_proofs`, for any number of ranks and waiters and any home: `DddfTypes`,
`PutsAreSingle`, `RemotePutsAreComplete` and `FutureIsImplemented`, from
`DddfInvariant`.  A link leads to
the home from the putter, or from the home to a rank that asked, never to the
putter (`LinkInv`); a rank asks once, which is what `putRequestedFromHome` is for
(`RequestInv`); so each link is used once, and a rank is put by one link.  On a
link the copy comes before the task in the deque (`DeqInv`), the task runs after
the event (`StageInv`), and the event is set when the datum is there (`DataInv`).
The invariant says nothing of the datum of a put that starts at home, which is
where `dddf_stale` fails.

For `FutureIsImplemented` one conjunct is added, `AskInv`: a rank has a request at
the home, or on its way there, only if a task on it awaits the future.  With it a
put task at a rank is `Bring` or `Forward`: on the link from the putter to the
home, nobody but the putter has the future, because every other rank gets it from
the home; on any other link the home has it and the rank has asked.

`DistHpt_proofs`, for any number of ranks, any set of coordinates and any order
in which the ranks are added: `HptTypes`, `TreeIsSorted`, `OrderIsComplete`,
`OrderIsNearestFirst` and `SearchIsImplemented`, from `HptInvariant`:

* `FirstInv`, `NextInv`, `PrevInv` say which place each pointer leads to: the first
  child has the least id, the next sibling the least greater one, the previous
  the greatest smaller one, among the places added so far.  `FreshInv`: a place
  that is not in the tree has no siblings yet.  `PhaseInv` says that the cursor of
  `sortedInsertion` is a sibling with a smaller id, so an insertion after it is
  at the right position.
* `WorkersInv`: the ranks of a blade are those added on it, in ascending order.
* `CursorInv` and `AtInv`: the cursors are on either side of this rank's place,
  below the same parent, and the place the nested loops have come to is below
  the cursor whose turn it is.
* `VictimsInv`, the heart: a rank is in the array exactly if the loops have
  passed it (`Listed`), which says for every position of the loops, the side
  whose turn it is included, what has been passed: what is nearer, what lies
  between the cursors, and inside a place what comes before the position.  No
  rank is there twice.
* `NearestFirst` is a conjunct of its own: what is added next is at least as far
  as everything listed.
* `SearchInv`: what a search has chosen are the first victims of the array.

That the array has `N - 1` entries in the end follows from `VictimsInv` by
counting.  `SearchIsImplemented` assumes the synchronous search
(`Lifelines = FALSE`); for `search_for_lifelines` it is false, which is the
violation of `hpt_lifelines`.

Only model-checked: the liveness properties (`TasksAreExecuted`,
`AchievedReleasesAll`, `PushIsPopped`, `WaitersRun`, `OrderIsMade`), because
liveness under fairness is beyond the proof system's backends.  Every invariant
and every refinement that a passing run checks is also proved.

## 6. Not modelled, and why

* Nested `finish` scopes: a task inside one keeps its ancestor in the global
  scope running, so to the global finish it is part of that task.
* `asyncAt` and `asyncCopy` in a `DIST_WS` build: `FinishSpmd` has them without
  stealing, `DistWS` has stealing without them.  (Under the baseline protocol the
  code never reports them, see the hazards.)
* Victim orders: `DistHpt` has the place-tree order, `DistWS` any random order
  (round-robin included).  The torus-distance order (`__VS_DISTANCE__`) defines no
  `selectvictim` and cannot be built.
* The local future an `asyncCopy` may put, and the events of the copies of a
  DDDF, which are allocated by the task that puts, before the copy is queued; they
  are in the list for longer than those of `asyncCopy`, which `FinishSpmd` has.
  `DDF_FREE` is a barrier that frees nothing.
* `mark_myPlace_asBusy` and `size_thief_queue`: nobody calls them.
* Payloads, allocation of lambdas, statistics (except `check_cyclicSteals`),
  printing, program start.
* `int` overflow of counters and deque indices (listed as a hazard).
* Promises: not compiled.

## 7. What is left

1. A success-only place that goes idle a second time keeps its old load on
   display (a hazard without a property): a run that states it, together with
   its effect on parked neighbours.
2. Liveness of stealing: a smaller abstraction of `DistWS`, on the level of
   `WorkStealing` with holders, in which the end of a finish can be checked.
3. `asyncAt` in the `DIST_WS` loop, composed from `FinishSpmd` and `DistWS`.
4. A specification of stealing that allows for cancelled requests, so that the
   refinement holds up to the failing assertion.
