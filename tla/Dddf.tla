-------------------------------- MODULE Dddf --------------------------------
(***************************************************************************)
(* One distributed data-driven future (DDDF) over its ranks.               *)
(*                                                                         *)
(* Each rank has a local future, a flag, and its part of a datum in global *)
(* memory.  One task, on any rank, puts the future.  A rank that awaits it *)
(* and is not its home asks the home, once, for the put: the home sends a  *)
(* copy of the datum and, after the copy's event, a task that puts the     *)
(* future there.  A put on another rank reaches the home in the same way.  *)
(* Communication tasks go through the rank's deque in order (CommDeque);   *)
(* UPC++ delivers each message once, at some time.  Tasks that arrive are  *)
(* run by computation workers, in any interleaving.                        *)
(***************************************************************************)
EXTENDS Integers, Sequences, FiniteSets

CONSTANTS N,        \* upcxx::global_ranks()
          Home,     \* DDF_HOME of the future
          Waiter,   \* tasks that await the future
          Putters   \* ranks on which the program may put it

ASSUME NAssumption == N \in Nat \ {0}
Rank == 0 .. N-1
ASSUME HomeAssumption == Home \in Rank /\ Putters \subseteq Rank

NONE == -1                           \* put_initiator_rank before any put
Value == {"null", "garbage", "data"} \* "garbage": memory nobody has written

VARIABLES
  val,          \* value of the local future; "null" before its ddf_put
  datum,        \* the rank's part of the shared array
  putRequestedFromHome,
  initiator,    \* put_initiator_rank
  failed,       \* an assertion, or the single-assignment rule, failed
  putter, ppc,  \* the rank that calls DDF_PUT, and where the call is
  rput,         \* DDF_PUT_remote from one rank to another: where it is
  event,        \* its upcxx::event
  home_put,     \* its DDF_PUT_home: where it is
  callback,     \* rank d's request to the home (DDF_PUT_callback)
  deq,          \* communication tasks of a rank
  where, wpc    \* rank of a waiter, and where its asyncAwait is

cells   == <<val, datum, initiator, failed>>
putting == <<putter, ppc>>
sending == <<rput, event, home_put>>
waiting == <<where, wpc>>
vars == <<val, datum, putRequestedFromHome, initiator, failed, putter, ppc,
          rput, event, home_put, callback, deq, where, wpc>>

\* Mutant: put_initiator_rank is left out of the initialisation.
Init_NoInitiator ==
  /\ val = [r \in Rank |-> "null"]
  /\ datum = [r \in Rank |-> "garbage"]
  /\ putRequestedFromHome = [r \in Rank |-> FALSE]
  /\ initiator = [r \in Rank |-> N]
  /\ failed = FALSE
  /\ putter = NONE /\ ppc = "none"
  /\ rput = [s \in Rank |-> [d \in Rank |-> "none"]]
  /\ event = [s \in Rank |-> [d \in Rank |-> "idle"]]
  /\ home_put = [s \in Rank |-> [d \in Rank |-> "none"]]
  /\ callback = [r \in Rank |-> "none"]
  /\ deq = [r \in Rank |-> <<>>]
  /\ where = [w \in Waiter |-> Home]
  /\ wpc = [w \in Waiter |-> "new"]

\* __ddfHandle, collective and ended by a barrier.
Init ==
  /\ val = [r \in Rank |-> "null"]
  /\ datum = [r \in Rank |-> "garbage"]
  /\ putRequestedFromHome = [r \in Rank |-> FALSE]
  /\ initiator = [r \in Rank |-> NONE]
  /\ failed = FALSE
  /\ putter = NONE /\ ppc = "none"
  /\ rput = [s \in Rank |-> [d \in Rank |-> "none"]]
  /\ event = [s \in Rank |-> [d \in Rank |-> "idle"]]
  /\ home_put = [s \in Rank |-> [d \in Rank |-> "none"]]
  /\ callback = [r \in Rank |-> "none"]
  /\ deq = [r \in Rank |-> <<>>]
  /\ where = [w \in Waiter |-> Home]
  /\ wpc = [w \in Waiter |-> "new"]

\* hcpp::ddf_put on rank r; a second one is an error.  asserted is what the
\* caller has asserted just before.
DdfPut(r, v, asserted) ==
  /\ failed' = (failed \/ ~asserted \/ val[r] # "null")
  /\ val' = [val EXCEPT ![r] = v]

PushComm(r, task) == deq' = [deq EXCEPT ![r] = Append(@, task)]

-----------------------------------------------------------------------------
(* DDF_PUT by the program: a task on rank p.                               *)

\* The local put comes first, and releases the waiters of this rank.
LocalPut(p) ==
  /\ putter = NONE /\ p \in Putters
  /\ putter' = p /\ ppc' = "initiator"
  /\ DdfPut(p, "data", TRUE)
  /\ UNCHANGED <<initiator, datum, putRequestedFromHome, sending, callback, deq, waiting>>

\* copy_datum_from_private_to_globalAddress: the assertion and the initiator,
MarkInitiator ==
  /\ ppc = "initiator"
  /\ failed' = (failed \/ initiator[putter] # NONE)
  /\ initiator' = [initiator EXCEPT ![putter] = putter]
  /\ ppc' = "copy"
  /\ UNCHANGED <<val, datum, putRequestedFromHome, putter, sending, callback,
                 deq, waiting>>

\* the memcpy, which only now makes the datum visible to copies,
CopyDatum ==
  /\ ppc = "copy"
  /\ datum' = [datum EXCEPT ![putter] = "data"]
  /\ ppc' = "flag"
  /\ UNCHANGED <<val, putRequestedFromHome, initiator, failed, putter, sending,
                 callback, deq, waiting>>

\* and the flag.  A put that is not at home goes on with DDF_PUT_remote.
MarkAvailable ==
  /\ ppc = "flag"
  /\ putRequestedFromHome' = [putRequestedFromHome EXCEPT ![putter] = TRUE]
  /\ ppc' = "done"
  /\ rput' = IF putter = Home THEN rput
                              ELSE [rput EXCEPT ![putter][Home] = "copy"]
  /\ UNCHANGED <<cells, putter, event, home_put, callback, deq, waiting>>

-----------------------------------------------------------------------------
(* DDF_PUT_remote from rank s to rank d, and what follows from it.         *)

\* Mutant: the task for the target is queued before the copy.
PushRemote_Swapped(s, d) ==
  /\ rput[s][d] \in {"copy", "after"}
  /\ PushComm(s, [op |-> IF rput[s][d] = "copy" THEN "after" ELSE "copy",
                  dst |-> d])
  /\ rput' = [rput EXCEPT ![s][d] = IF @ = "copy" THEN "after" ELSE "pushed"]
  /\ UNCHANGED <<cells, putRequestedFromHome, putting, event, home_put,
                 callback, waiting>>

\* _asyncCopy, then _asyncAfter: two communication tasks of rank s.
PushRemote(s, d) ==
  /\ rput[s][d] \in {"copy", "after"}
  /\ PushComm(s, [op |-> rput[s][d], dst |-> d])
  /\ rput' = [rput EXCEPT ![s][d] = IF @ = "copy" THEN "after" ELSE "pushed"]
  /\ UNCHANGED <<cells, putRequestedFromHome, putting, event, home_put,
                 callback, waiting>>

\* The communication worker takes the next task: upcxx::async_copy,
\* upcxx::async_after, or the upcxx::async of a request.
ExecComm(r) ==
  /\ deq[r] # <<>>
  /\ deq' = [deq EXCEPT ![r] = Tail(@)]
  /\ LET op == Head(deq[r]).op   d == Head(deq[r]).dst IN
       \/ /\ op = "copy"
          /\ event' = [event EXCEPT ![r][d] = "started"]
          /\ UNCHANGED <<home_put, callback>>
       \/ /\ op = "after"
          /\ home_put' = [home_put EXCEPT ![r][d] = "after"]
          /\ UNCHANGED <<event, callback>>
       \/ /\ op = "at"
          /\ callback' = [callback EXCEPT ![r] = "net"]
          /\ UNCHANGED <<event, home_put>>
  /\ UNCHANGED <<cells, putRequestedFromHome, putting, rput, waiting>>

\* The network copies the datum at some time and signals the event.
CopyArrives(s, d) ==
  /\ event[s][d] = "started"
  /\ datum' = [datum EXCEPT ![d] = datum[s]]
  /\ event' = [event EXCEPT ![s][d] = "done"]
  /\ UNCHANGED <<val, initiator, failed, putRequestedFromHome, putting, rput,
                 home_put, callback, deq, waiting>>

\* async_after fires once the event has nothing outstanding, and
\* async_at_received starts the task at the target.
ReceivePut(s, d) ==
  /\ home_put[s][d] = "after" /\ event[s][d] # "started"
  /\ home_put' = [home_put EXCEPT ![s][d] = "task"]
  /\ UNCHANGED <<cells, putRequestedFromHome, putting, rput, event, callback,
                 deq, waiting>>

\* The task: copy the datum to private memory, note the source, put.  One
\* step: the copy is this task's own until the put, and nobody reads the
\* initiator of a rank before there is a value (PutBack).
DDF_PUT_home(s, d) ==
  /\ home_put[s][d] = "task"
  /\ DdfPut(d, datum[d], initiator[d] = NONE)
  /\ initiator' = [initiator EXCEPT ![d] = s]
  /\ home_put' = [home_put EXCEPT ![s][d] = "done"]
  /\ UNCHANGED <<datum, putRequestedFromHome, putting, rput, event, callback,
                 deq, waiting>>

-----------------------------------------------------------------------------
(* A request of rank d at the home.                                        *)

\* async_at_received at the home, then the task that awaits the future there.
DDF_PUT_callback(d) ==
  /\ callback[d] = "net"
  /\ callback' = [callback EXCEPT ![d] = "await"]
  /\ UNCHANGED <<cells, putRequestedFromHome, putting, sending, deq, waiting>>

\* Mutant: the put goes back to the rank it came from.
PutBack_Always(d) ==
  /\ callback[d] = "await" /\ val[Home] # "null"
  /\ callback' = [callback EXCEPT ![d] = "done"]
  /\ rput' = [rput EXCEPT ![Home][d] = "copy"]
  /\ UNCHANGED <<cells, putRequestedFromHome, putting, event, home_put, deq,
                 waiting>>

\* Mutant: the request does not await the future at home.
PutBack_NotAwaited(d) ==
  /\ callback[d] = "await"
  /\ callback' = [callback EXCEPT ![d] = "done"]
  /\ rput' = IF initiator[Home] = d THEN rput
                                    ELSE [rput EXCEPT ![Home][d] = "copy"]
  /\ UNCHANGED <<cells, putRequestedFromHome, putting, event, home_put, deq,
                 waiting>>

\* Released by the put at home: send the datum to d, unless it came from d.
PutBack(d) ==
  /\ callback[d] = "await" /\ val[Home] # "null"
  /\ callback' = [callback EXCEPT ![d] = "done"]
  /\ rput' = IF initiator[Home] = d THEN rput
                                    ELSE [rput EXCEPT ![Home][d] = "copy"]
  /\ UNCHANGED <<cells, putRequestedFromHome, putting, event, home_put, deq,
                 waiting>>

-----------------------------------------------------------------------------
(* asyncAwait by the program, with dddf_register_callback.                 *)

StepWaiter(w, p) == wpc' = [wpc EXCEPT ![w] = p] /\ UNCHANGED where

\* The home's own waiters need no request.
Await(w, r) ==
  /\ wpc[w] = "new"
  /\ where' = [where EXCEPT ![w] = r]
  /\ wpc' = [wpc EXCEPT ![w] = IF r = Home THEN "wait" ELSE "get"]
  /\ UNCHANGED <<cells, putRequestedFromHome, putting, sending, callback, deq>>

\* 1. Is the put data already available?
CheckGet(w) ==
  /\ wpc[w] = "get"
  /\ StepWaiter(w, IF val[where[w]] # "null" THEN "wait" ELSE "request")
  /\ UNCHANGED <<cells, putRequestedFromHome, putting, sending, callback, deq>>

\* Mutant: the result of the compare-and-swap is taken the wrong way round.
CasRequest_Inverted(w) ==
  /\ wpc[w] = "request"
  /\ StepWaiter(w, IF putRequestedFromHome[where[w]] THEN "send" ELSE "wait")
  /\ putRequestedFromHome' = [putRequestedFromHome EXCEPT ![where[w]] = TRUE]
  /\ UNCHANGED <<cells, putting, sending, callback, deq>>

\* 2. Only the first to set the flag goes on to ask.
CasRequest(w) ==
  /\ wpc[w] = "request"
  /\ StepWaiter(w, IF putRequestedFromHome[where[w]] THEN "wait" ELSE "send")
  /\ putRequestedFromHome' = [putRequestedFromHome EXCEPT ![where[w]] = TRUE]
  /\ UNCHANGED <<cells, putting, sending, callback, deq>>

\* 3. asyncAt(home, DDF_PUT_callback).
SendRequest(w) ==
  /\ wpc[w] = "send"
  /\ putRequestedFromHome' = [putRequestedFromHome EXCEPT ![where[w]] = TRUE]
  /\ PushComm(where[w], [op |-> "at", dst |-> Home])
  /\ StepWaiter(w, "wait")
  /\ UNCHANGED <<cells, putting, sending, callback>>

\* The local future releases the waiter.
RunWaiter(w) ==
  /\ wpc[w] = "wait" /\ val[where[w]] # "null"
  /\ StepWaiter(w, "ran")
  /\ UNCHANGED <<cells, putRequestedFromHome, putting, sending, callback, deq>>

-----------------------------------------------------------------------------
Putting == MarkInitiator \/ CopyDatum \/ MarkAvailable
Remote(s, d) == \/ PushRemote(s, d) \/ CopyArrives(s, d)
                \/ ReceivePut(s, d) \/ DDF_PUT_home(s, d)
Request(d) == DDF_PUT_callback(d) \/ PutBack(d)
Awaiting(w) == CheckGet(w) \/ CasRequest(w) \/ SendRequest(w) \/ RunWaiter(w)

Next ==
  \/ \E p \in Rank : LocalPut(p)
  \/ Putting
  \/ \E s, d \in Rank : Remote(s, d)
  \/ \E r \in Rank : ExecComm(r) \/ Request(r)
  \/ \E w \in Waiter : Awaiting(w) \/ \E r \in Rank : Await(w, r)

Spec == Init /\ [][Next]_vars

\* Tasks that have started keep running, communication workers serve their
\* deques, and the network delivers.  The program need not put nor await.
Fairness ==
  /\ WF_vars(Putting)
  /\ \A s, d \in Rank :
       /\ WF_vars(PushRemote(s, d)) /\ WF_vars(CopyArrives(s, d))
       /\ WF_vars(ReceivePut(s, d) \/ DDF_PUT_home(s, d))
  /\ \A r \in Rank : WF_vars(ExecComm(r)) /\ WF_vars(Request(r))
  /\ \A w \in Waiter : WF_vars(Awaiting(w))

FairSpec == Spec /\ Fairness

-----------------------------------------------------------------------------
(* Properties.                                                             *)

\* Every variable has its type.
TypeOK ==
  /\ val \in [Rank -> Value] /\ datum \in [Rank -> Value \ {"null"}]
  /\ putRequestedFromHome \in [Rank -> BOOLEAN]
  /\ initiator \in [Rank -> Rank \cup {NONE}]
  /\ failed \in BOOLEAN
  /\ putter \in Rank \cup {NONE}
  /\ ppc \in {"none", "initiator", "copy", "flag", "done"}
  /\ rput \in [Rank -> [Rank -> {"none", "copy", "after", "pushed"}]]
  /\ event \in [Rank -> [Rank -> {"idle", "started", "done"}]]
  /\ home_put \in [Rank -> [Rank -> {"none", "after", "task", "done"}]]
  /\ callback \in [Rank -> {"none", "net", "await", "done"}]
  /\ deq \in [Rank -> Seq([op : {"copy", "after", "at"}, dst : Rank])]
  /\ where \in [Waiter -> Rank]
  /\ wpc \in [Waiter -> {"new", "get", "request", "send", "wait", "ran"}]

\* If the program puts the future once, no rank's future is put twice and the
\* assertions on put_initiator_rank hold (lines 138 and 173), whoever puts and
\* however requests, puts and put-backs cross on their way.
SingleAssignment == ~failed

\* A put that does not start at home reaches every rank with its datum: the
\* copy to the home is complete before the home's future is put, and thereby
\* before anything is sent on from there.
RemotePutIsComplete ==
  putter # Home => \A r \in Rank : val[r] # "garbage"

\* "When control is here, it means the DDF is ready with the put data"
\* (line 287): the same of a put at home.
PutIsComplete == \A r \in Rank : val[r] # "garbage"

\* What the future promises: see SharedFuture.
Future == INSTANCE SharedFuture WITH
  ready <- {r \in Rank : val[r] # "null"},
  state <- [w \in Waiter |-> IF wpc[w] \in {"new", "ran"} THEN wpc[w]
                                                         ELSE "waiting"],
  at <- where

\* Requests, copies and put tasks implement it: the future is put once, reaches
\* its home from the putter and other ranks from the home, only those on which
\* a task awaits it, and runs each task once, where it is ready.
ImplementsFuture == Future!Spec

\* Once the future is put somewhere, every task that awaits it runs, on every
\* rank, although only one request per rank is ever sent.
WaitersRun ==
  \A w \in Waiter : putter # NONE /\ wpc[w] # "new" ~> wpc[w] = "ran"
=============================================================================
