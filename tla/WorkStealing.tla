---------------------------- MODULE WorkStealing ----------------------------
(***************************************************************************)
(* What distributed work stealing promises inside a finish scope, with no  *)
(* protocol in it.  A task runs once, where it is.  Before it runs, it may *)
(* be given to another rank, but only to one that has asked for it and has *)
(* not been answered yet.  A thief may wait for the answer, of one victim  *)
(* at a time, or be queued at many.  No rank leaves the scope while a task *)
(* is unfinished or a thief waits.  DistWS is shown to implement this.     *)
(***************************************************************************)
CONSTANTS Rank,        \* the UPC++ ranks ("places")
          Task         \* task identities, each used once

VARIABLES task,        \* task[t]: "none", "open", "running" or "closed"
          place,       \* place[t]: the rank that has it
          waiting,     \* <<thief, victim>>: the thief waits for the answer
          queued,      \* <<thief, victim>>: it does not, and is owed a task
          left         \* ranks that have left the scope

vars == <<task, place, waiting, queued, left>>

Init == /\ task = [t \in Task |-> "none"]
        /\ place \in [Task -> Rank]
        /\ waiting = {} /\ queued = {} /\ left = {}

Create(t, r) == /\ task[t] = "none" /\ left = {}
                /\ task' = [task EXCEPT ![t] = "open"]
                /\ place' = [place EXCEPT ![t] = r]
                /\ UNCHANGED <<waiting, queued, left>>

Start(t) == /\ task[t] = "open"
            /\ task' = [task EXCEPT ![t] = "running"]
            /\ UNCHANGED <<place, waiting, queued, left>>

Finish(t) == /\ task[t] = "running"
             /\ task' = [task EXCEPT ![t] = "closed"]
             /\ UNCHANGED <<place, waiting, queued, left>>

Wait(t, v) == /\ t # v /\ \A u \in Rank : <<t, u>> \notin waiting
              /\ waiting' = waiting \cup {<<t, v>>}
              /\ UNCHANGED <<task, place, queued, left>>

\* The thief is let go with nothing.
Refuse(t, v) == /\ <<t, v>> \in waiting
                /\ waiting' = waiting \ {<<t, v>>}
                /\ UNCHANGED <<task, place, queued, left>>

Queue(t, v) == /\ t # v /\ <<t, v>> \notin queued
               /\ queued' = queued \cup {<<t, v>>}
               /\ UNCHANGED <<task, place, waiting, left>>

\* One answer, with one or more tasks that have not been started.
Give(t, v, T) == /\ T # {} /\ \A u \in T : task[u] = "open" /\ place[u] = v
                 /\ place' = [u \in Task |-> IF u \in T THEN t ELSE place[u]]
                 /\ \/ /\ <<t, v>> \in waiting
                       /\ waiting' = waiting \ {<<t, v>>} /\ UNCHANGED queued
                    \/ /\ <<t, v>> \in queued
                       /\ queued' = queued \ {<<t, v>>} /\ UNCHANGED waiting
                 /\ UNCHANGED <<task, left>>

Leave(r) == /\ \A t \in Task : task[t] \in {"none", "closed"}
            /\ waiting = {}
            /\ left' = left \cup {r}
            /\ UNCHANGED <<task, place, waiting, queued>>

\* The next scope: who is owed a task still is.
Reopen == /\ left = Rank /\ left' = {}
          /\ UNCHANGED <<task, place, waiting, queued>>

Next == \/ \E t \in Task : Start(t) \/ Finish(t) \/ \E r \in Rank : Create(t, r)
        \/ \E t, v \in Rank : Wait(t, v) \/ Queue(t, v)
        \/ \E p \in waiting : Refuse(p[1], p[2])
        \/ \E p \in waiting \cup queued, T \in SUBSET Task : Give(p[1], p[2], T)
        \/ (\E r \in Rank : Leave(r)) \/ Reopen

Spec == Init /\ [][Next]_vars
=============================================================================
