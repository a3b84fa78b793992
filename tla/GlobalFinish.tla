---------------------------- MODULE GlobalFinish ----------------------------
(***************************************************************************)
(* What finish_spmd promises, with no protocol in it.  Every rank opens    *)
(* the global finish scope, tasks are created inside it by any rank, and   *)
(* a rank may leave the scope only when every rank has opened it and no    *)
(* task is unfinished on any rank.  FinishSpmd is shown to implement this. *)
(***************************************************************************)
EXTENDS Integers

CONSTANTS Rank,        \* the UPC++ ranks ("places")
          Task,        \* task identities, each used once
          MaxFinish    \* bound: finish_spmd calls made by the program

VARIABLES entered,     \* entered[r]: scopes rank r has opened
          left,        \* left[r]: scopes rank r knows to be over
          task         \* task[t]: "none", "open" or "closed"

vars == <<entered, left, task>>

Init == /\ entered = [r \in Rank |-> 0]
        /\ left = [r \in Rank |-> 0]
        /\ task = [t \in Task |-> "none"]

\* The program text is SPMD: nobody opens scope k+1 before all left scope k.
Enter(r) == /\ entered[r] < MaxFinish
            /\ \A q \in Rank : left[q] >= entered[r]
            /\ entered' = [entered EXCEPT ![r] = @ + 1]
            /\ UNCHANGED <<left, task>>

\* A task is created only while no rank has left the current scope.
Create(t) == /\ task[t] = "none"
             /\ \E r \in Rank : /\ entered[r] > left[r]
                                /\ \A q \in Rank : left[q] =< left[r]
             /\ task' = [task EXCEPT ![t] = "open"]
             /\ UNCHANGED <<entered, left>>

Finish(t) == /\ task[t] = "open"
             /\ task' = [task EXCEPT ![t] = "closed"]
             /\ UNCHANGED <<entered, left>>

\* "this finish will end only if all the local and remote tasks terminates"
Leave(r) == /\ entered[r] > left[r]
            /\ \A q \in Rank : entered[q] >= entered[r]
            /\ \A t \in Task : task[t] # "open"
            /\ left' = [left EXCEPT ![r] = @ + 1]
            /\ UNCHANGED <<entered, task>>

Next == \/ \E r \in Rank : Enter(r) \/ Leave(r)
        \/ \E t \in Task : Create(t) \/ Finish(t)

Spec == Init /\ [][Next]_vars
=============================================================================
