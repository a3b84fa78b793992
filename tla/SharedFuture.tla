---------------------------- MODULE SharedFuture ----------------------------
(***************************************************************************)
(* What a distributed data-driven future promises, with no message in it.  *)
(* It is put once.  From where it is put it becomes ready at its home, and *)
(* from the home at ranks where a task awaits it, at each of them once.  A *)
(* task that awaits it runs once, after it has become ready at its rank.   *)
(***************************************************************************)
CONSTANTS Rank,        \* the UPC++ ranks
          Home,        \* where the future lives
          Waiter,      \* tasks that await it
          Putters      \* ranks on which the program may put it

VARIABLES ready,       \* ranks at which the future is ready
          state,       \* state[w]: "new", "waiting" or "ran"
          at           \* at[w]: the rank where it awaits the future

vars == <<ready, state, at>>

Init == /\ ready = {}
        /\ state = [w \in Waiter |-> "new"]
        /\ at \in [Waiter -> Rank]

Put(p) == /\ ready = {} /\ p \in Putters
          /\ ready' = {p}
          /\ UNCHANGED <<state, at>>

\* To the home, from the only rank that has it.
Bring == /\ Home \notin ready /\ \E p \in Rank : ready = {p}
         /\ ready' = ready \cup {Home}
         /\ UNCHANGED <<state, at>>

\* To a rank that has asked for it.
Forward(d) == /\ Home \in ready /\ d \notin ready
              /\ \E w \in Waiter : state[w] # "new" /\ at[w] = d
              /\ ready' = ready \cup {d}
              /\ UNCHANGED <<state, at>>

Await(w, r) == /\ state[w] = "new"
               /\ state' = [state EXCEPT ![w] = "waiting"]
               /\ at' = [at EXCEPT ![w] = r]
               /\ UNCHANGED ready

Run(w) == /\ state[w] = "waiting" /\ at[w] \in ready
          /\ state' = [state EXCEPT ![w] = "ran"]
          /\ UNCHANGED <<ready, at>>

Next == \/ \E p \in Rank : Put(p)
        \/ Bring \/ \E d \in Rank : Forward(d)
        \/ \E w \in Waiter : Run(w) \/ \E r \in Rank : Await(w, r)

Spec == Init /\ [][Next]_vars
=============================================================================
