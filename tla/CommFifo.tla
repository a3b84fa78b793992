------------------------------ MODULE CommFifo ------------------------------
(***************************************************************************)
(* What the semi-concurrent deque promises its users: a FIFO queue with    *)
(* many producers and one consumer, no entry lost, duplicated or altered.  *)
(***************************************************************************)
EXTENDS Naturals, Sequences

CONSTANT Entry

VARIABLES pushed,   \* every entry pushed so far, in order
          popped    \* every entry popped so far, in order

vars == <<pushed, popped>>

Init == pushed = <<>> /\ popped = <<>>

Push(e) == pushed' = Append(pushed, e) /\ UNCHANGED popped

Pop == /\ Len(popped) < Len(pushed)
       /\ popped' = Append(popped, pushed[Len(popped) + 1])
       /\ UNCHANGED pushed

Next == (\E e \in Entry : Push(e)) \/ Pop

Spec == Init /\ [][Next]_vars
=============================================================================
