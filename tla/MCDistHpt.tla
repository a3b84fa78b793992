----------------------------- MODULE MCDistHpt ------------------------------
(* Instances of DistHpt for TLC. *)
EXTENDS DistHpt

\* Two blades of one chassis, two further chassis, two further groups.
Near == [row : {1}, col : {3}, chasis : {1}, blade : {0, 1}]
Far  == {[row |-> 1, col |-> 3, chasis |-> 0, blade |-> 1],
         [row |-> 1, col |-> 2, chasis |-> 0, blade |-> 0],
         [row |-> 0, col |-> 5, chasis |-> 2, blade |-> 0],
         [row |-> 2, col |-> 0, chasis |-> 2, blade |-> 1]}
SomeCoords == Near \cup Far
FewCoords == [row : {0}, col : {0, 1}, chasis : {0}, blade : {0}]
=============================================================================
