---------------------------- MODULE VictimSearch ----------------------------
(***************************************************************************)
(* What a search for work promises when victims are taken by their         *)
(* distance, with no tree and no array in it: each attempt takes one of    *)
(* the nearest of the other ranks this search has not tried yet.           *)
(***************************************************************************)
EXTENDS Integers, Sequences

CONSTANTS Rank,        \* the UPC++ ranks
          MaxDistance  \* the largest distance of two ranks

VARIABLES me,          \* the thief
          distance,    \* distance[r]: how far r is from it
          tried        \* the victims of the current search, in order

vars == <<me, distance, tried>>

Untried == {r \in Rank \ {me} : \A k \in DOMAIN tried : tried[k] # r}

Init == /\ me \in Rank /\ distance \in [Rank -> 0 .. MaxDistance]
        /\ tried = <<>>

Try(v) == /\ v \in Untried
          /\ \A u \in Untried : distance[v] =< distance[u]
          /\ tried' = Append(tried, v)
          /\ UNCHANGED <<me, distance>>

Again == tried' = <<>> /\ UNCHANGED <<me, distance>>

Next == (\E v \in Rank : Try(v)) \/ Again

Spec == Init /\ [][Next]_vars
=============================================================================
