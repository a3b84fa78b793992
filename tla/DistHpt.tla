------------------------------ MODULE DistHpt -------------------------------
(***************************************************************************)
(* The distributed hierarchical place tree and the victim order made from  *)
(* it (the __VS_DIST_HPT__ build).  Every rank gathers the coordinates of  *)
(* all ranks, inserts them one by one into a tree of cabinet groups,       *)
(* chassis and blades whose siblings are doubly linked lists sorted by id, *)
(* and walks the tree outwards from its own blade.  A search for work then *)
(* takes the ranks in that order.  The loops of the code are steps.        *)
(***************************************************************************)
EXTENDS Integers, Sequences, FiniteSets, SequencesExt

CONSTANTS N,          \* upcxx::global_ranks()
          Coord,      \* [col, row, chasis, blade] a node may have
          Lifelines,  \* TRUE: search_for_lifelines, else the synchronous search
          MaxSearch   \* bound: searches the thief makes

EDISON_NODES_PER_BLADE == 4
Rank == 0 .. N-1

ASSUME NAssumption == N \in Nat \ {0}
ASSUME CoordAssumption ==
  Coord \subseteq [row : Nat, col : Nat, chasis : Nat, blade : Nat]
ASSUME SearchAssumption == Lifelines \in BOOLEAN /\ MaxSearch \in Nat

edison_cabinet_group_id(c) == 4 * c.row + c.col \div 2
edison_chasis_index_in_cabinet_group(c) ==
  IF c.col % 2 = 0 THEN c.chasis + 3 ELSE c.chasis

\* A place is the sequence of ids from the root to it.
Blade(c) == <<edison_cabinet_group_id(c),
              edison_chasis_index_in_cabinet_group(c), c.blade>>
Path(c, k) == SubSeq(Blade(c), 1, k)
root == <<>>
NULL == <<-1>>
Place == {Path(c, k) : c \in Coord, k \in 0 .. 3}
Id(p) == Last(p)
Parent(p) == Front(p)

VARIABLES
  topo, me,           \* gathered coordinates, and this rank
  pc,
  i, level,           \* place_coords[i], and the level that is being added or
                      \* walked around
  head,               \* sortedInsertion: the cursor
  child, next, prev,  \* links of the tree
  workers,            \* ranks of a blade, in the order they were added
  cursor, side,       \* x_left and x_right of the walk, and which one's turn
  at, index,          \* place whose ranks are being added, and which of them
  victims,            \* proximity
  last_steal, attempt, searches,
  chosen              \* victims of the current search; -1: read past the end

job == <<topo, me>>
tree == <<child, next, prev, workers>>
walk == <<cursor, side, at, index, victims>>
steal == <<last_steal, attempt, searches, chosen>>
vars == <<job, pc, i, level, head, tree, walk, steal>>

PlaceOf(r, k) == Path(topo[r], k)
Own(k) == PlaceOf(me, k)

Init ==
  /\ topo \in [Rank -> Coord] /\ me \in Rank
  /\ pc = "add" /\ i = 0 /\ level = 1 /\ head = NULL
  /\ child = [p \in Place |-> NULL]
  /\ next = [p \in Place |-> NULL]
  /\ prev = [p \in Place |-> NULL]
  /\ workers = [p \in Place |-> <<>>]
  /\ cursor = [left |-> NULL, right |-> NULL] /\ side = "left"
  /\ at = NULL /\ index = 0 /\ victims = <<>>
  /\ last_steal = 0 /\ attempt = 0 /\ searches = 0 /\ chosen = <<>>

-----------------------------------------------------------------------------
(* create_edison_topology                                                  *)

\* The place of rank i at the current level: found, or now in the tree.
New == PlaceOf(i, level)
Placed == /\ pc' = IF level = 3 THEN "rank" ELSE "add"
          /\ level' = level + 1 /\ head' = NULL

AddFirst ==
  /\ child[Parent(New)] = NULL
  /\ child' = [child EXCEPT ![Parent(New)] = New]
  /\ UNCHANGED <<next, prev>>
  /\ Placed

Found(p) == /\ p # NULL /\ Id(p) = Id(New)
            /\ UNCHANGED <<child, next, prev>>
            /\ Placed

InsertBefore(h) ==
  /\ h # NULL /\ Id(h) > Id(New)
  /\ next' = [next EXCEPT ![New] = h]
  /\ prev' = [prev EXCEPT ![h] = New]
  /\ child' = [child EXCEPT ![Parent(New)] = New]
  /\ Placed

StartWalk(h) == /\ h # NULL /\ Id(h) < Id(New)
                /\ head' = h /\ pc' = "walk"
                /\ UNCHANGED <<child, next, prev, level>>

\* add_place, and sortedInsertion up to its loop.
add_place ==
  /\ pc = "add"
  /\ LET h == child[Parent(New)] IN
       AddFirst \/ Found(h) \/ InsertBefore(h) \/ StartWalk(h)
  /\ UNCHANGED <<job, i, workers, walk, steal>>

\* Variant: the old successor keeps pointing back over the new place.
InsertAfter_NoPrev(h) ==
  /\ next[h] = NULL \/ Id(next[h]) > Id(New)
  /\ next' = [next EXCEPT ![New] = next[h], ![h] = New]
  /\ prev' = [prev EXCEPT ![New] = h]
  /\ UNCHANGED child
  /\ Placed

InsertAfter(h) ==
  /\ next[h] = NULL \/ Id(next[h]) > Id(New)
  /\ next' = [next EXCEPT ![New] = next[h], ![h] = New]
  /\ prev' = [q \in Place |-> IF q = New THEN h
                              ELSE IF q = next[h] THEN New ELSE prev[q]]
  /\ UNCHANGED child
  /\ Placed

\* Variant: the cursor stays where it is.
NextSibling_Stuck(h) ==
  /\ next[h] # NULL /\ Id(next[h]) < Id(New)
  /\ UNCHANGED <<head, pc, child, next, prev, level>>

NextSibling(h) ==
  /\ next[h] # NULL /\ Id(next[h]) < Id(New)
  /\ head' = next[h]
  /\ UNCHANGED <<pc, child, next, prev, level>>

\* The loop of sortedInsertion.
sortedInsertion ==
  /\ pc = "walk"
  /\ Found(next[head]) \/ InsertAfter(head) \/ NextSibling(head)
  /\ UNCHANGED <<job, i, workers, walk, steal>>

\* A fifth rank on a blade aborts the program.
add_rank_in_blade ==
  LET b == PlaceOf(i, 3) IN
  /\ pc = "rank" /\ Len(workers[b]) < EDISON_NODES_PER_BLADE
  /\ workers' = [workers EXCEPT ![b] = Append(@, i)]
  /\ i' = i + 1
  /\ IF i' < N THEN pc' = "add" /\ level' = 1 /\ UNCHANGED at
     ELSE pc' = "ranks" /\ level' = 3 /\ at' = Own(3)
  /\ UNCHANGED <<job, head, child, next, prev, cursor, side, index, victims,
                 steal>>

-----------------------------------------------------------------------------
(* create_proximity_array                                                  *)

Link == [left |-> prev, right |-> next]
Other(s) == IF s = "left" THEN "right" ELSE "left"

\* The loop around this rank's place at level k.
WalkAround(k) ==
  /\ pc' = "around" /\ level' = k /\ side' = "left" /\ at' = NULL
  /\ cursor' = [s \in {"left", "right"} |-> Link[s][Own(k)]]

\* add_ranks_inBlade_toProximityArray: myrank is left out on its own blade.
AddRank ==
  LET r == workers[at][index + 1] IN
  /\ pc = "ranks" /\ index < Len(workers[at])
  /\ victims' = IF at = Own(3) /\ r = me THEN victims ELSE Append(victims, r)
  /\ index' = index + 1
  /\ UNCHANGED <<job, pc, i, level, head, tree, cursor, side, at, steal>>

EndRanks ==
  /\ pc = "ranks" /\ index = Len(workers[at])
  /\ index' = 0
  /\ IF at = Own(3) THEN WalkAround(3)
     ELSE pc' = "up" /\ UNCHANGED <<level, cursor, side, at>>
  /\ UNCHANGED <<job, i, head, tree, victims, steal>>

\* One from the left, one from the right, ...
Turn ==
  /\ pc = "around"
  /\ IF cursor[side] # NULL
     THEN pc' = "down" /\ at' = cursor[side] /\ UNCHANGED side
     ELSE /\ side = "left" => cursor["right"] # NULL
          /\ side' = Other(side) /\ UNCHANGED <<pc, at>>
  /\ UNCHANGED <<job, i, level, head, tree, cursor, index, victims, steal>>

\* Variant: ... until one of them is used up (while left && right).
EndAround_And ==
  /\ pc = "around" /\ side = "left"
  /\ cursor["left"] = NULL \/ cursor["right"] = NULL
  /\ IF level = 1 THEN pc' = "ready" /\ UNCHANGED <<level, cursor, side, at>>
     ELSE WalkAround(level - 1)
  /\ UNCHANGED <<job, i, head, tree, index, victims, steal>>

\* ... until both are used up; then one level up.
EndAround ==
  /\ pc = "around" /\ side = "left"
  /\ cursor["left"] = NULL /\ cursor["right"] = NULL
  /\ IF level = 1 THEN pc' = "ready" /\ UNCHANGED <<level, cursor, side, at>>
     ELSE WalkAround(level - 1)
  /\ UNCHANGED <<job, i, head, tree, index, victims, steal>>

\* The nested loops over chassis and blades: the first in a place ...
Down ==
  /\ pc = "down"
  /\ IF Len(at) = 3 THEN pc' = "ranks" /\ UNCHANGED at
     ELSE IF child[at] = NULL THEN pc' = "up" /\ UNCHANGED at
     ELSE at' = child[at] /\ UNCHANGED pc
  /\ UNCHANGED <<job, i, level, head, tree, cursor, side, index, victims,
                 steal>>

\* Variant: the loop does not end with the place it was called for.
Up_PastTop ==
  /\ pc = "up"
  /\ IF next[at] # NULL THEN at' = next[at] /\ pc' = "down"
     ELSE at' = Parent(at) /\ UNCHANGED pc
  /\ UNCHANGED <<job, i, level, head, tree, cursor, side, index, victims,
                 steal>>

\* ... then the next, and when there is none, out of the loop.
Up ==
  /\ pc = "up" /\ at # cursor[side]
  /\ IF next[at] # NULL THEN at' = next[at] /\ pc' = "down"
     ELSE at' = Parent(at) /\ UNCHANGED pc
  /\ UNCHANGED <<job, i, level, head, tree, cursor, side, index, victims,
                 steal>>

Further ==
  /\ pc = "up" /\ at = cursor[side]
  /\ cursor' = [cursor EXCEPT ![side] = Link[side][at]]
  /\ pc' = "around" /\ side' = Other(side) /\ at' = NULL
  /\ UNCHANGED <<job, i, level, head, tree, index, victims, steal>>

create_proximity_array ==
  AddRank \/ EndRanks \/ Turn \/ EndAround \/ Down \/ Up \/ Further

-----------------------------------------------------------------------------
(* The search for a victim.                                                *)

Attempts == IF Lifelines THEN N ELSE N - 1

\* Variant: the position in the array is not reset.
StartSearch_NoReset ==
  /\ pc = "ready" /\ attempt = 0 /\ searches < MaxSearch
  /\ attempt' = 1 /\ chosen' = <<>> /\ searches' = searches + 1
  /\ UNCHANGED <<job, pc, i, level, head, tree, walk, last_steal>>

\* resetVictimArray
StartSearch ==
  /\ pc = "ready" /\ attempt = 0 /\ searches < MaxSearch
  /\ last_steal' = 0
  /\ attempt' = 1 /\ chosen' = <<>> /\ searches' = searches + 1
  /\ UNCHANGED <<job, pc, i, level, head, tree, walk>>

\* Variant: the position is advanced before it is used.
selectvictim_PreIncrement ==
  /\ attempt \in 1 .. Attempts
  /\ chosen' = Append(chosen, IF last_steal + 2 =< Len(victims)
                              THEN victims[last_steal + 2] ELSE -1)
  /\ last_steal' = last_steal + 1
  /\ attempt' = attempt + 1
  /\ UNCHANGED <<job, pc, i, level, head, tree, walk, searches>>

\* selectvictim; the attempt fails and the loop goes on.
selectvictim ==
  /\ attempt \in 1 .. Attempts
  /\ chosen' = Append(chosen, IF last_steal + 1 =< Len(victims)
                              THEN victims[last_steal + 1] ELSE -1)
  /\ last_steal' = last_steal + 1
  /\ attempt' = attempt + 1
  /\ UNCHANGED <<job, pc, i, level, head, tree, walk, searches>>

\* The search ends with a steal or a task, or when all have been tried.
EndSearch ==
  /\ attempt > 0
  /\ attempt' = 0
  /\ UNCHANGED <<job, pc, i, level, head, tree, walk, last_steal, searches,
                 chosen>>

Build == add_place \/ sortedInsertion \/ add_rank_in_blade
           \/ create_proximity_array
Search == StartSearch \/ selectvictim \/ EndSearch

Next == Build \/ Search

Spec == Init /\ [][Next]_vars

\* The array is made by one thread before anything else happens.
FairSpec == Spec /\ WF_vars(Build)

-----------------------------------------------------------------------------
(* Properties.                                                             *)

\* Every variable has its type.
TypeOK ==
  /\ topo \in [Rank -> Coord] /\ me \in Rank
  /\ pc \in {"add", "walk", "rank", "ranks", "around", "down", "up", "ready"}
  /\ i \in 0 .. N /\ level \in 1 .. 4
  /\ head \in Place \cup {NULL} /\ at \in Place \cup {NULL}
  /\ child \in [Place -> Place \cup {NULL}]
  /\ next \in [Place -> Place \cup {NULL}]
  /\ prev \in [Place -> Place \cup {NULL}]
  /\ workers \in [Place -> Seq(Rank)]
  /\ cursor \in [{"left", "right"} -> Place \cup {NULL}]
  /\ side \in {"left", "right"} /\ index \in Nat
  /\ victims \in Seq(Rank) /\ chosen \in Seq(Rank \cup {-1})
  /\ last_steal \in 0 .. Attempts /\ attempt \in 0 .. Attempts + 1
  /\ searches \in 0 .. MaxSearch

\* Places that have been added, and those below p.
InTree(q) == \E r \in Rank : /\ r < i \/ (r = i /\ Len(q) < level)
                            /\ q = PlaceOf(r, Len(q))
Added(p) == {q \in Place \ {root} : Parent(q) = p /\ InTree(q)}

IsFirst(p, S) == IF S = {} THEN p = NULL
                 ELSE p \in S /\ \A q \in S : Id(p) =< Id(q)
IsLast(p, S) == IF S = {} THEN p = NULL
                ELSE p \in S /\ \A q \in S : Id(q) =< Id(p)

\* In whatever order the places come, the first child, the next and the
\* previous sibling are those in the order of the ids, among all places added
\* so far: each list is complete, sorted, and can be walked backwards too.
ListsAreSorted ==
  \A p \in Place :
    LET siblings == Added(p) IN
      /\ IsFirst(child[p], siblings)
      /\ \A q \in siblings :
           /\ IsFirst(next[q], {s \in siblings : Id(s) > Id(q)})
           /\ IsLast(prev[q], {s \in siblings : Id(s) < Id(q)})

\* The victims are all other ranks, each once: the array of N-1 entries is
\* never overrun, and the asserts of line 409 hold.
VictimsAreTheOthers ==
  /\ Len(victims) =< N - 1
  /\ pc = "ready" => Len(victims) = N - 1 /\ ToSet(victims) = Rank \ {me}

\* How far up the tree this rank and r meet.
Distance(r) == IF PlaceOf(r, 3) = Own(3) THEN 0
               ELSE IF PlaceOf(r, 2) = Own(2) THEN 1
               ELSE IF PlaceOf(r, 1) = Own(1) THEN 2 ELSE 3

\* The same blade before the same chassis, before the same cabinet group,
\* before the rest (comments of lines 321-370).
NearestFirst ==
  \A j, k \in DOMAIN victims :
    j < k => Distance(victims[j]) =< Distance(victims[k])

\* A search tries the other ranks, none twice and the nearest first.
VictimSearch == INSTANCE VictimSearch WITH
  MaxDistance <- 3, distance <- [r \in Rank |-> Distance(r)], tried <- chosen
ImplementsVictimSearch == VictimSearch!Spec

\* Every loop over the tree comes to its end, and the array gets made.
OrderIsMade == <>(pc = "ready")

\* "check all other threads" (distWS_common, line 729): the loop of
\* search_for_lifelines selects a victim among the other ranks each time.
LifelinesAreOthers == ToSet(chosen) \subseteq Rank \ {me}
=============================================================================
