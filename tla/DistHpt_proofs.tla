--------------------------- MODULE DistHpt_proofs ---------------------------
(***************************************************************************)
(* The place tree is sorted and complete, the victim order made from it is *)
(* a permutation of the other ranks with the nearest first, and a search   *)
(* takes them in this order: for every number of ranks and wherever they   *)
(* are placed.                                                             *)
(***************************************************************************)
EXTENDS DistHpt, FiniteSetTheorems, SequenceTheorems, TLAPS

-----------------------------------------------------------------------------
(* Places.                                                                 *)

LEMMA BladeIds ==
  ASSUME NEW c \in Coord
  PROVE  Blade(c) \in [1 .. 3 -> Nat] /\ Blade(c) \in Seq(Nat) /\ Len(Blade(c)) = 3
<1>1. c.row \in Nat /\ c.col \in Nat /\ c.chasis \in Nat /\ c.blade \in Nat
  BY CoordAssumption
<1>2. edison_cabinet_group_id(c) \in Nat
  BY <1>1 DEF edison_cabinet_group_id
<1>3. edison_chasis_index_in_cabinet_group(c) \in Nat
  BY <1>1 DEF edison_chasis_index_in_cabinet_group
<1> QED
  BY <1>1, <1>2, <1>3 DEF Blade

\* The path of a blade: each place on it is the parent of the next.
LEMMA PathFacts ==
  \A c \in Coord :
    /\ Path(c, 0) = root
    /\ \A k \in 0 .. 3 : Path(c, k) \in Place /\ Path(c, k) \in Seq(Nat) /\ Len(Path(c, k)) = k
    /\ \A k \in 1 .. 3 : Parent(Path(c, k)) = Path(c, k-1)
<1> SUFFICES ASSUME NEW c \in Coord
             PROVE  /\ Path(c, 0) = root
                    /\ \A k \in 0 .. 3 : Path(c, k) \in Place /\ Path(c, k) \in Seq(Nat) /\ Len(Path(c, k)) = k
                    /\ \A k \in 1 .. 3 : Parent(Path(c, k)) = Path(c, k-1)
  OBVIOUS
<1> DEFINE b == Blade(c)
<1>1. b \in Seq(Nat) /\ Len(b) = 3 /\ b \in [1 .. 3 -> Nat]
  BY BladeIds
<1> HIDE DEF b
<1>2. Path(c, 0) = root
  BY <1>1 DEF Path, root, b
<1>3. ASSUME NEW k \in 0 .. 3
      PROVE  /\ Path(c, k) \in Place /\ Path(c, k) \in Seq(Nat) /\ Len(Path(c, k)) = k
             /\ \A j \in 1 .. k : Path(c, k)[j] = b[j]
  <2>1. Path(c, k) = SubSeq(b, 1, k)
    BY DEF Path, b
  <2>2. \A j \in 1 .. k : b[j] \in Nat
    BY <1>1
  <2>3. /\ Path(c, k) \in Seq(Nat)
        /\ Len(Path(c, k)) = IF 1 <= k THEN k-1+1 ELSE 0
        /\ \A j \in 1 .. k-1+1 : Path(c, k)[j] = b[1+j-1]
    BY <2>1, <2>2, SubSeqProperties
  <2>4. Path(c, k) \in Place
    BY DEF Place
  <2> QED
    BY <2>3, <2>4
<1>4. ASSUME NEW k \in 1 .. 3
      PROVE  Parent(Path(c, k)) = Path(c, k-1)
  <2>1. k-1 \in 0 .. 3
    OBVIOUS
  <2>2. Parent(Path(c, k)) = SubSeq(Path(c, k), 1, k-1)
    <3>1. k \in 0 .. 3
      OBVIOUS
    <3>2. Len(Path(c, k)) = k
      BY <1>3, <3>1
    <3> QED
      BY <3>2 DEF Parent, Front
  <2>3. \A j \in 1 .. k-1 : Path(c, k)[j] \in Nat /\ Path(c, k)[j] = b[j]
    <3> SUFFICES ASSUME NEW j \in 1 .. k-1
                 PROVE  Path(c, k)[j] \in Nat /\ Path(c, k)[j] = b[j]
      OBVIOUS
    <3>1. j \in 1 .. k /\ j \in 1 .. 3 /\ k \in 0 .. 3
      OBVIOUS
    <3> QED
      BY <3>1, <1>3, <1>1
  <2>4. /\ Parent(Path(c, k)) \in Seq(Nat)
        /\ Len(Parent(Path(c, k))) = IF 1 <= k-1 THEN k-1-1+1 ELSE 0
        /\ \A j \in 1 .. k-1-1+1 : Parent(Path(c, k))[j] = Path(c, k)[1+j-1]
    BY <2>2, <2>3, SubSeqProperties
  <2>5. Path(c, k-1) \in Seq(Nat) /\ Len(Path(c, k-1)) = k-1
        /\ \A j \in 1 .. k-1 : Path(c, k-1)[j] = b[j]
    BY <1>3, <2>1
  <2>6. Len(Parent(Path(c, k))) = Len(Path(c, k-1))
    BY <2>4, <2>5
  <2>7. \A j \in 1 .. Len(Parent(Path(c, k))) : Parent(Path(c, k))[j] = Path(c, k-1)[j]
    BY <2>3, <2>4, <2>5
  <2> QED
    BY <2>4, <2>5, <2>6, <2>7, SeqEqual
<1> QED
  BY <1>2, <1>3, <1>4

LEMMA PlaceFacts ==
  /\ \A p \in Place : Len(p) \in 0 .. 3 /\ p # NULL /\ (p = root <=> Len(p) = 0)
  /\ \A p \in Place \ {root} :
       /\ Id(p) \in Nat /\ Parent(p) \in Place
       /\ Len(p) \in 1 .. 3 /\ Len(Parent(p)) = Len(p) - 1
<1>1. ASSUME NEW p \in Place
      PROVE  /\ Len(p) \in 0 .. 3 /\ p # NULL /\ (p = root <=> Len(p) = 0)
             /\ p # root => /\ Id(p) \in Nat /\ Parent(p) \in Place
                            /\ Len(p) \in 1 .. 3 /\ Len(Parent(p)) = Len(p) - 1
  <2>1. PICK c \in Coord, k \in 0 .. 3 : p = Path(c, k)
    BY DEF Place
  <2>2. Len(p) = k /\ (k > 0 => Parent(p) = Path(c, k-1))
    <3>1. Len(Path(c, k)) = k
      BY PathFacts
    <3>2. k > 0 => k \in 1 .. 3
      OBVIOUS
    <3>3. k > 0 => Parent(Path(c, k)) = Path(c, k-1)
      BY <3>2, PathFacts
    <3> QED
      BY <2>1, <3>1, <3>3
  <2>3. k = 0 => p = root
    BY <2>1, PathFacts
  <2>4. \A j \in 1 .. k : p[j] \in Nat
    BY <2>1, BladeIds DEF Path
  <2>5. k > 0 => Id(p) \in Nat
    BY <2>2, <2>4 DEF Id, Last
  <2>6. p # NULL
    BY <2>2, <2>4 DEF NULL
  <2>7. p = root => k = 0
    BY <2>2 DEF root
  <2>8. k > 0 => Parent(p) \in Place /\ Len(Parent(p)) = k-1
    <3>1. k > 0 => k-1 \in 0 .. 3
      OBVIOUS
    <3> QED
      BY <2>2, <3>1, PathFacts
  <2> QED
    BY <2>2, <2>3, <2>5, <2>6, <2>7, <2>8
<1> QED
  BY <1>1

\* A place is known by its parent and its id.
LEMMA Siblings ==
  \A p, q \in Place \ {root} : Parent(p) = Parent(q) /\ Id(p) = Id(q) => p = q
<1> SUFFICES ASSUME NEW p \in Place \ {root}, NEW q \in Place \ {root},
                    Parent(p) = Parent(q), Id(p) = Id(q)
             PROVE  p = q
  OBVIOUS
<1>1. /\ p \in Seq(Nat) /\ q \in Seq(Nat)
      /\ Len(p) \in 1 .. 3 /\ Len(q) = Len(p)
  <2>1. p \in Seq(Nat) /\ q \in Seq(Nat)
    <3>1. ASSUME NEW r \in Place PROVE r \in Seq(Nat)
      <4>1. PICK c \in Coord, k \in 0 .. 3 : r = Path(c, k)
        BY DEF Place
      <4>2. Path(c, k) \in Seq(Nat)
        BY PathFacts
      <4> QED
        BY <4>1, <4>2
    <3> QED
      BY <3>1
  <2>2. Len(p) \in 1 .. 3 /\ Len(q) \in 1 .. 3 /\ Len(Parent(p)) = Len(p) - 1 /\ Len(Parent(q)) = Len(q) - 1
    BY PlaceFacts
  <2> QED
    BY <2>1, <2>2
<1>2. \A j \in 1 .. Len(p) - 1 : p[j] = Parent(p)[j] /\ q[j] = Parent(q)[j]
  BY <1>1 DEF Parent, Front
<1>3. p[Len(p)] = q[Len(p)]
  BY <1>1 DEF Id, Last
<1>4. \A j \in 1 .. Len(p) : p[j] = q[j]
  <2>1. \A j \in 1 .. Len(p) : j = Len(p) \/ j \in 1 .. Len(p) - 1
    BY <1>1
  <2>2. \A j \in 1 .. Len(p) - 1 : p[j] = q[j]
    BY <1>2
  <2> QED
    BY <1>3, <2>1, <2>2
<1> QED
  BY <1>1, <1>4, SeqEqual

LEMMA NullFacts == NULL \notin Place
BY PlaceFacts

-----------------------------------------------------------------------------
(* The invariant.                                                          *)

Building == {"add", "walk", "rank"}
Walking == {"ranks", "around", "down", "up", "ready"}

Tree(q) == q # root /\ InTree(q)

\* Where the program counter is, the loop variables are in range.
PhaseInv ==
  /\ pc \in {"add", "walk"} => i \in Rank /\ level \in 1 .. 3
  /\ pc = "rank" => i \in Rank /\ level = 4
  /\ pc \in Walking => i = N /\ level \in 1 .. 3
  /\ pc # "ranks" => index = 0
  /\ pc = "walk" => /\ head \in Place /\ Tree(head)
                    /\ Parent(head) = Parent(New) /\ Id(head) < Id(New)

\* The lists of siblings.
FirstInv ==
  \A p \in Place :
    /\ child[p] # NULL => Tree(child[p]) /\ Parent(child[p]) = p
    /\ \A q \in Place : Tree(q) /\ Parent(q) = p
                        => child[p] # NULL /\ Id(child[p]) =< Id(q)
NextInv ==
  \A p \in Place : Tree(p) =>
    /\ next[p] # NULL => /\ Tree(next[p]) /\ Parent(next[p]) = Parent(p)
                         /\ Id(next[p]) > Id(p)
    /\ \A q \in Place : Tree(q) /\ Parent(q) = Parent(p) /\ Id(q) > Id(p)
                        => next[p] # NULL /\ Id(next[p]) =< Id(q)
PrevInv ==
  \A p \in Place : Tree(p) =>
    /\ prev[p] # NULL => /\ Tree(prev[p]) /\ Parent(prev[p]) = Parent(p)
                         /\ Id(prev[p]) < Id(p)
    /\ \A q \in Place : Tree(q) /\ Parent(q) = Parent(p) /\ Id(q) < Id(p)
                        => prev[p] # NULL /\ Id(q) =< Id(prev[p])
FreshInv == \A p \in Place : ~Tree(p) => next[p] = NULL /\ prev[p] = NULL

\* The ranks of a blade, in ascending order.
WorkersInv ==
  /\ \A b \in Place : \A k \in DOMAIN workers[b] :
       /\ workers[b][k] < i /\ PlaceOf(workers[b][k], 3) = b
       /\ \A j \in DOMAIN workers[b] : j < k => workers[b][j] < workers[b][k]
  /\ \A r \in Rank : r < i => \E k \in DOMAIN workers[PlaceOf(r, 3)] :
                                workers[PlaceOf(r, 3)][k] = r

\* The two cursors, on either side of this rank's place.
CursorInv ==
  \A s \in {"left", "right"} :
    cursor[s] # NULL =>
      /\ pc \in Walking
      /\ Tree(cursor[s]) /\ Parent(cursor[s]) = Own(level-1)
      /\ s = "left" => Id(cursor[s]) < Id(Own(level))
      /\ s = "right" => Id(cursor[s]) > Id(Own(level))

OwnRanks == pc = "ranks" /\ at = Own(3)
Inside == pc \in {"ranks", "down", "up"} /\ ~OwnRanks

\* The place whose ranks are added is below the cursor whose turn it is.
AtInv ==
  /\ OwnRanks => level = 3
  /\ pc = "ranks" => at \in Place /\ Len(at) = 3 /\ index =< Len(workers[at])
  /\ Inside => /\ at \in Place /\ Tree(at)
               /\ cursor[side] # NULL
               /\ Len(at) >= level
               /\ Len(at) = level => at = cursor[side]
               /\ Len(at) = level+1 => Parent(at) = cursor[side]
               /\ Len(at) = level+2 => Parent(Parent(at)) = cursor[side]

\* The ranks met on the way: around this rank's place at the current level,
InGroup(r) == PlaceOf(r, level-1) = Own(level-1)
Between(r) ==
  LET q == PlaceOf(r, level) IN
  \/ q = Own(level)
  \/ /\ Id(q) < Id(Own(level))
     /\ cursor["left"] # NULL => Id(cursor["left"]) < Id(q)
  \/ /\ Id(q) > Id(Own(level))
     /\ cursor["right"] # NULL => Id(q) < Id(cursor["right"])
Around(r) == InGroup(r) /\ Between(r)
\* below the cursor and before the place where the loops are,
Smaller(r, q) == /\ PlaceOf(r, Len(q)-1) = Parent(q)
                 /\ Id(PlaceOf(r, Len(q))) < Id(q)
Passed(r) == \/ Len(at) > level /\ Smaller(r, at)
             \/ Len(at) > level+1 /\ Smaller(r, Parent(at))
\* and in that place.
Reached(r) == \E k \in 1 .. index : workers[at][k] = r

Listed(r) ==
  \/ OwnRanks /\ Reached(r)
  \/ pc = "around" /\ Around(r)
  \/ Inside /\ (Around(r) \/ Passed(r))
  \/ Inside /\ pc = "ranks" /\ Reached(r)
  \/ Inside /\ pc = "up" /\ PlaceOf(r, Len(at)) = at
  \/ pc = "ready"

VictimsInv ==
  /\ \A r \in Rank : (\E k \in DOMAIN victims : victims[k] = r)
                     <=> r # me /\ Listed(r)
  /\ \A j, k \in DOMAIN victims : victims[j] = victims[k] => j = k

\* The search goes through the array from its start.
SearchInv ==
  /\ attempt > 0 \/ chosen # <<>> => pc = "ready"
  /\ attempt > 0 => Len(chosen) = attempt - 1 /\ last_steal = attempt - 1
  /\ Len(chosen) =< Attempts
  /\ \A k \in DOMAIN chosen :
       chosen[k] = IF k =< Len(victims) THEN victims[k] ELSE -1

IInv == /\ TypeOK /\ PhaseInv
        /\ FirstInv /\ NextInv /\ PrevInv /\ FreshInv
        /\ WorkersInv /\ CursorInv /\ AtInv /\ VictimsInv /\ NearestFirst
        /\ SearchInv

-----------------------------------------------------------------------------
(* Ranks and the tree.                                                     *)

JobType == topo \in [Rank -> Coord] /\ me \in Rank

LEMMA RankFacts == Rank \subseteq Nat /\ N \notin Rank /\ 0 \in Rank
BY NAssumption DEF Rank

LEMMA RankPlaces ==
  ASSUME JobType
  PROVE  \A r \in Rank :
           /\ PlaceOf(r, 0) = root
           /\ \A k \in 0 .. 3 : PlaceOf(r, k) \in Place /\ Len(PlaceOf(r, k)) = k
           /\ \A k \in 1 .. 3 : /\ PlaceOf(r, k) # root
                                /\ Parent(PlaceOf(r, k)) = PlaceOf(r, k-1)
<1> SUFFICES ASSUME NEW r \in Rank
             PROVE  /\ PlaceOf(r, 0) = root
                    /\ \A k \in 0 .. 3 : PlaceOf(r, k) \in Place /\ Len(PlaceOf(r, k)) = k
                    /\ \A k \in 1 .. 3 : /\ PlaceOf(r, k) # root
                                         /\ Parent(PlaceOf(r, k)) = PlaceOf(r, k-1)
  OBVIOUS
<1>1. topo[r] \in Coord
  BY DEF JobType
<1>2. /\ PlaceOf(r, 0) = root
      /\ \A k \in 0 .. 3 : PlaceOf(r, k) \in Place /\ Len(PlaceOf(r, k)) = k
      /\ \A k \in 1 .. 3 : Parent(PlaceOf(r, k)) = PlaceOf(r, k-1)
  BY <1>1, PathFacts DEF PlaceOf
<1>3. ASSUME NEW k \in 1 .. 3
      PROVE  PlaceOf(r, k) # root
  <2>1. k \in 0 .. 3 /\ k # 0
    OBVIOUS
  <2>2. PlaceOf(r, k) \in Place /\ Len(PlaceOf(r, k)) = k
    BY <1>2, <2>1
  <2> QED
    BY <2>1, <2>2, PlaceFacts
<1> QED
  BY <1>2, <1>3

\* Once all ranks have been added, the tree is made of their places.
LEMMA WholeTree ==
  ASSUME JobType, i = N
  PROVE  /\ \A q : Tree(q) <=> q # root /\ \E r \in Rank : q = PlaceOf(r, Len(q))
         /\ \A r \in Rank, k \in 1 .. 3 : Tree(PlaceOf(r, k))
<1>1. \A q : Tree(q) <=> q # root /\ \E r \in Rank : q = PlaceOf(r, Len(q))
  BY RankFacts, NAssumption DEF Tree, InTree, Rank
<1>2. \A r \in Rank, k \in 1 .. 3 : Tree(PlaceOf(r, k))
  <2> SUFFICES ASSUME NEW r \in Rank, NEW k \in 1 .. 3
               PROVE  Tree(PlaceOf(r, k))
    OBVIOUS
  <2>1. k \in 0 .. 3
    OBVIOUS
  <2>2. Len(PlaceOf(r, k)) = k /\ PlaceOf(r, k) # root
    BY <2>1, RankPlaces
  <2> QED
    BY <1>1, <2>2
<1> QED
  BY <1>1, <1>2

LEMMA TreePlaces ==
  ASSUME JobType, NEW q, Tree(q), Len(q) \in 0 .. 3
  PROVE  q \in Place \ {root}
BY RankPlaces DEF Tree, InTree

\* One more place, and one more rank.
LEMMA Grow ==
  ASSUME JobType, i \in Rank, level \in 1 .. 3, Placed, UNCHANGED <<job, i>>
  PROVE  \A q \in Place : Tree(q)' <=> Tree(q) \/ q = New
<1> SUFFICES ASSUME NEW q \in Place
             PROVE  Tree(q)' <=> Tree(q) \/ q = New
  OBVIOUS
<1>1. New \in Place /\ New # root /\ Len(New) = level
  <2>1. level \in 0 .. 3
    OBVIOUS
  <2> QED
    BY <2>1, RankPlaces DEF New
<1>2. Len(q) \in 0 .. 3
  BY PlaceFacts
<1>3. i' = i /\ level' = level + 1 /\ topo' = topo
  BY DEF Placed, job
<1>4. ASSUME NEW r \in Rank
      PROVE  (r < i \/ (r = i /\ Len(q) < level + 1)) /\ q = PlaceOf(r, Len(q))
             <=> \/ (r < i \/ (r = i /\ Len(q) < level)) /\ q = PlaceOf(r, Len(q))
                 \/ r = i /\ Len(q) = level /\ q = PlaceOf(i, level)
  BY <1>2, RankFacts
<1>5. q = New <=> \E r \in Rank : r = i /\ Len(q) = level /\ q = PlaceOf(i, level)
  BY <1>1 DEF New
<1>6. InTree(q)' <=> \E r \in Rank : /\ r < i \/ (r = i /\ Len(q) < level + 1)
                                   /\ q = PlaceOf(r, Len(q))
  BY <1>3 DEF InTree, PlaceOf
<1>7. InTree(q) <=> \E r \in Rank : /\ r < i \/ (r = i /\ Len(q) < level)
                                  /\ q = PlaceOf(r, Len(q))
  BY DEF InTree
<1>8. InTree(q)' <=> InTree(q) \/ q = New
  BY <1>4, <1>5, <1>6, <1>7
<1> QED
  BY <1>8, <1>1 DEF Tree

LEMMA NextRank ==
  ASSUME JobType, i \in Rank, level = 4, i' = i + 1, i' < N => level' = 1,
         UNCHANGED job
  PROVE  \A q \in Place : Tree(q)' <=> Tree(q)
<1> SUFFICES ASSUME NEW q \in Place, q # root
             PROVE  InTree(q)' <=> InTree(q)
  BY DEF Tree
<1>1. Len(q) \in 1 .. 3
  BY PlaceFacts
<1>2. topo' = topo
  BY DEF job
<1>3. \A r \in Rank : (r < i' \/ (r = i' /\ Len(q) < level'))
                      <=> (r < i \/ (r = i /\ Len(q) < level))
  <2> SUFFICES ASSUME NEW r \in Rank
               PROVE  (r < i' \/ (r = i' /\ Len(q) < level'))
                      <=> (r < i \/ (r = i /\ Len(q) < level))
    OBVIOUS
  <2>1. r \in Nat /\ i \in Nat /\ i' = i + 1
    BY RankFacts
  <2>2. Len(q) < level
    <3>1. \A x \in 1 .. 3 : x < level
      OBVIOUS
    <3> QED
      BY <1>1, <3>1
  <2>3. r = i' => level' = 1
    BY <2>1, NAssumption DEF Rank
  <2>4. ~(r = i' /\ Len(q) < level')
    <3>1. \A x \in 1 .. 3 : ~(x < 1)
      OBVIOUS
    <3>2. ~(Len(q) < 1)
      BY <1>1, <3>1
    <3> QED
      BY <2>3, <3>2
  <2> QED
    BY <2>1, <2>2, <2>4
<1>4. InTree(q)' <=> \E r \in Rank : /\ r < i' \/ (r = i' /\ Len(q) < level')
                                   /\ q = PlaceOf(r, Len(q))
  BY <1>2 DEF InTree, PlaceOf
<1> QED
  BY <1>3, <1>4 DEF InTree

LEMMA SameTree ==
  ASSUME UNCHANGED <<job, i>>, level' = level \/ (i = N /\ i' = N)
  PROVE  \A q : Tree(q)' <=> Tree(q)
<1> SUFFICES ASSUME NEW q
             PROVE  InTree(q)' <=> InTree(q)
  BY DEF Tree
<1>1. topo' = topo /\ i' = i
  BY DEF job
<1>2. \A r \in Rank : (r < i' \/ (r = i' /\ Len(q) < level'))
                      <=> (r < i \/ (r = i /\ Len(q) < level))
  BY <1>1, RankFacts
<1>4. InTree(q)' <=> \E r \in Rank : /\ r < i' \/ (r = i' /\ Len(q) < level')
                                   /\ q = PlaceOf(r, Len(q))
  BY <1>1 DEF InTree, PlaceOf
<1> QED
  BY <1>2, <1>4 DEF InTree

-----------------------------------------------------------------------------
(* Adding places.                                                          *)

LinksInv == FirstInv /\ NextInv /\ PrevInv /\ FreshInv

\* The place that is being added, and its parent.
LEMMA NewFacts ==
  ASSUME JobType, i \in Rank, level \in 1 .. 3
  PROVE  /\ New \in Place \ {root} /\ Parent(New) \in Place
         /\ Len(New) = level /\ Id(New) \in Nat
<1>1. level \in 0 .. 3
  OBVIOUS
<1> QED
  BY <1>1, RankPlaces, PlaceFacts DEF New

LEMMA TypesOfLinks ==
  ASSUME TypeOK
  PROVE  /\ \A p \in Place : /\ child[p] # NULL => child[p] \in Place
                             /\ next[p] # NULL => next[p] \in Place
                             /\ prev[p] # NULL => prev[p] \in Place
         /\ JobType
BY DEF TypeOK, JobType

\* A place with a smaller id than every sibling, or with none, comes first.
LEMMA AddedInFront ==
  ASSUME TypeOK, LinksInv, i \in Rank, level \in 1 .. 3,
         NEW h, h = child[Parent(New)],
         h = NULL \/ Id(h) > Id(New),
         child' = [child EXCEPT ![Parent(New)] = New],
         next' = [next EXCEPT ![New] = h],
         prev' = IF h = NULL THEN prev ELSE [prev EXCEPT ![h] = New],
         \A q \in Place : Tree(q)' <=> Tree(q) \/ q = New
  PROVE  LinksInv'
<1> DEFINE n == New
           P == Parent(n)
<1>1. n \in Place \ {root} /\ P \in Place /\ Id(n) \in Nat
  BY NewFacts, TypesOfLinks
<1>2. /\ child \in [Place -> Place \cup {NULL}]
      /\ next \in [Place -> Place \cup {NULL}]
      /\ prev \in [Place -> Place \cup {NULL}]
  BY DEF TypeOK
<1>3. \A q \in Place : Tree(q) => q # root /\ Id(q) \in Nat /\ Parent(q) \in Place
  BY PlaceFacts DEF Tree
<1>4. \A q \in Place : Tree(q) /\ Parent(q) = P
                       => h # NULL /\ Id(h) =< Id(q) /\ Id(n) < Id(q)
  BY <1>1, <1>2, <1>3 DEF LinksInv, FirstInv
<1>5. h # NULL => h \in Place /\ Tree(h) /\ Parent(h) = P
  BY <1>1, <1>2 DEF LinksInv, FirstInv
<1>6. ~Tree(n) /\ next[n] = NULL /\ prev[n] = NULL
  BY <1>1, <1>4 DEF LinksInv, FreshInv
<1>7. n # NULL
  BY <1>1, NullFacts
<1>7a. \A q \in Place : Tree(q) /\ Parent(q) = P /\ q # h => Id(h) < Id(q)
  BY <1>3, <1>4, <1>5, Siblings
<1> HIDE DEF n, P
<1>8. /\ child' = [child EXCEPT ![P] = n] /\ next' = [next EXCEPT ![n] = h]
      /\ prev' = IF h = NULL THEN prev ELSE [prev EXCEPT ![h] = n]
      /\ \A q \in Place : Tree(q)' <=> Tree(q) \/ q = n
      /\ Parent(n) = P /\ (h # NULL => Id(n) < Id(h))
  <2>1. h # NULL => Id(n) < Id(h)
    BY <1>1, <1>3, <1>5 DEF n
  <2> QED
    BY <2>1 DEF n, P
<1>9. FirstInv'
  BY <1>1, <1>2, <1>3, <1>4, <1>5, <1>6, <1>7, <1>8 DEF LinksInv, FirstInv
<1>10. NextInv'
  BY <1>1, <1>2, <1>3, <1>4, <1>5, <1>6, <1>7, <1>8 DEF LinksInv, NextInv
<1>11. PrevInv'
  <2> SUFFICES ASSUME NEW p \in Place, Tree(p) \/ p = n
               PROVE  /\ prev'[p] # NULL => /\ Tree(prev[p])' /\ Parent(prev'[p]) = Parent(p)
                                            /\ Id(prev'[p]) < Id(p)
                      /\ \A q \in Place : (Tree(q) \/ q = n) /\ Parent(q) = Parent(p) /\ Id(q) < Id(p)
                           => prev'[p] # NULL /\ Id(q) =< Id(prev'[p])
    BY <1>8 DEF PrevInv
  <2>1. CASE p = n
    <3>1. prev'[p] = NULL
      BY <2>1, <1>2, <1>5, <1>6, <1>8
    <3>2. \A q \in Place : Tree(q) /\ Parent(q) = Parent(p) => ~(Id(q) < Id(p))
      BY <2>1, <1>1, <1>3, <1>4, <1>8
    <3>3. ~(Id(n) < Id(n))
      BY <1>1
    <3> QED
      BY <2>1, <3>1, <3>2, <3>3
  <2>2. CASE p # n /\ h # NULL /\ p = h
    <3>1. prev'[p] = n
      BY <2>2, <1>2, <1>5, <1>8
    <3>2. \A q \in Place : Tree(q) /\ Parent(q) = Parent(p) => ~(Id(q) < Id(p))
      BY <2>2, <1>3, <1>4, <1>5
    <3> QED
      <4>1. \A q \in Place : q = n => Tree(q)'
        BY <1>8
      <4>1a. Tree(prev[p])'
        BY <3>1, <4>1, <1>1
      <4>1b. Parent(prev'[p]) = Parent(p)
        BY <2>2, <3>1, <1>1, <1>3, <1>5, <1>8
      <4>1c. Id(prev'[p]) < Id(p)
        BY <2>2, <3>1, <1>1, <1>5, <1>3, <1>8
      <4>2. Id(n) =< Id(n)
        BY <1>1
      <4> QED
        BY <3>1, <3>2, <4>1a, <4>1b, <4>1c, <4>2, <1>7
  <2>3. CASE p # n /\ p # h
    <3>1. prev'[p] = prev[p] /\ Tree(p)
      BY <2>3, <1>2, <1>8
    <3>2. /\ prev[p] # NULL => /\ prev[p] \in Place /\ Tree(prev[p])
                               /\ Parent(prev[p]) = Parent(p) /\ Id(prev[p]) < Id(p)
          /\ \A q \in Place : Tree(q) /\ Parent(q) = Parent(p) /\ Id(q) < Id(p)
                        => prev[p] # NULL /\ Id(q) =< Id(prev[p])
      BY <3>1, <1>2 DEF LinksInv, PrevInv
    <3>3. Parent(p) = P => prev[p] # NULL /\ Id(n) =< Id(prev[p])
      BY <3>1, <3>2, <2>3, <1>1, <1>3, <1>4, <1>5, <1>7a
    <3> QED
      BY <3>1, <3>2, <3>3, <1>8
  <2> QED
    BY <2>1, <2>2, <2>3, <1>5, <1>1, NullFacts
<1>12. FreshInv'
  BY <1>1, <1>2, <1>3, <1>4, <1>5, <1>6, <1>7, <1>8 DEF LinksInv, FreshInv
<1> QED
  BY <1>9, <1>10, <1>11, <1>12 DEF LinksInv

\* A place between a sibling and its successor goes there.
LEMMA AddedAfter ==
  ASSUME TypeOK, LinksInv, i \in Rank, level \in 1 .. 3,
         NEW h \in Place, Tree(h), Parent(h) = Parent(New), Id(h) < Id(New),
         next[h] = NULL \/ Id(next[h]) > Id(New),
         child' = child,
         next' = [next EXCEPT ![New] = next[h], ![h] = New],
         prev' = [q \in Place |-> IF q = New THEN h
                                  ELSE IF q = next[h] THEN New ELSE prev[q]],
         \A q \in Place : Tree(q)' <=> Tree(q) \/ q = New
  PROVE  LinksInv'
<1> DEFINE n == New
           P == Parent(n)
           t == next[h]
<1>1. n \in Place \ {root} /\ P \in Place /\ Id(n) \in Nat
  BY NewFacts, TypesOfLinks
<1>2. /\ child \in [Place -> Place \cup {NULL}]
      /\ next \in [Place -> Place \cup {NULL}]
      /\ prev \in [Place -> Place \cup {NULL}]
  BY DEF TypeOK
<1>3. \A q \in Place : Tree(q) => q # root /\ Id(q) \in Nat /\ Parent(q) \in Place
  BY PlaceFacts DEF Tree
<1>4. t # NULL => /\ t \in Place /\ Tree(t) /\ Parent(t) = P
                  /\ Id(t) > Id(n)
  BY <1>2 DEF LinksInv, NextInv
<1>5. \A q \in Place : Tree(q) /\ Parent(q) = P
                       => Id(q) =< Id(h) \/ (t # NULL /\ Id(t) =< Id(q))
  BY <1>2, <1>3 DEF LinksInv, NextInv
<1>6. ~Tree(n) /\ next[n] = NULL /\ prev[n] = NULL
  BY <1>1, <1>3, <1>4, <1>5 DEF LinksInv, FreshInv
<1>7. n # NULL /\ h # NULL /\ n # h
  BY <1>1, <1>6, NullFacts
<1>8. \A q \in Place : Tree(q) /\ Parent(q) = P /\ Id(q) = Id(h) => q = h
  BY <1>3, Siblings
<1>9. \A q \in Place : Tree(q) /\ Parent(q) = P /\ t # NULL /\ Id(q) = Id(t) => q = t
  BY <1>3, <1>4, Siblings
<1> HIDE DEF n, P, t
<1>10. /\ child' = child
       /\ next' = [next EXCEPT ![n] = t, ![h] = n]
       /\ prev' = [q \in Place |-> IF q = n THEN h
                                   ELSE IF q = t THEN n ELSE prev[q]]
       /\ \A q \in Place : Tree(q)' <=> Tree(q) \/ q = n
       /\ Parent(n) = P /\ Parent(h) = P /\ Id(h) < Id(n)
       /\ next[h] = t
  BY DEF n, P, t
<1>11. FirstInv'
  BY <1>1, <1>2, <1>3, <1>6, <1>7, <1>10 DEF LinksInv, FirstInv
<1>12. NextInv'
  BY <1>1, <1>2, <1>3, <1>4, <1>5, <1>6, <1>7, <1>8, <1>10 DEF LinksInv, NextInv
<1>13. PrevInv'
  <2> SUFFICES ASSUME NEW p \in Place, Tree(p) \/ p = n
               PROVE  /\ prev'[p] # NULL => /\ Tree(prev[p])' /\ Parent(prev'[p]) = Parent(p)
                                            /\ Id(prev'[p]) < Id(p)
                      /\ \A q \in Place : (Tree(q) \/ q = n) /\ Parent(q) = Parent(p) /\ Id(q) < Id(p)
                           => prev'[p] # NULL /\ Id(q) =< Id(prev'[p])
    BY <1>10 DEF PrevInv
  <2>1. CASE p = n
    <3>1. prev'[p] = h
      BY <2>1, <1>1, <1>10
    <3>2. \A q \in Place : Tree(q) /\ Parent(q) = Parent(p) /\ Id(q) < Id(p) => Id(q) =< Id(h)
      BY <2>1, <1>1, <1>3, <1>4, <1>5, <1>10
    <3>3. ~(Id(n) < Id(n))
      BY <1>1
    <3> QED
      BY <2>1, <3>1, <3>2, <3>3, <1>7, <1>10
  <2>2. CASE p # n /\ p = t
    <3>1. prev'[p] = n /\ t # NULL
      BY <2>2, <1>10, NullFacts
    <3>2. \A q \in Place : Tree(q) /\ Parent(q) = Parent(p) /\ Id(q) < Id(p) => Id(q) =< Id(n)
      BY <2>2, <3>1, <1>1, <1>3, <1>4, <1>5, <1>10
    <3>3. Id(n) =< Id(n)
      BY <1>1
    <3> QED
      BY <2>2, <3>1, <3>2, <3>3, <1>1, <1>4, <1>7, <1>10
  <2>3. CASE p # n /\ p # t
    <3>1. prev'[p] = prev[p] /\ Tree(p)
      BY <2>3, <1>2, <1>10
    <3>2. /\ prev[p] # NULL => /\ prev[p] \in Place /\ Tree(prev[p])
                               /\ Parent(prev[p]) = Parent(p) /\ Id(prev[p]) < Id(p)
          /\ \A q \in Place : Tree(q) /\ Parent(q) = Parent(p) /\ Id(q) < Id(p)
                        => prev[p] # NULL /\ Id(q) =< Id(prev[p])
      BY <3>1, <1>2 DEF LinksInv, PrevInv
    <3>3. Parent(p) = P /\ Id(n) < Id(p) => prev[p] # NULL /\ Id(n) =< Id(prev[p])
      <4> SUFFICES ASSUME Parent(p) = P, Id(n) < Id(p)
                   PROVE  prev[p] # NULL /\ Id(n) =< Id(prev[p])
        OBVIOUS
      <4>1. Id(p) \in Nat /\ Id(h) \in Nat
        BY <3>1, <1>3
      <4>2. t # NULL /\ Id(t) =< Id(p)
        BY <4>1, <3>1, <1>1, <1>5, <1>10
      <4>3. Id(t) < Id(p) /\ Id(t) \in Nat
        BY <4>1, <4>2, <3>1, <2>3, <1>3, <1>4, <1>9
      <4>4. prev[p] # NULL /\ Id(t) =< Id(prev[p]) /\ Id(prev[p]) \in Nat
        BY <4>2, <4>3, <3>2, <1>3, <1>4
      <4> QED
        BY <4>2, <4>3, <4>4, <1>1, <1>4
    <3> QED
      BY <3>1, <3>2, <3>3, <1>10
  <2> QED
    BY <2>1, <2>2, <2>3
<1>14. FreshInv'
  <2> SUFFICES ASSUME NEW q \in Place, ~Tree(q), q # n
               PROVE  next'[q] = NULL /\ prev'[q] = NULL
    BY <1>10 DEF FreshInv
  <2>1. q # h /\ q # t /\ next[q] = NULL /\ prev[q] = NULL
    BY <1>4, NullFacts DEF LinksInv, FreshInv
  <2> QED
    BY <2>1, <1>2, <1>10
<1> QED
  BY <1>11, <1>12, <1>13, <1>14 DEF LinksInv

\* A place that is in the tree already stays where it is.
LEMMA LinksKept ==
  ASSUME TypeOK, LinksInv, UNCHANGED <<child, next, prev>>,
         \A q \in Place : Tree(q)' <=> Tree(q)
  PROVE  LinksInv'
<1>1. FirstInv'
  BY TypesOfLinks DEF LinksInv, FirstInv
<1>2. NextInv'
  BY TypesOfLinks DEF LinksInv, NextInv
<1>3. PrevInv'
  BY TypesOfLinks DEF LinksInv, PrevInv
<1>4. FreshInv'
  BY DEF LinksInv, FreshInv
<1> QED
  BY <1>1, <1>2, <1>3, <1>4 DEF LinksInv

\* Between two steps that add a place, nothing but the tree changes.
LEMMA WorkersKept ==
  ASSUME WorkersInv, UNCHANGED <<job, i, workers>>
  PROVE  WorkersInv'
BY DEF WorkersInv, PlaceOf, job

BuildInv == TypeOK /\ PhaseInv /\ LinksInv /\ WorkersInv

LEMMA PlacedPhase ==
  ASSUME TypeOK, PhaseInv, pc \in {"add", "walk"}, Placed, UNCHANGED <<job, i, walk>>
  PROVE  PhaseInv'
<1>1. i' = i /\ i \in Rank /\ index' = index /\ level \in 1 .. 3 /\ level' = level + 1
  BY DEF PhaseInv, walk, Placed
<1>2. CASE level = 3
  BY <1>1, <1>2 DEF Placed, PhaseInv, Walking, Rank, New, PlaceOf
<1>3. CASE level # 3
  BY <1>1, <1>3 DEF Placed, PhaseInv, Walking, Rank, New, PlaceOf
<1> QED
  BY <1>2, <1>3

LEMMA AddPlaceInv ==
  ASSUME BuildInv, add_place
  PROVE  BuildInv'
<1>1. /\ pc = "add" /\ i \in Rank /\ level \in 1 .. 3
      /\ UNCHANGED <<job, i, workers, walk, steal>>
  BY DEF BuildInv, PhaseInv, add_place
<1>2. New \in Place \ {root} /\ Parent(New) \in Place /\ Id(New) \in Nat
  BY <1>1, NewFacts, TypesOfLinks DEF BuildInv
<1> DEFINE h == child[Parent(New)]
<1>3. h # NULL => h \in Place /\ h # root /\ Tree(h) /\ Parent(h) = Parent(New)
  BY <1>2, TypesOfLinks DEF BuildInv, LinksInv, FirstInv, Tree
<1>4. WorkersInv'
  BY <1>1, WorkersKept DEF BuildInv
<1>5. CASE Placed /\ UNCHANGED <<child, next, prev>> /\ h # NULL /\ Id(h) = Id(New)
  <2>1. \A q \in Place : Tree(q)' <=> Tree(q) \/ q = New
    BY <1>1, <1>5, Grow, TypesOfLinks DEF BuildInv
  <2>2. h = New
    BY <1>2, <1>3, <1>5, Siblings
  <2>3. LinksInv'
    BY <1>3, <1>5, <2>1, <2>2, LinksKept DEF BuildInv
  <2>4. PhaseInv'
    BY <1>1, <1>5, PlacedPhase DEF BuildInv
  <2>5. TypeOK'
    BY <1>1, <1>5 DEF BuildInv, TypeOK, Placed, job, walk, steal, Attempts
  <2> QED
    BY <1>4, <2>3, <2>4, <2>5 DEF BuildInv
<1>6. CASE AddFirst \/ InsertBefore(h)
  <2>1. /\ Placed
        /\ h = NULL \/ Id(h) > Id(New)
        /\ child' = [child EXCEPT ![Parent(New)] = New]
        /\ prev' = IF h = NULL THEN prev ELSE [prev EXCEPT ![h] = New]
    BY <1>6 DEF AddFirst, InsertBefore
  <2>2. next' = [next EXCEPT ![New] = h]
    <3>1. CASE InsertBefore(h)
      BY <3>1 DEF InsertBefore
    <3>2. CASE AddFirst
      <4>1. h = NULL /\ next' = next
        BY <3>2 DEF AddFirst
      <4>2. ~Tree(New)
        BY <1>2, <4>1 DEF BuildInv, LinksInv, FirstInv
      <4>3. next[New] = NULL
        BY <1>2, <4>2 DEF BuildInv, LinksInv, FreshInv
      <4>4. next \in [Place -> Place \cup {NULL}]
        BY DEF BuildInv, TypeOK
      <4> QED
        BY <4>1, <4>3, <4>4, <1>2
    <3> QED
      BY <1>6, <3>1, <3>2
  <2>3. \A q \in Place : Tree(q)' <=> Tree(q) \/ q = New
    BY <1>1, <2>1, Grow, TypesOfLinks DEF BuildInv
  <2>4. LinksInv'
    BY <1>1, <2>1, <2>2, <2>3, AddedInFront DEF BuildInv
  <2>5. PhaseInv'
    BY <1>1, <2>1, PlacedPhase DEF BuildInv
  <2>6. TypeOK'
    <3>1. TypeOK
      BY DEF BuildInv
    <3>2. /\ child' \in [Place -> Place \cup {NULL}]
          /\ next' \in [Place -> Place \cup {NULL}]
          /\ prev' \in [Place -> Place \cup {NULL}]
      BY <1>2, <1>3, <2>1, <2>2, <3>1 DEF TypeOK
    <3>3. pc' \in {"add", "rank"} /\ level' \in 1 .. 4 /\ head' = NULL
      BY <1>1, <2>1 DEF Placed
    <3>4. UNCHANGED <<topo, me, i, workers, at, cursor, side, index, victims,
                      chosen, last_steal, attempt, searches>>
      BY <1>1 DEF job, walk, steal
    <3> QED
      BY <3>1, <3>2, <3>3, <3>4 DEF TypeOK, Attempts
  <2> QED
    BY <1>4, <2>4, <2>5, <2>6 DEF BuildInv
<1>7. CASE StartWalk(h)
  <2>1. /\ h # NULL /\ Id(h) < Id(New) /\ head' = h /\ pc' = "walk"
        /\ UNCHANGED <<child, next, prev, level>>
    BY <1>7 DEF StartWalk
  <2>2. \A q : Tree(q)' <=> Tree(q)
    BY <1>1, <2>1, SameTree
  <2>3. LinksInv'
    BY <2>1, <2>2, LinksKept DEF BuildInv
  <2>4. PhaseInv'
    <3>1. New' = New /\ i' = i /\ level' = level /\ index' = index /\ index = 0
      BY <1>1, <2>1 DEF New, PlaceOf, job, walk, BuildInv, PhaseInv
    <3>2. Tree(head)'
      BY <1>3, <2>1, <2>2
    <3>3. /\ head' \in Place /\ Parent(head') = Parent(New') /\ Id(head') < Id(New')
      BY <1>3, <2>1, <3>1
    <3> QED
      BY <1>1, <2>1, <3>1, <3>2, <3>3 DEF PhaseInv, Walking, Rank
  <2>5. TypeOK'
    BY <1>1, <1>3, <2>1 DEF BuildInv, TypeOK, job, walk, steal, Attempts
  <2> QED
    BY <1>4, <2>3, <2>4, <2>5 DEF BuildInv
<1> QED
  BY <1>5, <1>6, <1>7 DEF add_place, Found

LEMMA SortedInsertionInv ==
  ASSUME BuildInv, sortedInsertion
  PROVE  BuildInv'
<1>1. /\ pc = "walk" /\ i \in Rank /\ level \in 1 .. 3
      /\ UNCHANGED <<job, i, workers, walk, steal>>
      /\ head \in Place /\ Tree(head)
      /\ Parent(head) = Parent(New) /\ Id(head) < Id(New)
  BY DEF BuildInv, PhaseInv, sortedInsertion
<1>2. New \in Place \ {root} /\ Parent(New) \in Place /\ Id(New) \in Nat
  BY <1>1, NewFacts, TypesOfLinks DEF BuildInv
<1> DEFINE t == next[head]
<1>3. t # NULL => t \in Place /\ t # root /\ Tree(t) /\ Parent(t) = Parent(New)
  BY <1>1, TypesOfLinks DEF BuildInv, LinksInv, NextInv, Tree
<1>4. WorkersInv'
  BY <1>1, WorkersKept DEF BuildInv
<1>5. CASE Placed /\ UNCHANGED <<child, next, prev>> /\ t # NULL /\ Id(t) = Id(New)
  <2>1. \A q \in Place : Tree(q)' <=> Tree(q) \/ q = New
    BY <1>1, <1>5, Grow, TypesOfLinks DEF BuildInv
  <2>2. t = New
    BY <1>2, <1>3, <1>5, Siblings
  <2>3. LinksInv'
    BY <1>3, <1>5, <2>1, <2>2, LinksKept DEF BuildInv
  <2>4. PhaseInv'
    BY <1>1, <1>5, PlacedPhase DEF BuildInv
  <2>5. TypeOK'
    BY <1>1, <1>5 DEF BuildInv, TypeOK, Placed, job, walk, steal, Attempts
  <2> QED
    BY <1>4, <2>3, <2>4, <2>5 DEF BuildInv
<1>6. CASE InsertAfter(head)
  <2>1. /\ Placed
        /\ t = NULL \/ Id(t) > Id(New)
        /\ child' = child
        /\ next' = [next EXCEPT ![New] = next[head], ![head] = New]
        /\ prev' = [q \in Place |-> IF q = New THEN head
                                    ELSE IF q = next[head] THEN New ELSE prev[q]]
    BY <1>6 DEF InsertAfter
  <2>3. \A q \in Place : Tree(q)' <=> Tree(q) \/ q = New
    BY <1>1, <2>1, Grow, TypesOfLinks DEF BuildInv
  <2>4. LinksInv'
    BY <1>1, <2>1, <2>3, AddedAfter DEF BuildInv
  <2>5. PhaseInv'
    BY <1>1, <2>1, PlacedPhase DEF BuildInv
  <2>6. TypeOK'
    <3>1. /\ child \in [Place -> Place \cup {NULL}]
          /\ next \in [Place -> Place \cup {NULL}]
          /\ prev \in [Place -> Place \cup {NULL}]
      BY DEF BuildInv, TypeOK
    <3>2. /\ child' \in [Place -> Place \cup {NULL}]
          /\ next' \in [Place -> Place \cup {NULL}]
          /\ prev' \in [Place -> Place \cup {NULL}]
      BY <1>1, <1>2, <2>1, <3>1
    <3>3. Placed
      BY <2>1
    <3> QED
      BY <1>1, <3>2, <3>3 DEF BuildInv, TypeOK, Placed, job, walk, steal, Attempts
  <2> QED
    BY <1>4, <2>4, <2>5, <2>6 DEF BuildInv
<1>7. CASE NextSibling(head)
  <2>1. /\ t # NULL /\ Id(t) < Id(New) /\ head' = t /\ pc' = "walk"
        /\ UNCHANGED <<child, next, prev, level>>
    BY <1>1, <1>7 DEF NextSibling
  <2>2. \A q : Tree(q)' <=> Tree(q)
    BY <1>1, <2>1, SameTree
  <2>3. LinksInv'
    BY <2>1, <2>2, LinksKept DEF BuildInv
  <2>4. PhaseInv'
    <3>1. New' = New /\ i' = i /\ level' = level /\ index' = index /\ index = 0
      BY <1>1, <2>1 DEF New, PlaceOf, job, walk, BuildInv, PhaseInv
    <3>2. Tree(head)'
      BY <1>3, <2>1, <2>2
    <3>3. /\ head' \in Place /\ Parent(head') = Parent(New') /\ Id(head') < Id(New')
      BY <1>3, <2>1, <3>1
    <3> QED
      BY <1>1, <2>1, <3>1, <3>2, <3>3 DEF PhaseInv, Walking, Rank
  <2>5. TypeOK'
    BY <1>1, <1>3, <2>1 DEF BuildInv, TypeOK, job, walk, steal, Attempts
  <2> QED
    BY <1>4, <2>3, <2>4, <2>5 DEF BuildInv
<1> QED
  BY <1>5, <1>6, <1>7 DEF sortedInsertion, Found

LEMMA AddRankInBladeInv ==
  ASSUME BuildInv, add_rank_in_blade
  PROVE  BuildInv'
<1> DEFINE b == PlaceOf(i, 3)
<1>1. /\ pc = "rank" /\ i \in Rank /\ level = 4 /\ i' = i + 1
      /\ workers' = [workers EXCEPT ![b] = Append(@, i)]
      /\ UNCHANGED <<job, head, child, next, prev, cursor, side, index, victims,
                     steal>>
  BY DEF BuildInv, PhaseInv, add_rank_in_blade
<1>2. IF i' < N THEN pc' = "add" /\ level' = 1 /\ UNCHANGED at
      ELSE pc' = "ranks" /\ level' = 3 /\ at' = Own(3)
  BY DEF add_rank_in_blade
<1>3. JobType /\ b \in Place /\ Own(3) \in Place /\ i \in Nat /\ i < N /\ N \in Nat
  BY <1>1, RankPlaces, RankFacts, TypesOfLinks, NAssumption DEF BuildInv, Own, JobType, Rank
<1>4. \A q \in Place : Tree(q)' <=> Tree(q)
  BY <1>1, <1>2, <1>3, NextRank
<1>5. LinksInv'
  BY <1>1, <1>4, LinksKept DEF BuildInv
<1>6. TypeOK'
  BY <1>1, <1>2, <1>3 DEF BuildInv, TypeOK, job, steal, Attempts
<1>7. PhaseInv'
  BY <1>1, <1>2, <1>3 DEF BuildInv, PhaseInv, Rank, Walking
<1>8. WorkersInv'
  <2> DEFINE W == workers[b]
  <2>1. W \in Seq(Rank) /\ Len(W) \in Nat /\ \A k \in 1 .. Len(W) : W[k] \in Rank /\ W[k] < i
    BY <1>3 DEF BuildInv, TypeOK, WorkersInv
  <2>2. workers'[b] = Append(W, i) /\ \A c \in Place : c # b => workers'[c] = workers[c]
    BY <1>1, <1>3 DEF BuildInv, TypeOK
  <2>3. /\ DOMAIN workers'[b] = 1 .. Len(W) + 1 /\ workers'[b][Len(W) + 1] = i
        /\ DOMAIN W = 1 .. Len(W) /\ \A k \in 1 .. Len(W) : workers'[b][k] = W[k]
    BY <1>1, <2>1, <2>2
  <2>4. topo' = topo /\ \A r, k : PlaceOf(r, k)' = PlaceOf(r, k)
    BY <1>1 DEF job, PlaceOf
  <2> HIDE DEF W, b
  <2>5. ASSUME NEW c \in Place, NEW k \in DOMAIN workers'[c]
        PROVE  /\ workers'[c][k] < i' /\ PlaceOf(workers'[c][k], 3) = c
               /\ \A j \in DOMAIN workers'[c] : j < k => workers'[c][j] < workers'[c][k]
    <3>1. CASE c # b
      <4>1. workers'[c] = workers[c] /\ k \in DOMAIN workers[c]
        BY <3>1, <2>2
      <4>2. workers[c][k] \in Nat
        <5>1. workers[c] \in Seq(Rank)
          BY DEF BuildInv, TypeOK
        <5>2. workers[c][k] \in Rank
          BY <4>1, <5>1
        <5> QED
          BY <5>2, RankFacts
      <4>3. /\ workers[c][k] < i /\ PlaceOf(workers[c][k], 3) = c
            /\ \A j \in DOMAIN workers[c] : j < k => workers[c][j] < workers[c][k]
        BY <4>1 DEF BuildInv, WorkersInv
      <4>4. workers[c][k] < i'
        BY <4>2, <4>3, <1>1, <1>3
      <4> QED
        BY <4>1, <4>3, <4>4
    <3>2. CASE c = b /\ k \in 1 .. Len(W)
      <4>1. workers'[c][k] = W[k] /\ k \in DOMAIN workers[b] /\ W[k] \in Nat
        BY <3>2, <2>1, <2>3, RankFacts DEF W
      <4>2. W[k] < i' /\ PlaceOf(W[k], 3) = c
        BY <3>2, <4>1, <2>1, <1>1, <1>3 DEF BuildInv, WorkersInv, W
      <4>3. \A j \in DOMAIN workers'[c] : j < k => j \in DOMAIN workers[b] /\ workers'[c][j] = W[j]
        BY <3>2, <2>1, <2>3 DEF W
      <4>4. \A j \in DOMAIN workers[b] : j < k => W[j] < W[k]
        BY <4>1, <1>3 DEF BuildInv, WorkersInv, W
      <4> QED
        BY <4>1, <4>2, <4>3, <4>4
    <3>3. CASE c = b /\ k = Len(W) + 1
      <4>1. workers'[c][k] = i /\ i < i'
        BY <3>3, <2>3, <1>1, <1>3
      <4>2. PlaceOf(i, 3) = c
        BY <3>3 DEF b
      <4>3. \A j \in DOMAIN workers'[c] : j < k => j \in 1 .. Len(W) /\ workers'[c][j] = W[j]
        BY <3>3, <2>1, <2>3
      <4> QED
        BY <4>1, <4>2, <4>3, <2>1
    <3> QED
      BY <3>1, <3>2, <3>3, <2>1, <2>3
  <2>6. ASSUME NEW r \in Rank, r < i'
        PROVE  \E k \in DOMAIN workers'[PlaceOf(r, 3)] : workers'[PlaceOf(r, 3)][k] = r
    <3>1. CASE r = i
      BY <3>1, <2>1, <2>3 DEF b
    <3>2. CASE r # i
      <4>1. r < i
        <5>1. r \in Nat /\ r < i + 1
          BY <2>6, <1>1, RankFacts
        <5> QED
          BY <3>2, <5>1, <1>3
      <4>2. PICK k \in DOMAIN workers[PlaceOf(r, 3)] : workers[PlaceOf(r, 3)][k] = r
        BY <4>1 DEF BuildInv, WorkersInv
      <4>3. PlaceOf(r, 3) \in Place
        BY <1>3, RankPlaces
      <4>4. CASE PlaceOf(r, 3) = b
        BY <4>2, <4>4, <2>1, <2>3 DEF W
      <4>5. CASE PlaceOf(r, 3) # b
        BY <4>2, <4>3, <4>5, <2>2
      <4> QED
        BY <4>4, <4>5
    <3> QED
      BY <3>1, <3>2
  <2> QED
    BY <2>4, <2>5, <2>6 DEF WorkersInv
<1> QED
  BY <1>5, <1>6, <1>7, <1>8 DEF BuildInv

-----------------------------------------------------------------------------
(* The walk: what each kind of step leaves alone.                          *)

WalkInv == CursorInv /\ AtInv /\ VictimsInv /\ NearestFirst

LEMMA InvParts == IInv <=> BuildInv /\ WalkInv /\ SearchInv
BY DEF IInv, BuildInv, LinksInv, WalkInv

LEMMA BuildKeeps ==
  ASSUME IInv, pc \in Building, BuildInv',
         UNCHANGED <<job, steal, cursor, index, victims>>,
         \/ pc' \in Building
         \/ pc' = "ranks" /\ at' = Own(3) /\ level' = 3
  PROVE  WalkInv' /\ SearchInv'
<1>1. \A r \in Rank : ~Listed(r)
  BY DEF Building, Listed, OwnRanks, Inside
<1>2. victims' = victims /\ DOMAIN victims = {}
  <2>1. victims \in Seq(Rank)
    BY DEF IInv, TypeOK
  <2>2. \A k \in DOMAIN victims : victims[k] \in Rank
    BY <2>1
  <2> QED
    BY <1>1, <2>2 DEF IInv, VictimsInv
<1>3. index' = 0
  BY DEF IInv, PhaseInv, Building
<1>4. \A r \in Rank : ~Listed(r)'
  BY <1>3 DEF Building, Listed, OwnRanks, Inside, Own, PlaceOf, job, Reached
<1>5. VictimsInv' /\ NearestFirst'
  BY <1>2, <1>4 DEF VictimsInv, NearestFirst
<1>6. CursorInv'
  BY DEF IInv, CursorInv, Building, Walking
<1>7. AtInv'
  <2>1. CASE pc' \in Building
    BY <2>1 DEF AtInv, OwnRanks, Inside, Building
  <2>2. CASE pc' = "ranks" /\ at' = Own(3) /\ level' = 3
    <3>1. Own(3)' = Own(3)
      BY DEF Own, PlaceOf, job
    <3>2. Own(3) \in Place /\ Len(Own(3)) = 3
      BY RankPlaces, TypesOfLinks DEF IInv, Own, JobType
    <3>3. workers' \in [Place -> Seq(Rank)]
      BY DEF BuildInv, TypeOK
    <3>4. index' =< Len(workers[at])'
      BY <2>2, <3>2, <3>3, <1>3
    <3> QED
      BY <2>2, <3>1, <3>2, <3>4 DEF AtInv, OwnRanks, Inside
  <2> QED
    BY <2>1, <2>2
<1>8. SearchInv'
  <2>1. attempt \in Nat /\ pc # "ready" /\ pc' # "ready" /\ chosen \in Seq(Rank \cup {-1})
    BY NAssumption DEF IInv, TypeOK, Attempts, Building
  <2>2. attempt' = 0 /\ chosen' = <<>> /\ last_steal' = last_steal
    BY <2>1 DEF IInv, SearchInv, steal
  <2>3. Attempts' \in Nat
    BY NAssumption DEF Attempts
  <2> QED
    BY <2>2, <2>3 DEF SearchInv
<1> QED
  BY <1>5, <1>6, <1>7, <1>8 DEF WalkInv

\* A step of the walk keeps the tree, which is complete by then.
LEMMA WalkKeeps ==
  ASSUME IInv, pc \in Walking \ {"ready"}, pc' \in Walking,
         UNCHANGED <<job, i, head, tree, steal>>, level' \in 1 .. 3,
         pc' # "ranks" => index' = 0
  PROVE  /\ PhaseInv' /\ LinksInv' /\ WorkersInv' /\ SearchInv'
         /\ \A q : Tree(q)' <=> Tree(q)
<1>1. i = N /\ i' = N
  BY DEF IInv, PhaseInv
<1>2. \A q : Tree(q)' <=> Tree(q)
  BY <1>1, SameTree
<1>3. LinksInv'
  BY <1>2, LinksKept, InvParts DEF tree, BuildInv
<1>4. WorkersInv'
  BY WorkersKept DEF IInv, tree
<1>5. PhaseInv'
  BY <1>1 DEF PhaseInv, Walking
<1>6. SearchInv'
  <2>1. attempt \in Nat /\ pc # "ready" /\ chosen \in Seq(Rank \cup {-1})
    BY NAssumption DEF IInv, TypeOK, Attempts
  <2>2. attempt' = 0 /\ chosen' = <<>> /\ last_steal' = last_steal
    BY <2>1 DEF IInv, SearchInv, steal
  <2>3. Attempts' \in Nat
    BY NAssumption DEF Attempts
  <2> QED
    BY <2>2, <2>3 DEF SearchInv
<1> QED
  BY <1>2, <1>3, <1>4, <1>5, <1>6

LEMMA ListedKept ==
  ASSUME VictimsInv, NearestFirst, UNCHANGED <<job, victims>>,
         \A r \in Rank : Listed(r)' <=> Listed(r)
  PROVE  VictimsInv' /\ NearestFirst'
<1>1. VictimsInv'
  BY DEF VictimsInv, job
<1>2. \A r : Distance(r)' = Distance(r)
  BY DEF Distance, PlaceOf, Own, job
<1>3. NearestFirst'
  BY <1>2 DEF NearestFirst
<1> QED
  BY <1>1, <1>3

-----------------------------------------------------------------------------
(* Where the ranks are, seen from the walk.                                *)

LEMMA RankIds ==
  ASSUME JobType
  PROVE  \A r, s \in Rank : \A k \in 1 .. 3 :
           /\ Id(PlaceOf(r, k)) \in Nat
           /\ PlaceOf(r, k) = PlaceOf(s, k)
                <=> /\ PlaceOf(r, k-1) = PlaceOf(s, k-1)
                    /\ Id(PlaceOf(r, k)) = Id(PlaceOf(s, k))
<1> SUFFICES ASSUME NEW r \in Rank, NEW s \in Rank, NEW k \in 1 .. 3
             PROVE  /\ Id(PlaceOf(r, k)) \in Nat
                    /\ PlaceOf(r, k) = PlaceOf(s, k)
                         <=> /\ PlaceOf(r, k-1) = PlaceOf(s, k-1)
                             /\ Id(PlaceOf(r, k)) = Id(PlaceOf(s, k))
  OBVIOUS
<1>1. k \in 0 .. 3
  OBVIOUS
<1>2. /\ PlaceOf(r, k) \in Place \ {root} /\ Parent(PlaceOf(r, k)) = PlaceOf(r, k-1)
      /\ PlaceOf(s, k) \in Place \ {root} /\ Parent(PlaceOf(s, k)) = PlaceOf(s, k-1)
  BY <1>1, RankPlaces
<1> QED
  BY <1>2, PlaceFacts, Siblings

LEMMA DistanceFacts ==
  ASSUME JobType, NEW r \in Rank
  PROVE  /\ Distance(r) \in 0 .. 3
         /\ PlaceOf(r, 3) = Own(3) => Distance(r) = 0
         /\ \A k \in 1 .. 3 : PlaceOf(r, k-1) = Own(k-1) =>
              /\ Distance(r) =< 4 - k
              /\ PlaceOf(r, k) # Own(k) => Distance(r) = 4 - k
<1>1. me \in Rank
  BY DEF JobType
<1>2. /\ PlaceOf(r, 3) = Own(3) => PlaceOf(r, 2) = Own(2)
      /\ PlaceOf(r, 2) = Own(2) => PlaceOf(r, 1) = Own(1)
      /\ PlaceOf(r, 1) = Own(1) => PlaceOf(r, 0) = Own(0)
  BY <1>1, RankPlaces DEF Own
<1>3. ASSUME NEW k \in 1 .. 3, PlaceOf(r, k-1) = Own(k-1)
      PROVE  /\ Distance(r) =< 4 - k
             /\ PlaceOf(r, k) # Own(k) => Distance(r) = 4 - k
  <2>1. CASE k = 1
    BY <1>2, <1>3, <2>1 DEF Distance
  <2>2. CASE k = 2
    BY <1>2, <1>3, <2>2 DEF Distance
  <2>3. CASE k = 3
    BY <1>2, <1>3, <2>3 DEF Distance
  <2> QED
    BY <2>1, <2>2, <2>3
<1>4. Distance(r) \in 0 .. 3 /\ (PlaceOf(r, 3) = Own(3) => Distance(r) = 0)
  BY DEF Distance
<1> QED
  BY <1>3, <1>4

\* The cursor whose turn it is, and the place below it.
Below(r) == PlaceOf(r, Len(at)) = at

LEMMA CursorFacts ==
  ASSUME IInv, pc \in Walking, NEW s \in {"left", "right"}, cursor[s] # NULL
  PROVE  /\ cursor[s] \in Place \ {root} /\ Tree(cursor[s])
         /\ Parent(cursor[s]) = Own(level-1) /\ Len(cursor[s]) = level
         /\ Id(cursor[s]) \in Nat
         /\ s = "left" => Id(cursor[s]) < Id(Own(level))
         /\ s = "right" => Id(cursor[s]) > Id(Own(level))
<1>1. /\ Tree(cursor[s]) /\ Parent(cursor[s]) = Own(level-1)
      /\ s = "left" => Id(cursor[s]) < Id(Own(level))
      /\ s = "right" => Id(cursor[s]) > Id(Own(level))
  BY DEF IInv, CursorInv
<1>2. cursor[s] \in Place \ {root}
  BY <1>1 DEF IInv, TypeOK, Tree
<1>3. level-1 \in 0 .. 3 /\ level \in 1 .. 3
  BY DEF IInv, PhaseInv
<1>4. Len(Own(level-1)) = level - 1
  BY <1>3, RankPlaces, TypesOfLinks DEF IInv, Own, JobType
<1>5. Id(cursor[s]) \in Nat /\ Len(cursor[s]) = Len(Parent(cursor[s])) + 1
  BY <1>2, PlaceFacts
<1> QED
  BY <1>1, <1>2, <1>3, <1>4, <1>5

LEMMA AtFacts ==
  ASSUME IInv, Inside
  PROVE  /\ i = N /\ level \in 1 .. 3 /\ side \in {"left", "right"}
         /\ cursor[side] # NULL
         /\ at \in Place \ {root} /\ Tree(at) /\ Len(at) \in level .. 3
         /\ at = cursor[side] <=> Len(at) = level
         /\ Len(at) > level => /\ Parent(at) \in Place \ {root}
                               /\ Len(Parent(at)) = Len(at) - 1
         /\ \A r \in Rank :
              /\ Below(r) \/ Passed(r) => PlaceOf(r, level) = cursor[side]
              /\ PlaceOf(r, level) = cursor[side] => InGroup(r) /\ ~Between(r)
<1>1. /\ i = N /\ level \in 1 .. 3 /\ side \in {"left", "right"} /\ JobType
  BY DEF IInv, PhaseInv, Inside, Walking, TypeOK, JobType
<1>2. /\ at \in Place \ {root} /\ Tree(at) /\ Len(at) \in level .. 3 /\ cursor[side] # NULL
  BY <1>1, PlaceFacts DEF IInv, AtInv, Tree
<1>3. /\ Len(at) = level => at = cursor[side]
      /\ Len(at) = level+1 => Parent(at) = cursor[side]
      /\ Len(at) = level+2 => Parent(Parent(at)) = cursor[side]
  BY DEF IInv, AtInv
<1>4. /\ cursor[side] \in Place \ {root} /\ Len(cursor[side]) = level
      /\ Parent(cursor[side]) = Own(level-1) /\ Id(cursor[side]) \in Nat
      /\ side = "left" => Id(cursor[side]) < Id(Own(level))
      /\ side = "right" => Id(cursor[side]) > Id(Own(level))
  BY <1>1, <1>2, CursorFacts DEF Inside, Walking
<1>5. Len(at) > level => /\ Parent(at) \in Place \ {root}
                         /\ Len(Parent(at)) = Len(at) - 1
  BY <1>1, <1>2, PlaceFacts
<1>6. ASSUME NEW r \in Rank
      PROVE  /\ Below(r) \/ Passed(r) => PlaceOf(r, level) = cursor[side]
             /\ PlaceOf(r, level) = cursor[side] => InGroup(r) /\ ~Between(r)
  <2> DEFINE d == Len(at)
  <2>1. d \in 1 .. 3 /\ (d = level \/ d = level+1 \/ d = level+2)
    <3>1. \A l \in 1 .. 3 : \A x \in l .. 3 :
            x \in 1 .. 3 /\ (x = l \/ x = l+1 \/ x = l+2)
      OBVIOUS
    <3> QED
      BY <3>1, <1>1, <1>2
  <2>2. Parent(PlaceOf(r, d)) = PlaceOf(r, d-1)
    BY <1>1, <2>1, RankPlaces
  <2>3. \A x \in 1 .. 3 : x > 1 => x-1 \in 1 .. 3 /\ (x-1)-1 = x-2
    OBVIOUS
  <2>4. d > 1 => Parent(PlaceOf(r, d-1)) = PlaceOf(r, d-2)
    <3>1. \A k \in 1 .. 3 : Parent(PlaceOf(r, k)) = PlaceOf(r, k-1)
      BY <1>1, RankPlaces
    <3> QED
      BY <2>1, <2>3, <3>1
  <2>5. Below(r) => PlaceOf(r, level) = cursor[side]
    BY <1>1, <1>3, <2>1, <2>2, <2>4 DEF Below
  <2>6. d > level /\ Smaller(r, at) => PlaceOf(r, level) = cursor[side]
    BY <1>1, <1>3, <2>1, <2>2, <2>4 DEF Smaller
  <2>7. d > level+1 /\ Smaller(r, Parent(at)) => PlaceOf(r, level) = cursor[side]
    BY <1>1, <1>3, <1>5, <2>1, <2>2, <2>4 DEF Smaller
  <2>8. PlaceOf(r, level) = cursor[side] => InGroup(r)
    BY <1>1, <1>4, RankPlaces DEF InGroup
  <2>9. PlaceOf(r, level) = cursor[side] => ~Between(r)
    <3>1. Id(Own(level)) \in Nat
      BY <1>1, RankIds DEF Own, JobType
    <3> QED
      BY <1>1, <1>2, <1>4, <3>1 DEF Between
  <2> QED
    BY <2>5, <2>6, <2>7, <2>8, <2>9 DEF Passed
<1>7. at = cursor[side] <=> Len(at) = level
  BY <1>3, <1>4
<1> QED
  BY <1>1, <1>2, <1>5, <1>6, <1>7

-----------------------------------------------------------------------------
(* The steps of the walk.                                                  *)

LEMMA JobKept ==
  ASSUME UNCHANGED job
  PROVE  /\ \A r, k : PlaceOf(r, k)' = PlaceOf(r, k)
         /\ \A k : Own(k)' = Own(k)
         /\ me' = me
BY DEF PlaceOf, Own, job

LEMMA WalkStep ==
  ASSUME IInv, pc \in Walking \ {"ready"}, pc' \in Walking,
         UNCHANGED <<job, i, head, tree, steal>>,
         level' \in 1 .. 3, side' \in {"left", "right"},
         at' \in Place \cup {NULL},
         cursor' \in [{"left", "right"} -> Place \cup {NULL}],
         index' \in Nat, pc' # "ranks" => index' = 0,
         victims' \in Seq(Rank),
         CursorInv', AtInv', VictimsInv', NearestFirst'
  PROVE  IInv'
<1>1. PhaseInv' /\ LinksInv' /\ WorkersInv' /\ SearchInv'
  BY WalkKeeps
<1>2. TypeOK'
  <2>1. pc' \in {"ranks", "around", "down", "up", "ready"}
    BY DEF Walking
  <2>2. TypeOK
    BY DEF IInv
  <2> QED
    BY <2>1, <2>2 DEF TypeOK, job, tree, steal, Attempts
<1> QED
  BY <1>1, <1>2 DEF IInv, LinksInv

LEMMA CursorKept ==
  ASSUME IInv, UNCHANGED <<job, level, cursor>>, pc' \in Walking,
         \A q : Tree(q)' <=> Tree(q)
  PROVE  CursorInv' /\ \A r : Around(r)' <=> Around(r)
<1>1. CursorInv'
  BY JobKept DEF IInv, CursorInv
<1>2. \A r : Around(r)' <=> Around(r)
  BY JobKept DEF Around, InGroup, Between
<1> QED
  BY <1>1, <1>2

\* The two places next to this rank's place at level k.
LEMMA WalkAroundStep ==
  ASSUME IInv, NEW k \in 1 .. 3, WalkAround(k), pc \in Walking \ {"ready"},
         UNCHANGED <<job, i, head, tree, steal, victims>>, index' = 0,
         \A r \in Rank : Listed(r) <=> PlaceOf(r, k) = Own(k)
  PROVE  IInv'
<1>1. /\ pc' = "around" /\ level' = k /\ side' = "left" /\ at' = NULL
      /\ cursor' = [s \in {"left", "right"} |-> Link[s][Own(k)]]
  BY DEF WalkAround
<1>2. /\ cursor'["left"] = prev[Own(k)] /\ cursor'["right"] = next[Own(k)]
  BY <1>1 DEF Link
<1>3. i = N /\ JobType /\ me \in Rank
  BY DEF IInv, PhaseInv, TypeOK, JobType, Walking
<1>4. /\ Own(k) \in Place \ {root} /\ Tree(Own(k)) /\ Parent(Own(k)) = Own(k-1)
      /\ Id(Own(k)) \in Nat
  <2>1. k \in 0 .. 3
    OBVIOUS
  <2> QED
    BY <2>1, <1>3, RankPlaces, WholeTree, PlaceFacts DEF Own
<1>5. /\ prev[Own(k)] \in Place \cup {NULL} /\ next[Own(k)] \in Place \cup {NULL}
  BY <1>4 DEF IInv, TypeOK
<1>6. \A q : Tree(q)' <=> Tree(q)
  BY <1>1, WalkKeeps DEF Walking
<1>7. CursorInv'
  <2>1. prev[Own(k)] # NULL => /\ Tree(prev[Own(k)]) /\ Parent(prev[Own(k)]) = Own(k-1)
                               /\ Id(prev[Own(k)]) < Id(Own(k))
    BY <1>4 DEF IInv, PrevInv
  <2>2. next[Own(k)] # NULL => /\ Tree(next[Own(k)]) /\ Parent(next[Own(k)]) = Own(k-1)
                               /\ Id(next[Own(k)]) > Id(Own(k))
    BY <1>4 DEF IInv, NextInv
  <2>3. Own(level)' = Own(k) /\ Own(level-1)' = Own(k-1)
    BY <1>1, JobKept
  <2> QED
    BY <1>1, <1>2, <1>6, <2>1, <2>2, <2>3 DEF CursorInv, Walking
<1>8. AtInv'
  BY <1>1 DEF AtInv, OwnRanks, Inside
<1>9. \A r \in Rank : Listed(r)' <=> Listed(r)
  <2> SUFFICES ASSUME NEW r \in Rank
               PROVE  Listed(r)' <=> PlaceOf(r, k) = Own(k)
    OBVIOUS
  <2> DEFINE q == PlaceOf(r, k)
             o == Own(k)
  <2>1. k \in 0 .. 3
    OBVIOUS
  <2>2. /\ q \in Place /\ Tree(q) /\ Parent(q) = PlaceOf(r, k-1) /\ Id(q) \in Nat
    BY <2>1, <1>3, RankPlaces, WholeTree, RankIds
  <2>3. Listed(r)' <=> Around(r)'
    BY <1>1 DEF Listed, OwnRanks, Inside
  <2>4. Around(r)' <=> /\ PlaceOf(r, k-1) = Own(k-1)
                       /\ \/ q = o
                          \/ Id(q) < Id(o) /\ (prev[o] # NULL => Id(prev[o]) < Id(q))
                          \/ Id(q) > Id(o) /\ (next[o] # NULL => Id(q) < Id(next[o]))
    BY <1>1, <1>2, JobKept DEF Around, InGroup, Between
  <2>5. PlaceOf(r, k-1) = Own(k-1) /\ Id(q) < Id(o)
        => prev[o] # NULL /\ Id(q) =< Id(prev[o])
    BY <1>4, <2>2 DEF IInv, PrevInv
  <2>6. PlaceOf(r, k-1) = Own(k-1) /\ Id(q) > Id(o)
        => next[o] # NULL /\ Id(next[o]) =< Id(q)
    BY <1>4, <2>2 DEF IInv, NextInv
  <2>7. /\ prev[o] # NULL => Id(prev[o]) \in Nat
        /\ next[o] # NULL => Id(next[o]) \in Nat
    <3>1. /\ prev[o] # NULL => Tree(prev[o])
          /\ next[o] # NULL => Tree(next[o])
      BY <1>4 DEF IInv, PrevInv, NextInv
    <3> QED
      BY <1>5, <3>1, PlaceFacts DEF Tree
  <2>8. q = o => PlaceOf(r, k-1) = Own(k-1)
    BY <1>4, <2>2
  <2> QED
    BY <2>2, <2>3, <2>4, <2>5, <2>6, <2>7, <2>8
<1>10. VictimsInv' /\ NearestFirst'
  BY <1>9, ListedKept DEF IInv
<1>11. victims' \in Seq(Rank)
  BY DEF IInv, TypeOK
<1>12. cursor' \in [{"left", "right"} -> Place \cup {NULL}]
  BY <1>1, <1>5 DEF Link
<1> QED
  BY <1>1, <1>7, <1>8, <1>10, <1>11, <1>12, WalkStep DEF Walking

LEMMA TurnInv ==
  ASSUME IInv, Turn
  PROVE  IInv'
<1>1. /\ pc = "around" /\ UNCHANGED <<job, i, level, head, tree, cursor, index, victims, steal>>
      /\ UNCHANGED <<job, i, head, tree, steal>> /\ UNCHANGED <<job, level, cursor>>
      /\ UNCHANGED <<job, victims>>
  BY DEF Turn
<1>2. /\ level' \in 1 .. 3 /\ index = 0 /\ index' = 0 /\ pc \in Walking \ {"ready"}
      /\ side \in {"left", "right"} /\ level \in 1 .. 3
  BY <1>1 DEF IInv, PhaseInv, TypeOK, Walking
<1>3. pc' \in {"around", "down"} /\ pc' \in Walking
  BY <1>1 DEF Turn, Walking
<1>4. /\ CursorInv' /\ \A r : Around(r)' <=> Around(r)
      /\ \A q : Tree(q)' <=> Tree(q)
  BY <1>1, <1>2, <1>3, CursorKept, WalkKeeps DEF Walking
<1>5. AtInv' /\ (\A r \in Rank : Listed(r)' <=> Listed(r))
      /\ at' \in Place \cup {NULL} /\ side' \in {"left", "right"}
  <2>1. CASE cursor[side] # NULL
    <3>1. pc' = "down" /\ at' = cursor[side] /\ side' = side
      BY <2>1 DEF Turn
    <3>2. cursor[side] \in Place /\ Tree(cursor[side]) /\ Len(cursor[side]) = level
      BY <1>1, <1>2, <2>1, CursorFacts DEF Walking
    <3>3. Tree(at)'
      BY <3>1, <3>2, <1>4
    <3>4. AtInv'
      BY <3>1, <3>2, <3>3, <2>1, <1>1, <1>2 DEF AtInv, OwnRanks, Inside
    <3>5. \A r : ~Passed(r)'
      BY <3>1, <3>2, <1>1, <1>2 DEF Passed
    <3>6. \A r : Listed(r)' <=> Listed(r)
      BY <3>1, <3>5, <1>1, <1>4 DEF Listed, OwnRanks, Inside
    <3> QED
      BY <3>1, <3>2, <3>4, <3>6, <1>2
  <2>2. CASE cursor[side] = NULL
    <3>1. pc' = "around" /\ side' = Other(side) /\ at' = at
      BY <2>2, <1>1 DEF Turn
    <3>2. AtInv' /\ \A r : Listed(r)' <=> Listed(r)
      BY <3>1, <1>1, <1>4 DEF Listed, OwnRanks, Inside, AtInv
    <3> QED
      BY <3>1, <3>2 DEF Other, IInv, TypeOK
  <2> QED
    BY <2>1, <2>2
<1>6. VictimsInv' /\ NearestFirst'
  BY <1>1, <1>5, ListedKept DEF IInv
<1>7. victims' \in Seq(Rank) /\ cursor' \in [{"left", "right"} -> Place \cup {NULL}]
      /\ index' \in Nat
  BY <1>1, <1>2 DEF IInv, TypeOK
<1> QED
  BY <1>1, <1>2, <1>3, <1>4, <1>5, <1>6, <1>7, WalkStep

LEMMA EndAroundInv ==
  ASSUME IInv, EndAround
  PROVE  IInv'
<1>1. /\ pc = "around" /\ cursor["left"] = NULL /\ cursor["right"] = NULL
      /\ UNCHANGED <<job, i, head, tree, index, victims, steal>>
      /\ UNCHANGED <<job, i, head, tree, steal>>
      /\ UNCHANGED <<job, victims>>
  BY DEF EndAround
<1>2. /\ level \in 1 .. 3 /\ index = 0 /\ index' = 0 /\ pc \in Walking \ {"ready"}
      /\ i = N /\ JobType /\ me \in Rank
  BY <1>1 DEF IInv, PhaseInv, TypeOK, Walking, JobType
<1>3. \A r \in Rank : Listed(r) <=> PlaceOf(r, level-1) = Own(level-1)
  <2> SUFFICES ASSUME NEW r \in Rank
               PROVE  Listed(r) <=> PlaceOf(r, level-1) = Own(level-1)
    OBVIOUS
  <2>1. Listed(r) <=> Around(r)
    BY <1>1 DEF Listed, OwnRanks, Inside
  <2>2. /\ Id(PlaceOf(r, level)) \in Nat /\ Id(Own(level)) \in Nat
        /\ PlaceOf(r, level) = Own(level)
             <=> /\ PlaceOf(r, level-1) = Own(level-1)
                 /\ Id(PlaceOf(r, level)) = Id(Own(level))
    BY <1>2, RankIds DEF Own
  <2> QED
    BY <1>1, <2>1, <2>2 DEF Around, InGroup, Between
<1>4. CASE level = 1
  <2>1. pc' = "ready" /\ UNCHANGED <<level, cursor, side, at>> /\ pc' \in Walking
    BY <1>4 DEF EndAround, Walking
  <2>2. \A q : Tree(q)' <=> Tree(q)
    BY <1>1, <1>2, <2>1, WalkKeeps
  <2>3. CursorInv'
    BY <1>1, <2>1, <2>2, CursorKept
  <2>4. AtInv'
    BY <2>1 DEF AtInv, OwnRanks, Inside
  <2>5. \A r \in Rank : Listed(r)
    BY <1>2, <1>3, <1>4, RankPlaces DEF Own
  <2>6. VictimsInv' /\ NearestFirst'
    BY <1>1, <2>1, <2>5, ListedKept DEF IInv, Listed
  <2>7. /\ victims' \in Seq(Rank) /\ cursor' \in [{"left", "right"} -> Place \cup {NULL}]
        /\ side' \in {"left", "right"} /\ at' \in Place \cup {NULL}
    BY <1>1, <2>1 DEF IInv, TypeOK
  <2> QED
    BY <1>1, <1>2, <2>1, <2>3, <2>4, <2>6, <2>7, WalkStep
<1>5. CASE level # 1
  <2>1. WalkAround(level - 1) /\ level - 1 \in 1 .. 3
    BY <1>2, <1>5 DEF EndAround
  <2> QED
    BY <1>1, <1>2, <1>3, <2>1, WalkAroundStep
<1> QED
  BY <1>4, <1>5

\* This rank is not below the cursor.
LEMMA NotOwnPlace ==
  ASSUME IInv, Inside
  PROVE  at # Own(3) /\ ~Below(me)
<1>1. me \in Rank /\ JobType /\ level \in 1 .. 3
  BY AtFacts DEF IInv, TypeOK, JobType
<1>2. Between(me)
  BY DEF Between, Own
<1>3. ~Below(me)
  BY <1>1, <1>2, AtFacts
<1>4. Len(Own(3)) = 3
  BY <1>1, RankPlaces DEF Own
<1> QED
  BY <1>3, <1>4 DEF Below, Own

\* What is below a place of the tree.
LEMMA BelowFacts ==
  ASSUME IInv, i = N, NEW q \in Place, q # root, Tree(q), NEW r \in Rank
  PROVE  LET s == PlaceOf(r, Len(q)) IN
           /\ Len(q) \in 1 .. 3 /\ Id(q) \in Nat
           /\ s \in Place /\ s # root /\ Tree(s) /\ Id(s) \in Nat
           /\ Parent(s) = PlaceOf(r, Len(q)-1)
           /\ s = q <=> PlaceOf(r, Len(q)-1) = Parent(q) /\ Id(s) = Id(q)
<1>1. JobType
  BY DEF IInv, TypeOK, JobType
<1>2. Len(q) \in 1 .. 3 /\ Id(q) \in Nat
  BY PlaceFacts
<1>3. \A k \in 1 .. 3 : k \in 0 .. 3
  OBVIOUS
<1>4. /\ PlaceOf(r, Len(q)) \in Place /\ PlaceOf(r, Len(q)) # root
      /\ Parent(PlaceOf(r, Len(q))) = PlaceOf(r, Len(q)-1)
  BY <1>1, <1>2, <1>3, RankPlaces
<1>5. Tree(PlaceOf(r, Len(q)))
  BY <1>1, <1>2, WholeTree
<1> QED
  BY <1>2, <1>4, <1>5, PlaceFacts, Siblings

LEMMA DownInv ==
  ASSUME IInv, Down
  PROVE  IInv'
<1>1. /\ pc = "down"
      /\ UNCHANGED <<job, i, level, head, tree, cursor, side, index, victims, steal>>
      /\ UNCHANGED <<job, i, head, tree, steal>> /\ UNCHANGED <<job, level, cursor>>
      /\ UNCHANGED <<job, victims>>
  BY DEF Down
<1>2. Inside /\ JobType
  BY <1>1 DEF Inside, OwnRanks, IInv, TypeOK, JobType
<1>3. /\ i = N /\ level \in 1 .. 3 /\ index = 0 /\ index' = 0 /\ pc \in Walking \ {"ready"}
      /\ at \in Place \ {root} /\ Tree(at) /\ Len(at) \in level .. 3
      /\ cursor[side] # NULL /\ side \in {"left", "right"}
  BY <1>1, <1>2, AtFacts DEF IInv, PhaseInv, Walking
<1>4. pc' \in {"ranks", "up", "down"} /\ pc' \in Walking
  BY <1>1 DEF Down, Walking
<1>5. \A q : Tree(q)' <=> Tree(q)
  BY <1>1, <1>3, <1>4, WalkKeeps
<1>6. CursorInv' /\ \A r : Around(r)' <=> Around(r)
  BY <1>1, <1>4, <1>5, CursorKept
<1>7. AtInv' /\ (\A r \in Rank : Listed(r)' <=> Listed(r)) /\ at' \in Place
  <2>1. CASE Len(at) = 3
    <3>1. pc' = "ranks" /\ at' = at
      BY <2>1 DEF Down
    <3>2. at # Own(3) /\ Own(3)' = Own(3)
      BY <1>1, <1>2, NotOwnPlace, JobKept
    <3>3. ~OwnRanks' /\ Inside'
      BY <3>1, <3>2 DEF OwnRanks, Inside
    <3>4. AtInv'
      <4>1. workers[at] \in Seq(Rank)
        BY <1>3 DEF IInv, TypeOK
      <4>2. index' =< Len(workers[at])'
        BY <4>1, <3>1, <1>1, <1>3 DEF tree
      <4>3. Tree(at)'
        BY <3>1, <1>3, <1>5
      <4>4. /\ Len(at) = level => at = cursor[side]
            /\ Len(at) = level+1 => Parent(at) = cursor[side]
            /\ Len(at) = level+2 => Parent(Parent(at)) = cursor[side]
        BY <1>2 DEF IInv, AtInv
      <4> QED
        BY <3>1, <3>3, <4>2, <4>3, <4>4, <2>1, <1>1, <1>3 DEF AtInv
    <3>5. \A r : Passed(r)' <=> Passed(r)
      BY <3>1, <1>1, JobKept DEF Passed, Smaller
    <3>6. \A r : ~Reached(r)'
      BY <1>3 DEF Reached
    <3>7. \A r : Listed(r)' <=> Listed(r)
      BY <3>1, <3>3, <3>5, <3>6, <1>1, <1>2, <1>6 DEF Listed, Inside
    <3> QED
      BY <3>1, <3>4, <3>7, <1>3
  <2>2. CASE Len(at) # 3
    <3>1. Len(at) \in 1 .. 2 /\ Len(at) - level \in 0 .. 1
      <4>1. \A l \in 1 .. 3 : \A x \in l .. 3 : x # 3 => x \in 1 .. 2 /\ x - l \in 0 .. 1
        OBVIOUS
      <4> QED
        BY <4>1, <2>2, <1>3
    <3>2. ASSUME NEW r \in Rank, Below(r)
          PROVE  LET q == PlaceOf(r, Len(at)+1) IN
                   q \in Place /\ Tree(q) /\ Parent(q) = at
      <4>1. \A x \in 1 .. 2 : x+1 \in 0 .. 3 /\ x+1 \in 1 .. 3 /\ (x+1)-1 = x
        OBVIOUS
      <4>2. Len(at)+1 \in 0 .. 3 /\ Len(at)+1 \in 1 .. 3 /\ (Len(at)+1)-1 = Len(at)
        BY <4>1, <3>1
      <4>3. \A k \in 0 .. 3 : PlaceOf(r, k) \in Place
        BY <1>2, RankPlaces
      <4>4. \A k \in 1 .. 3 : Tree(PlaceOf(r, k)) /\ Parent(PlaceOf(r, k)) = PlaceOf(r, k-1)
        BY <1>2, <1>3, RankPlaces, WholeTree
      <4> QED
        BY <4>2, <4>3, <4>4, <3>2 DEF Below
    <3>3. \E r \in Rank : Below(r)
      BY <1>2, <1>3, WholeTree DEF Below
    <3>4. child[at] # NULL /\ Tree(child[at]) /\ Parent(child[at]) = at
      BY <3>2, <3>3, <1>3 DEF IInv, FirstInv
    <3>5. pc' = "down" /\ at' = child[at]
      BY <2>2, <3>4, <1>1 DEF Down
    <3>6. child[at] \in Place \ {root} /\ Len(child[at]) = Len(at) + 1
      <4>1. child[at] \in Place \ {root}
        BY <3>4, <1>3 DEF IInv, TypeOK, Tree
      <4>2. Len(child[at]) \in 1 .. 3 /\ Len(Parent(child[at])) = Len(child[at]) - 1
        BY <4>1, PlaceFacts
      <4> QED
        BY <4>1, <4>2, <3>4
    <3>7. AtInv'
      <4>1. Tree(at)'
        BY <3>4, <3>5, <1>5
      <4>2. /\ Len(at) = level => at = cursor[side]
            /\ Len(at) = level+1 => Parent(at) = cursor[side]
        BY <1>2 DEF IInv, AtInv
      <4> QED
        BY <3>1, <3>4, <3>5, <3>6, <4>1, <4>2, <1>1, <1>3 DEF AtInv, OwnRanks, Inside
    <3>8. \A r \in Rank : Passed(r)' <=> Passed(r)
      <4> SUFFICES ASSUME NEW r \in Rank
                   PROVE  Passed(r)' <=> Passed(r)
        OBVIOUS
      <4> DEFINE q == PlaceOf(r, Len(at)+1)
      <4>1. Below(r) => ~(Id(q) < Id(child[at]))
        <5>1. Below(r) => Id(child[at]) =< Id(q)
          BY <3>2, <1>3 DEF IInv, FirstInv
        <5>2. Below(r) => Id(q) \in Nat /\ Id(child[at]) \in Nat
          BY <3>2, <3>6, PlaceFacts DEF Tree
        <5> QED
          BY <5>1, <5>2
      <4>2. Len(child[at]) - 1 = Len(at) /\ Len(child[at]) > level
            /\ (Len(child[at]) > level+1 <=> Len(at) > level) /\ ~(Len(at) > level+1)
        BY <3>1, <3>6, <1>3
      <4>3. ~Smaller(r, child[at])
        BY <4>1, <4>2, <3>4, <3>6 DEF Smaller, Below
      <4>4. Passed(r)' <=> \/ Len(child[at]) > level /\ Smaller(r, child[at])
                           \/ Len(child[at]) > level+1 /\ Smaller(r, Parent(child[at]))
        BY <3>5, <1>1, JobKept DEF Passed, Smaller
      <4>5. Passed(r) <=> Len(at) > level /\ Smaller(r, at)
        BY <4>2 DEF Passed
      <4> QED
        BY <4>2, <4>3, <4>4, <4>5, <3>4
    <3>9. \A r \in Rank : Listed(r)' <=> Listed(r)
      BY <3>5, <3>8, <1>1, <1>6 DEF Listed, Inside, OwnRanks
    <3> QED
      BY <3>5, <3>6, <3>7, <3>9
  <2> QED
    BY <2>1, <2>2
<1>8. VictimsInv' /\ NearestFirst'
  BY <1>1, <1>7, ListedKept DEF IInv
<1>9. /\ victims' \in Seq(Rank) /\ cursor' \in [{"left", "right"} -> Place \cup {NULL}]
      /\ side' \in {"left", "right"} /\ level' \in 1 .. 3 /\ index' \in Nat
  BY <1>1, <1>3 DEF IInv, TypeOK
<1> QED
  BY <1>1, <1>3, <1>4, <1>6, <1>7, <1>8, <1>9, WalkStep

LEMMA UpInv ==
  ASSUME IInv, Up
  PROVE  IInv'
<1>1. /\ pc = "up" /\ at # cursor[side]
      /\ UNCHANGED <<job, i, level, head, tree, cursor, side, index, victims, steal>>
      /\ UNCHANGED <<job, i, head, tree, steal>> /\ UNCHANGED <<job, level, cursor>>
      /\ UNCHANGED <<job, victims>>
  BY DEF Up
<1>2. Inside /\ JobType
  BY <1>1 DEF Inside, OwnRanks, IInv, TypeOK, JobType
<1>3. /\ i = N /\ level \in 1 .. 3 /\ index = 0 /\ index' = 0 /\ pc \in Walking \ {"ready"}
      /\ at \in Place \ {root} /\ Tree(at) /\ Len(at) \in level .. 3 /\ Len(at) # level
      /\ cursor[side] # NULL /\ side \in {"left", "right"} /\ Len(at) \in 1 .. 3
  BY <1>1, <1>2, AtFacts, PlaceFacts DEF IInv, PhaseInv, Walking
<1>4. pc' \in {"up", "down"} /\ pc' \in Walking
  BY <1>1 DEF Up, Walking
<1>5. \A q : Tree(q)' <=> Tree(q)
  BY <1>1, <1>3, <1>4, WalkKeeps
<1>6. CursorInv' /\ \A r : Around(r)' <=> Around(r)
  BY <1>1, <1>4, <1>5, CursorKept
<1>7. /\ Len(at) > level
      /\ Parent(at) \in Place \ {root} /\ Len(Parent(at)) = Len(at) - 1
  BY <1>2, <1>3, AtFacts
<1>8. /\ Len(at) = level+1 => Parent(at) = cursor[side]
      /\ Len(at) = level+2 => Parent(Parent(at)) = cursor[side]
  BY <1>2 DEF IInv, AtInv
<1>9. AtInv' /\ (\A r \in Rank : Listed(r)' <=> Listed(r)) /\ at' \in Place
  <2>1. CASE next[at] # NULL
    <3>1. pc' = "down" /\ at' = next[at]
      BY <2>1, <1>1 DEF Up
    <3>2. /\ next[at] \in Place \ {root} /\ Tree(next[at]) /\ Parent(next[at]) = Parent(at)
          /\ Id(next[at]) > Id(at) /\ Id(next[at]) \in Nat
      <4>1. /\ next[at] \in Place /\ Tree(next[at]) /\ Parent(next[at]) = Parent(at)
            /\ Id(next[at]) > Id(at)
        BY <2>1, <1>3 DEF IInv, TypeOK, NextInv
      <4> QED
        BY <4>1, PlaceFacts DEF Tree
    <3>3. Len(next[at]) = Len(at)
      <4>1. Len(next[at]) \in 1 .. 3 /\ Len(Parent(next[at])) = Len(next[at]) - 1
        BY <3>2, PlaceFacts
      <4> QED
        BY <4>1, <3>2, <1>3, <1>7
    <3>4. AtInv'
      <4>1. Tree(at)'
        BY <3>1, <3>2, <1>5
      <4> QED
        BY <3>1, <3>2, <3>3, <4>1, <1>1, <1>3, <1>8 DEF AtInv, OwnRanks, Inside
    <3>5. \A r \in Rank : Passed(r)' <=> Passed(r) \/ Below(r)
      <4> SUFFICES ASSUME NEW r \in Rank
                   PROVE  Passed(r)' <=> Passed(r) \/ Below(r)
        OBVIOUS
      <4> DEFINE q == PlaceOf(r, Len(at))
      <4>1. /\ Id(at) \in Nat /\ q \in Place /\ Tree(q) /\ Id(q) \in Nat
            /\ Parent(q) = PlaceOf(r, Len(at)-1)
            /\ q = at <=> PlaceOf(r, Len(at)-1) = Parent(at) /\ Id(q) = Id(at)
        BY <1>3, BelowFacts
      <4>2. PlaceOf(r, Len(at)-1) = Parent(at) /\ Id(q) > Id(at) => Id(next[at]) =< Id(q)
        BY <4>1, <1>3 DEF IInv, NextInv
      <4>3. Smaller(r, next[at]) <=> Smaller(r, at) \/ Below(r)
        BY <4>1, <4>2, <3>2, <3>3 DEF Smaller, Below
      <4>4. Passed(r)' <=> \/ Len(next[at]) > level /\ Smaller(r, next[at])
                           \/ Len(next[at]) > level+1 /\ Smaller(r, Parent(next[at]))
        BY <3>1, <1>1, JobKept DEF Passed, Smaller
      <4> QED
        BY <4>3, <4>4, <3>2, <3>3, <1>7 DEF Passed
    <3>6. \A r \in Rank : Listed(r)' <=> Listed(r)
      BY <3>1, <3>5, <1>1, <1>6 DEF Listed, Inside, OwnRanks, Below
    <3> QED
      BY <3>1, <3>2, <3>4, <3>6
  <2>2. CASE next[at] = NULL
    <3>1. pc' = "up" /\ at' = Parent(at)
      BY <2>2, <1>1 DEF Up
    <3>2. Tree(Parent(at))
      <4>1. PICK r \in Rank : at = PlaceOf(r, Len(at))
        BY <1>2, <1>3, WholeTree
      <4>2. Parent(at) = PlaceOf(r, Len(at)-1)
        BY <4>1, <1>2, <1>3, RankPlaces
      <4>3. Len(at)-1 \in 1 .. 3
        BY <1>3, <1>7
      <4> QED
        BY <4>2, <4>3, <1>2, <1>3, WholeTree
    <3>3. AtInv'
      <4>1. Tree(at)'
        BY <3>1, <3>2, <1>5
      <4>2. \A l \in 1 .. 3 : \A x \in l .. 3 : x # l =>
              (x = l+1 \/ x = l+2) /\ ~(x-1 = l+2) /\ (x-1 = l+1 <=> x = l+2)
              /\ (x-1 = l <=> x = l+1) /\ x-1 >= l
        OBVIOUS
      <4> QED
        BY <3>1, <4>1, <4>2, <1>1, <1>3, <1>7, <1>8 DEF AtInv, OwnRanks, Inside
    <3>4. \A r \in Rank : Passed(r)' \/ Below(r)' <=> Passed(r) \/ Below(r)
      <4> SUFFICES ASSUME NEW r \in Rank
                   PROVE  Passed(r)' \/ Below(r)' <=> Passed(r) \/ Below(r)
        OBVIOUS
      <4> DEFINE q == PlaceOf(r, Len(at))
      <4>1. /\ Id(at) \in Nat /\ q \in Place /\ Tree(q) /\ Id(q) \in Nat
            /\ Parent(q) = PlaceOf(r, Len(at)-1)
            /\ q = at <=> PlaceOf(r, Len(at)-1) = Parent(at) /\ Id(q) = Id(at)
        BY <1>3, BelowFacts
      <4>2. PlaceOf(r, Len(at)-1) = Parent(at) => ~(Id(q) > Id(at))
        BY <4>1, <2>2, <1>3 DEF IInv, NextInv
      <4>3. Smaller(r, at) \/ Below(r) <=> PlaceOf(r, Len(at)-1) = Parent(at)
        BY <4>1, <4>2 DEF Smaller, Below
      <4>4. Below(r)' <=> PlaceOf(r, Len(at)-1) = Parent(at)
        BY <3>1, <1>7, JobKept, <1>1 DEF Below
      <4>5. ~(Len(at)-1 > level+1) /\ (Len(at)-1 > level <=> Len(at) > level+1)
        <5>1. \A l \in 1 .. 3 : \A x \in l .. 3 :
                ~(x-1 > l+1) /\ (x-1 > l <=> x > l+1)
          OBVIOUS
        <5> QED
          BY <5>1, <1>3
      <4>6. Passed(r)' <=> Len(at)-1 > level /\ Smaller(r, Parent(at))
        <5>1. Passed(r)' <=> \/ Len(Parent(at)) > level /\ Smaller(r, Parent(at))
                             \/ /\ Len(Parent(at)) > level+1
                                /\ Smaller(r, Parent(Parent(at)))
          BY <3>1, <1>1, JobKept DEF Passed, Smaller
        <5> QED
          BY <5>1, <4>5, <1>7
      <4> QED
        BY <4>3, <4>4, <4>5, <4>6, <1>7 DEF Passed
    <3>5. \A r \in Rank : Listed(r)' <=> Listed(r)
      BY <3>1, <3>4, <1>1, <1>6 DEF Listed, Inside, OwnRanks, Below
    <3> QED
      BY <3>1, <3>3, <3>5, <1>7
  <2> QED
    BY <2>1, <2>2
<1>10. VictimsInv' /\ NearestFirst'
  BY <1>1, <1>9, ListedKept DEF IInv
<1>11. /\ victims' \in Seq(Rank) /\ cursor' \in [{"left", "right"} -> Place \cup {NULL}]
       /\ side' \in {"left", "right"} /\ level' \in 1 .. 3 /\ index' \in Nat
  BY <1>1, <1>3 DEF IInv, TypeOK
<1> QED
  BY <1>1, <1>3, <1>4, <1>6, <1>9, <1>10, <1>11, WalkStep

LEMMA FurtherInv ==
  ASSUME IInv, Further
  PROVE  IInv'
<1>1. /\ pc = "up" /\ at = cursor[side]
      /\ cursor' = [cursor EXCEPT ![side] = Link[side][at]]
      /\ pc' = "around" /\ side' = Other(side) /\ at' = NULL
      /\ UNCHANGED <<job, i, level, head, tree, index, victims, steal>>
      /\ UNCHANGED <<job, i, head, tree, steal>> /\ UNCHANGED <<job, victims>>
  BY DEF Further
<1>2. Inside /\ JobType
  BY <1>1 DEF Inside, OwnRanks, IInv, TypeOK, JobType
<1>3. /\ i = N /\ level \in 1 .. 3 /\ index = 0 /\ index' = 0 /\ pc \in Walking \ {"ready"}
      /\ at \in Place \ {root} /\ Tree(at) /\ Len(at) = level
      /\ cursor[side] # NULL /\ side \in {"left", "right"} /\ pc' \in Walking
  BY <1>1, <1>2, AtFacts DEF IInv, PhaseInv, Walking
<1>4. /\ Parent(at) = Own(level-1) /\ Id(at) \in Nat
      /\ side = "left" => Id(at) < Id(Own(level))
      /\ side = "right" => Id(at) > Id(Own(level))
  BY <1>1, <1>3, CursorFacts
<1>5. \A q : Tree(q)' <=> Tree(q)
  BY <1>1, <1>3, WalkKeeps
<1>6. /\ prev[at] \in Place \cup {NULL} /\ next[at] \in Place \cup {NULL}
      /\ cursor \in [{"left", "right"} -> Place \cup {NULL}]
  BY <1>3 DEF IInv, TypeOK
<1>7. Id(Own(level)) \in Nat
  BY <1>2, <1>3, RankIds DEF Own, JobType
<1>8. /\ prev[at] # NULL => /\ Tree(prev[at]) /\ Parent(prev[at]) = Parent(at)
                            /\ Id(prev[at]) < Id(at) /\ Id(prev[at]) \in Nat
      /\ next[at] # NULL => /\ Tree(next[at]) /\ Parent(next[at]) = Parent(at)
                            /\ Id(next[at]) > Id(at) /\ Id(next[at]) \in Nat
  <2>1. /\ prev[at] # NULL => /\ Tree(prev[at]) /\ Parent(prev[at]) = Parent(at)
                              /\ Id(prev[at]) < Id(at)
        /\ next[at] # NULL => /\ Tree(next[at]) /\ Parent(next[at]) = Parent(at)
                              /\ Id(next[at]) > Id(at)
    BY <1>3 DEF IInv, PrevInv, NextInv
  <2> QED
    BY <2>1, <1>6, PlaceFacts DEF Tree
<1>9. /\ Own(level)' = Own(level) /\ Own(level-1)' = Own(level-1) /\ level' = level
  BY <1>1, JobKept
<1>10. ASSUME side = "left"
       PROVE  CursorInv' /\ \A r \in Rank : Around(r)' <=> Around(r) \/ Below(r)
  <2>1. cursor'["left"] = prev[at] /\ cursor'["right"] = cursor["right"]
    BY <1>1, <1>6, <1>10 DEF Link
  <2>2. CursorInv'
    <3>1. prev[at] # NULL => Id(prev[at]) < Id(Own(level))
      BY <1>4, <1>7, <1>8, <1>10
    <3> QED
      BY <2>1, <3>1, <1>1, <1>3, <1>4, <1>5, <1>8, <1>9 DEF IInv, CursorInv
  <2>3. \A r \in Rank : Around(r)' <=> Around(r) \/ Below(r)
    <3> SUFFICES ASSUME NEW r \in Rank
                 PROVE  Around(r)' <=> Around(r) \/ Below(r)
      OBVIOUS
    <3> DEFINE q == PlaceOf(r, level)
    <3>1. /\ q \in Place /\ Tree(q) /\ Id(q) \in Nat
          /\ Parent(q) = PlaceOf(r, level-1)
          /\ q = at <=> PlaceOf(r, level-1) = Parent(at) /\ Id(q) = Id(at)
      BY <1>3, BelowFacts
    <3>2. Around(r)' <=> /\ PlaceOf(r, level-1) = Own(level-1)
                         /\ \/ q = Own(level)
                            \/ /\ Id(q) < Id(Own(level))
                               /\ prev[at] # NULL => Id(prev[at]) < Id(q)
                            \/ /\ Id(q) > Id(Own(level))
                               /\ cursor["right"] # NULL => Id(q) < Id(cursor["right"])
      BY <2>1, <1>1, <1>9, JobKept DEF Around, InGroup, Between
    <3>3. Around(r) <=> /\ PlaceOf(r, level-1) = Own(level-1)
                        /\ \/ q = Own(level)
                           \/ /\ Id(q) < Id(Own(level))
                              /\ Id(at) < Id(q)
                           \/ /\ Id(q) > Id(Own(level))
                              /\ cursor["right"] # NULL => Id(q) < Id(cursor["right"])
      BY <1>1, <1>3, <1>10 DEF Around, InGroup, Between
    <3>4. PlaceOf(r, level-1) = Own(level-1) /\ Id(q) < Id(at)
          => prev[at] # NULL /\ Id(q) =< Id(prev[at])
      BY <3>1, <1>3, <1>4 DEF IInv, PrevInv
    <3>5. PlaceOf(r, level-1) = Own(level-1) /\ Id(q) < Id(Own(level)) =>
            ((prev[at] # NULL => Id(prev[at]) < Id(q)) <=> (Id(at) < Id(q) \/ Id(q) = Id(at)))
      BY <3>1, <3>4, <1>4, <1>8
    <3>6. Below(r) <=> PlaceOf(r, level-1) = Own(level-1) /\ Id(q) = Id(at)
      BY <3>1, <1>3, <1>4 DEF Below
    <3>7. Id(q) = Id(at) => Id(q) < Id(Own(level))
      BY <1>4, <1>10
    <3> QED
      BY <3>2, <3>3, <3>5, <3>6, <3>7
  <2> QED
    BY <2>2, <2>3
<1>11. ASSUME side = "right"
       PROVE  CursorInv' /\ \A r \in Rank : Around(r)' <=> Around(r) \/ Below(r)
  <2>1. cursor'["right"] = next[at] /\ cursor'["left"] = cursor["left"]
    BY <1>1, <1>6, <1>11 DEF Link
  <2>2. CursorInv'
    <3>1. next[at] # NULL => Id(next[at]) > Id(Own(level))
      BY <1>4, <1>7, <1>8, <1>11
    <3> QED
      BY <2>1, <3>1, <1>1, <1>3, <1>4, <1>5, <1>8, <1>9 DEF IInv, CursorInv
  <2>3. \A r \in Rank : Around(r)' <=> Around(r) \/ Below(r)
    <3> SUFFICES ASSUME NEW r \in Rank
                 PROVE  Around(r)' <=> Around(r) \/ Below(r)
      OBVIOUS
    <3> DEFINE q == PlaceOf(r, level)
    <3>1. /\ q \in Place /\ Tree(q) /\ Id(q) \in Nat
          /\ Parent(q) = PlaceOf(r, level-1)
          /\ q = at <=> PlaceOf(r, level-1) = Parent(at) /\ Id(q) = Id(at)
      BY <1>3, BelowFacts
    <3>2. Around(r)' <=> /\ PlaceOf(r, level-1) = Own(level-1)
                         /\ \/ q = Own(level)
                            \/ /\ Id(q) < Id(Own(level))
                               /\ cursor["left"] # NULL => Id(cursor["left"]) < Id(q)
                            \/ /\ Id(q) > Id(Own(level))
                               /\ next[at] # NULL => Id(q) < Id(next[at])
      BY <2>1, <1>1, <1>9, JobKept DEF Around, InGroup, Between
    <3>3. Around(r) <=> /\ PlaceOf(r, level-1) = Own(level-1)
                        /\ \/ q = Own(level)
                           \/ /\ Id(q) < Id(Own(level))
                              /\ cursor["left"] # NULL => Id(cursor["left"]) < Id(q)
                           \/ /\ Id(q) > Id(Own(level))
                              /\ Id(q) < Id(at)
      BY <1>1, <1>3, <1>11 DEF Around, InGroup, Between
    <3>4. PlaceOf(r, level-1) = Own(level-1) /\ Id(q) > Id(at)
          => next[at] # NULL /\ Id(next[at]) =< Id(q)
      BY <3>1, <1>3, <1>4 DEF IInv, NextInv
    <3>5. PlaceOf(r, level-1) = Own(level-1) /\ Id(q) > Id(Own(level)) =>
            ((next[at] # NULL => Id(q) < Id(next[at])) <=> (Id(q) < Id(at) \/ Id(q) = Id(at)))
      BY <3>1, <3>4, <1>4, <1>8
    <3>6. Below(r) <=> PlaceOf(r, level-1) = Own(level-1) /\ Id(q) = Id(at)
      BY <3>1, <1>3, <1>4 DEF Below
    <3>7. Id(q) = Id(at) => Id(q) > Id(Own(level))
      BY <1>4, <1>11
    <3> QED
      BY <3>2, <3>3, <3>5, <3>6, <3>7
  <2> QED
    BY <2>2, <2>3
<1>12. AtInv'
  BY <1>1 DEF AtInv, OwnRanks, Inside
<1>13. \A r \in Rank : Listed(r)' <=> Listed(r)
  <2>1. \A r : ~Passed(r)
    BY <1>3 DEF Passed
  <2> QED
    BY <2>1, <1>1, <1>2, <1>3, <1>10, <1>11 DEF Listed, Inside, OwnRanks, Below
<1>14. VictimsInv' /\ NearestFirst'
  BY <1>1, <1>13, ListedKept DEF IInv
<1>15. /\ victims' \in Seq(Rank) /\ cursor' \in [{"left", "right"} -> Place \cup {NULL}]
       /\ side' \in {"left", "right"} /\ level' \in 1 .. 3 /\ index' \in Nat
       /\ at' \in Place \cup {NULL}
  BY <1>1, <1>3, <1>6 DEF IInv, TypeOK, Other, Link
<1>16. CursorInv'
  BY <1>3, <1>10, <1>11
<1> QED
  BY <1>1, <1>3, <1>12, <1>14, <1>15, <1>16, WalkStep

\* The ranks of the place that is being added.
LEMMA WorkerFacts ==
  ASSUME IInv, pc = "ranks"
  PROVE  /\ i = N /\ JobType /\ level \in 1 .. 3 /\ at \in Place /\ Len(at) = 3
         /\ workers[at] \in Seq(Rank) /\ index \in Nat /\ index =< Len(workers[at])
         /\ \A k \in 1 .. Len(workers[at]) :
              /\ workers[at][k] \in Rank /\ PlaceOf(workers[at][k], 3) = at
              /\ \A j \in 1 .. Len(workers[at]) : j < k => workers[at][j] # workers[at][k]
         /\ \A r \in Rank : PlaceOf(r, 3) = at
                            => \E k \in 1 .. Len(workers[at]) : workers[at][k] = r
<1>1. /\ i = N /\ JobType /\ level \in 1 .. 3 /\ at \in Place /\ Len(at) = 3
      /\ workers[at] \in Seq(Rank) /\ index \in Nat /\ index =< Len(workers[at])
  BY DEF IInv, PhaseInv, Walking, TypeOK, JobType, AtInv
<1>2. \A r \in Rank : r < i
  BY <1>1, NAssumption DEF Rank
<1>3. \A k \in 1 .. Len(workers[at]) : workers[at][k] \in Rank
  BY <1>1
<1>4. \A j, k \in 1 .. Len(workers[at]) : j < k => workers[at][j] # workers[at][k]
  <2>1. \A j, k \in DOMAIN workers[at] : j < k => workers[at][j] < workers[at][k]
    BY <1>1 DEF IInv, WorkersInv
  <2>2. \A k \in 1 .. Len(workers[at]) : workers[at][k] \in Nat /\ k \in DOMAIN workers[at]
    <3>1. \A r \in Rank : r \in Nat
      BY RankFacts
    <3>2. DOMAIN workers[at] = 1 .. Len(workers[at])
      BY <1>1
    <3> QED
      BY <3>1, <3>2, <1>3
  <2>3. \A x \in Nat : ~(x < x)
    OBVIOUS
  <2> QED
    BY <2>1, <2>2, <2>3
<1>5. \A k \in 1 .. Len(workers[at]) : PlaceOf(workers[at][k], 3) = at
  BY <1>1 DEF IInv, WorkersInv
<1>6. \A r \in Rank : PlaceOf(r, 3) = at
                      => \E k \in 1 .. Len(workers[at]) : workers[at][k] = r
  BY <1>1, <1>2 DEF IInv, WorkersInv
<1> QED
  BY <1>1, <1>3, <1>4, <1>5, <1>6

LEMMA EndRanksInv ==
  ASSUME IInv, EndRanks
  PROVE  IInv'
<1>1. /\ pc = "ranks" /\ index = Len(workers[at]) /\ index' = 0
      /\ UNCHANGED <<job, i, head, tree, victims, steal>>
      /\ UNCHANGED <<job, i, head, tree, steal>> /\ UNCHANGED <<job, victims>>
  BY DEF EndRanks
<1>2. /\ pc \in Walking \ {"ready"} /\ level \in 1 .. 3 /\ i = N /\ Len(at) = 3
      /\ at \in Place /\ side \in {"left", "right"}
  BY <1>1, WorkerFacts DEF Walking, IInv, TypeOK
<1>3. \A r \in Rank : Reached(r) <=> PlaceOf(r, 3) = at
  BY <1>1, WorkerFacts DEF Reached
<1>4. CASE at = Own(3)
  <2>1. WalkAround(3)
    BY <1>4 DEF EndRanks
  <2>2. \A r \in Rank : Listed(r) <=> PlaceOf(r, 3) = Own(3)
    BY <1>1, <1>3, <1>4 DEF Listed, OwnRanks, Inside
  <2> QED
    BY <1>1, <1>2, <2>1, <2>2, WalkAroundStep
<1>5. CASE at # Own(3)
  <2>1. pc' = "up" /\ UNCHANGED <<level, cursor, side, at>> /\ UNCHANGED <<job, level, cursor>>
        /\ pc' \in Walking
    BY <1>1, <1>5 DEF EndRanks, Walking
  <2>2. Inside
    BY <1>1, <1>5 DEF Inside, OwnRanks
  <2>3. \A q : Tree(q)' <=> Tree(q)
    BY <1>1, <1>2, <2>1, WalkKeeps
  <2>4. CursorInv' /\ \A r : Around(r)' <=> Around(r)
    BY <2>1, <2>3, CursorKept
  <2>5. AtInv'
    <3>1. Tree(at)'
      BY <2>1, <2>2, <2>3, AtFacts
    <3> QED
      BY <2>1, <2>2, <3>1, <1>1 DEF IInv, AtInv, OwnRanks, Inside
  <2>6. \A r : (Passed(r)' <=> Passed(r)) /\ (Below(r)' <=> Below(r))
    BY <2>1, <1>1, JobKept DEF Passed, Smaller, Below
  <2>7. \A r \in Rank : Listed(r)' <=> Listed(r)
    BY <2>1, <2>2, <2>4, <2>6, <1>1, <1>2, <1>3 DEF Listed, Inside, OwnRanks, Below
  <2>8. VictimsInv' /\ NearestFirst'
    BY <1>1, <2>7, ListedKept DEF IInv
  <2>9. /\ victims' \in Seq(Rank) /\ cursor' \in [{"left", "right"} -> Place \cup {NULL}]
        /\ index' \in Nat
    BY <1>1, <2>1 DEF IInv, TypeOK
  <2> QED
    BY <1>1, <1>2, <2>1, <2>4, <2>5, <2>8, <2>9, WalkStep
<1> QED
  BY <1>4, <1>5

LEMMA AppendVictim ==
  ASSUME VictimsInv, NearestFirst, JobType, UNCHANGED job,
         NEW r \in Rank, r # me, ~Listed(r),
         victims \in Seq(Rank), victims' = Append(victims, r),
         \A x \in Rank : Listed(x)' <=> Listed(x) \/ x = r,
         \A x \in Rank : Listed(x) => Distance(x) =< Distance(r)
  PROVE  VictimsInv' /\ NearestFirst'
<1>1. /\ Len(victims) \in Nat /\ DOMAIN victims = 1 .. Len(victims)
      /\ DOMAIN victims' = 1 .. Len(victims)+1
      /\ \A k \in 1 .. Len(victims) : victims'[k] = victims[k] /\ victims[k] \in Rank
      /\ victims'[Len(victims)+1] = r
  OBVIOUS
<1>2. me' = me /\ \A x : Distance(x)' = Distance(x)
  BY DEF Distance, PlaceOf, Own, job
<1>3. \A k \in 1 .. Len(victims) : Listed(victims[k]) /\ victims[k] # r
  BY <1>1 DEF VictimsInv
<1>4. VictimsInv'
  <2>1. ASSUME NEW x \in Rank
        PROVE  (\E k \in DOMAIN victims' : victims'[k] = x) <=> x # me' /\ Listed(x)'
    <3>1. (\E k \in DOMAIN victims' : victims'[k] = x)
          <=> (\E k \in 1 .. Len(victims) : victims[k] = x) \/ x = r
      BY <1>1
    <3> QED
      BY <3>1, <1>1, <1>2 DEF VictimsInv
  <2>2. ASSUME NEW j \in DOMAIN victims', NEW k \in DOMAIN victims', victims'[j] = victims'[k]
        PROVE  j = k
    <3>1. CASE j \in 1 .. Len(victims) /\ k \in 1 .. Len(victims)
      BY <3>1, <2>2, <1>1 DEF VictimsInv
    <3>2. CASE j = Len(victims)+1 /\ k = Len(victims)+1
      BY <3>2
    <3>3. CASE (j = Len(victims)+1) # (k = Len(victims)+1)
      BY <3>3, <2>2, <1>1, <1>3
    <3> QED
      BY <3>1, <3>2, <3>3, <1>1
  <2> QED
    BY <2>1, <2>2 DEF VictimsInv
<1>5. NearestFirst'
  <2> SUFFICES ASSUME NEW j \in 1 .. Len(victims)+1, NEW k \in 1 .. Len(victims)+1, j < k
               PROVE  Distance(victims'[j]) =< Distance(victims'[k])
    BY <1>1, <1>2 DEF NearestFirst
  <2>1. j \in 1 .. Len(victims)
    BY <1>1
  <2>2. CASE k \in 1 .. Len(victims)
    BY <2>1, <2>2, <1>1 DEF NearestFirst
  <2>3. CASE k = Len(victims)+1
    BY <2>1, <2>3, <1>1, <1>3
  <2> QED
    BY <2>2, <2>3, <1>1
<1> QED
  BY <1>4, <1>5

LEMMA AddRankInv ==
  ASSUME IInv, AddRank
  PROVE  IInv'
<1> DEFINE r == workers[at][index + 1]
           W == workers[at]
<1>1. /\ pc = "ranks" /\ index < Len(workers[at]) /\ index' = index + 1
      /\ victims' = IF at = Own(3) /\ r = me THEN victims ELSE Append(victims, r)
      /\ UNCHANGED <<job, pc, i, level, head, tree, cursor, side, at, steal>>
      /\ UNCHANGED <<job, i, head, tree, steal>> /\ UNCHANGED <<job, level, cursor>>
      /\ UNCHANGED job
  BY DEF AddRank
<1>2. /\ i = N /\ JobType /\ level \in 1 .. 3 /\ at \in Place /\ Len(at) = 3
      /\ W \in Seq(Rank) /\ index \in Nat /\ pc \in Walking \ {"ready"} /\ pc' \in Walking
      /\ side \in {"left", "right"} /\ me \in Rank /\ victims \in Seq(Rank)
  BY <1>1, WorkerFacts DEF Walking, IInv, TypeOK
<1>3. index + 1 \in 1 .. Len(W) /\ \A k \in 1 .. index : k \in 1 .. Len(W) /\ k < index + 1
  BY <1>1, <1>2
<1>4. /\ r \in Rank /\ PlaceOf(r, 3) = at
      /\ \A k \in 1 .. index : W[k] # r /\ PlaceOf(W[k], 3) = at
  BY <1>1, <1>3, WorkerFacts
<1>5. ~Reached(r) /\ \A x : Reached(x) => PlaceOf(x, 3) = at
  BY <1>4 DEF Reached
<1>6. \A x : Reached(x)' <=> Reached(x) \/ x = r
  <2>1. workers'[at'] = W /\ \A k : k \in 1 .. index + 1 <=> k \in 1 .. index \/ k = index + 1
    BY <1>1, <1>2 DEF tree
  <2> QED
    BY <2>1, <1>1 DEF Reached
<1>7. \A q : Tree(q)' <=> Tree(q)
  BY <1>1, <1>2, WalkKeeps
<1>8. CursorInv' /\ \A x : Around(x)' <=> Around(x)
  BY <1>1, <1>2, <1>7, CursorKept
<1>9. /\ OwnRanks' <=> OwnRanks
      /\ Inside' <=> Inside
  BY <1>1, JobKept DEF OwnRanks, Inside
<1>10. AtInv'
  <2>1. index' =< Len(workers[at])'
    BY <1>1, <1>2 DEF tree
  <2>2. Tree(at)' <=> Tree(at)
    BY <1>1, <1>7
  <2> QED
    BY <2>1, <2>2, <1>1, <1>9 DEF IInv, AtInv, tree
<1> HIDE DEF r, W
<1>11. VictimsInv' /\ NearestFirst'
  <2>1. \A x : Passed(x)' <=> Passed(x)
    BY <1>1, JobKept DEF Passed, Smaller
  <2>2. \A x \in Rank : Listed(x)' <=> Listed(x) \/ x = r
    BY <2>1, <1>1, <1>6, <1>8, <1>9 DEF Listed, Inside, OwnRanks
  <2>3. CASE at = Own(3)
    <3>1. OwnRanks /\ ~Inside
      BY <2>3, <1>1 DEF OwnRanks, Inside
    <3>2. \A x \in Rank : Listed(x) <=> Reached(x)
      BY <3>1, <1>1 DEF Listed
    <3>3. \A x \in Rank : Listed(x) => Distance(x) = 0
      BY <3>2, <2>3, <1>2, <1>5, DistanceFacts
    <3>4. CASE r = me
      <4>1. victims' = victims /\ me' = me
        BY <3>4, <2>3, <1>1 DEF job
      <4>2. VictimsInv'
        BY <4>1, <3>4, <2>2 DEF IInv, VictimsInv
      <4>3. \A x : Distance(x)' = Distance(x)
        BY <1>1, JobKept DEF Distance
      <4>4. NearestFirst'
        BY <4>1, <4>3 DEF IInv, NearestFirst
      <4> QED
        BY <4>2, <4>4
    <3>5. CASE r # me
      <4>1. victims' = Append(victims, r)
        BY <3>5, <1>1
      <4>2. ~Listed(r)
        BY <3>2, <1>4, <1>5
      <4>3. \A x \in Rank : Listed(x) => Distance(x) =< Distance(r)
        BY <3>3, <1>2, <1>4, DistanceFacts
      <4> QED
        BY <4>1, <4>2, <4>3, <3>5, <2>2, <1>1, <1>2, <1>4, AppendVictim DEF IInv
    <3> QED
      BY <3>4, <3>5
  <2>4. CASE at # Own(3)
    <3>1. Inside /\ ~OwnRanks
      BY <2>4, <1>1 DEF OwnRanks, Inside
    <3>2. \A x \in Rank : Listed(x) <=> Around(x) \/ Passed(x) \/ Reached(x)
      BY <3>1, <1>1 DEF Listed
    <3>3. victims' = Append(victims, r) /\ r # me
      BY <2>4, <1>1, <1>4 DEF Own
    <3>4. Below(r) /\ \A x \in Rank : Reached(x) => Below(x)
      BY <1>2, <1>4, <1>5 DEF Below
    <3>5. /\ PlaceOf(r, level) = cursor[side] /\ InGroup(r) /\ ~Between(r)
      BY <3>1, <3>4, <1>4, AtFacts
    <3>6. ~Passed(r)
      <4>1. Id(at) \in Nat /\ Parent(at) \in Place /\ Parent(at) = PlaceOf(r, 2)
            /\ Len(Parent(at)) = 2
        BY <1>2, <1>4, <3>1, AtFacts, RankPlaces, PlaceFacts
      <4>2. Id(Parent(at)) \in Nat
        BY <4>1, <1>2, <1>4, RankIds
      <4>3. PlaceOf(r, Len(at)) = at /\ PlaceOf(r, Len(Parent(at))) = Parent(at)
        BY <4>1, <1>2, <1>4
      <4>4. ~(Id(at) < Id(at)) /\ ~(Id(Parent(at)) < Id(Parent(at)))
        BY <4>1, <4>2
      <4> QED
        BY <4>3, <4>4 DEF Passed, Smaller
    <3>7. ~Listed(r)
      BY <3>2, <3>5, <3>6, <1>4, <1>5 DEF Around
    <3>8. \A x \in Rank : Listed(x) => InGroup(x)
      BY <3>1, <3>2, <3>4, AtFacts DEF Around
    <3>9. PlaceOf(r, level) # Own(level)
      BY <3>5 DEF Between
    <3>10. /\ Distance(r) = 4 - level
           /\ \A x \in Rank : Listed(x) => Distance(x) =< 4 - level
      BY <3>5, <3>8, <3>9, <1>2, <1>4, DistanceFacts DEF InGroup
    <3> QED
      BY <3>3, <3>7, <3>10, <2>2, <1>1, <1>2, <1>4, AppendVictim DEF IInv
  <2> QED
    BY <2>3, <2>4
<1>12. /\ victims' \in Seq(Rank) /\ cursor' \in [{"left", "right"} -> Place \cup {NULL}]
       /\ index' \in Nat /\ level' \in 1 .. 3 /\ side' \in {"left", "right"}
       /\ at' \in Place \cup {NULL} /\ pc' = "ranks"
  BY <1>1, <1>2, <1>4 DEF IInv, TypeOK
<1> QED
  BY <1>1, <1>2, <1>8, <1>10, <1>11, <1>12, WalkStep

-----------------------------------------------------------------------------
(* The search, and the invariant.                                          *)

LEMMA SearchKeeps ==
  ASSUME IInv, UNCHANGED <<job, pc, i, level, head, tree, walk>>
  PROVE  /\ PhaseInv' /\ LinksInv' /\ WorkersInv'
         /\ CursorInv' /\ AtInv' /\ VictimsInv' /\ NearestFirst'
<1>1. /\ UNCHANGED <<job, i>> /\ UNCHANGED <<child, next, prev>> /\ level' = level
      /\ UNCHANGED <<job, i, workers>> /\ UNCHANGED <<job, victims>>
      /\ UNCHANGED <<head, pc, cursor, side, at, index, workers>> /\ UNCHANGED job
  BY DEF tree, walk
<1>2. \A q : Tree(q)' <=> Tree(q)
  BY <1>1, SameTree
<1>3. LinksInv'
  BY <1>1, <1>2, LinksKept, InvParts DEF BuildInv
<1>4. WorkersInv'
  BY <1>1, WorkersKept DEF IInv
<1>5. PhaseInv'
  <2>1. New' = New
    BY <1>1, JobKept DEF New
  <2> QED
    BY <1>1, <1>2, <2>1 DEF IInv, PhaseInv, Rank
<1>6. CursorInv'
  BY <1>1, <1>2, JobKept DEF IInv, CursorInv
<1>7. (OwnRanks' <=> OwnRanks) /\ (Inside' <=> Inside)
  BY <1>1, JobKept DEF OwnRanks, Inside
<1>8. AtInv'
  BY <1>1, <1>2, <1>7 DEF IInv, AtInv
<1>9. \A r : Listed(r)' <=> Listed(r)
  <2>1. \A r : (Around(r)' <=> Around(r)) /\ (Passed(r)' <=> Passed(r))
    BY <1>1, JobKept DEF Around, InGroup, Between, Passed, Smaller
  <2>2. \A r : Reached(r)' <=> Reached(r)
    BY <1>1 DEF Reached
  <2> QED
    BY <1>1, <1>7, <2>1, <2>2, JobKept DEF Listed
<1>10. VictimsInv' /\ NearestFirst'
  BY <1>1, <1>9, ListedKept DEF IInv
<1> QED
  BY <1>3, <1>4, <1>5, <1>6, <1>8, <1>10

LEMMA SearchStepInv ==
  ASSUME IInv, Search
  PROVE  IInv'
<1>1. UNCHANGED <<job, pc, i, level, head, tree, walk>>
  BY DEF Search, StartSearch, selectvictim, EndSearch
<1>2. /\ PhaseInv' /\ LinksInv' /\ WorkersInv'
      /\ CursorInv' /\ AtInv' /\ VictimsInv' /\ NearestFirst'
  BY <1>1, SearchKeeps
<1>3. /\ Attempts \in Nat /\ Attempts' = Attempts /\ victims' = victims /\ pc' = pc
      /\ last_steal \in 0 .. Attempts /\ attempt \in 0 .. Attempts + 1
      /\ searches \in 0 .. MaxSearch /\ MaxSearch \in Nat
      /\ chosen \in Seq(Rank \cup {-1}) /\ victims \in Seq(Rank)
  BY <1>1, NAssumption, SearchAssumption DEF IInv, TypeOK, Attempts, walk
<1>4. /\ attempt > 0 \/ chosen # <<>> => pc = "ready"
      /\ attempt > 0 => Len(chosen) = attempt - 1 /\ last_steal = attempt - 1
      /\ Len(chosen) =< Attempts
      /\ \A k \in DOMAIN chosen :
           chosen[k] = IF k =< Len(victims) THEN victims[k] ELSE -1
  BY DEF IInv, SearchInv
<1>5. /\ last_steal' \in 0 .. Attempts /\ attempt' \in 0 .. Attempts + 1
      /\ searches' \in 0 .. MaxSearch /\ chosen' \in Seq(Rank \cup {-1})
      /\ SearchInv'
  <2>1. CASE StartSearch
    <3>1. pc = "ready" /\ last_steal' = 0 /\ attempt' = 1 /\ chosen' = <<>>
          /\ searches' = searches + 1 /\ searches < MaxSearch
      BY <2>1 DEF StartSearch
    <3> QED
      BY <3>1, <1>3 DEF SearchInv
  <2>2. CASE selectvictim
    <3> DEFINE v == IF last_steal + 1 =< Len(victims) THEN victims[last_steal + 1] ELSE -1
    <3>1. attempt \in 1 .. Attempts /\ chosen' = Append(chosen, v)
          /\ last_steal' = last_steal + 1 /\ attempt' = attempt + 1 /\ searches' = searches
      BY <2>2 DEF selectvictim
    <3>2. v \in Rank \cup {-1}
      BY <1>3
    <3> HIDE DEF v
    <3>3. /\ Len(chosen) = attempt - 1 /\ last_steal = attempt - 1 /\ pc = "ready"
      BY <3>1, <1>4
    <3>4. /\ chosen' \in Seq(Rank \cup {-1}) /\ Len(chosen') = attempt
          /\ DOMAIN chosen' = 1 .. attempt /\ chosen'[attempt] = v
          /\ \A k \in 1 .. attempt - 1 : chosen'[k] = chosen[k] /\ k \in DOMAIN chosen
      BY <3>1, <3>2, <3>3, <1>3
    <3>5. \A k \in DOMAIN chosen' :
            chosen'[k] = IF k =< Len(victims) THEN victims[k] ELSE -1
      <4> SUFFICES ASSUME NEW k \in 1 .. attempt
                   PROVE  chosen'[k] = IF k =< Len(victims) THEN victims[k] ELSE -1
        BY <3>4
      <4>1. CASE k = attempt
        BY <4>1, <3>1, <3>3, <3>4 DEF v
      <4>2. CASE k # attempt
        BY <4>2, <3>1, <3>4, <1>4
      <4> QED
        BY <4>1, <4>2
    <3>6. SearchInv'
      BY <3>1, <3>3, <3>4, <3>5, <1>3 DEF SearchInv
    <3> QED
      BY <3>1, <3>3, <3>4, <3>6, <1>3
  <2>3. CASE EndSearch
    <3>1. attempt > 0 /\ attempt' = 0 /\ UNCHANGED <<last_steal, searches, chosen>>
      BY <2>3 DEF EndSearch
    <3> QED
      BY <3>1, <1>3, <1>4 DEF SearchInv
  <2> QED
    BY <2>1, <2>2, <2>3 DEF Search
<1>6. TypeOK'
  <2>1. TypeOK /\ UNCHANGED <<head, child, next, prev, workers, cursor, side, at, index>>
    BY <1>1 DEF IInv, tree, walk
  <2> QED
    BY <2>1, <1>1, <1>3, <1>5 DEF TypeOK, job
<1> QED
  BY <1>2, <1>5, <1>6 DEF IInv, LinksInv

LEMMA StutterInv ==
  ASSUME IInv, UNCHANGED vars
  PROVE  IInv'
<1>1. UNCHANGED <<job, pc, i, level, head, tree, walk>> /\ UNCHANGED steal
  BY DEF vars
<1>2. /\ PhaseInv' /\ LinksInv' /\ WorkersInv'
      /\ CursorInv' /\ AtInv' /\ VictimsInv' /\ NearestFirst'
  BY <1>1, SearchKeeps
<1>3. TypeOK' /\ SearchInv'
  BY <1>1 DEF IInv, TypeOK, SearchInv, job, tree, walk, steal, Attempts
<1> QED
  BY <1>2, <1>3 DEF IInv, LinksInv

LEMMA InitInv ==
  ASSUME Init
  PROVE  IInv
<1>1. JobType
  BY DEF Init, JobType
<1>2. \A q \in Place : ~Tree(q)
  <2> SUFFICES ASSUME NEW q \in Place, q # root
               PROVE  ~InTree(q)
    BY DEF Tree
  <2>1. Len(q) \in 1 .. 3
    BY PlaceFacts
  <2>2. i = 0 /\ level = 1
    BY DEF Init
  <2>3. \A r \in Rank : ~(r < i \/ (r = i /\ Len(q) < level))
    <3>1. \A r \in Rank : r \in Nat
      BY RankFacts
    <3>2. \A x \in 1 .. 3 : ~(x < 1)
      OBVIOUS
    <3> QED
      BY <2>1, <2>2, <3>1, <3>2
  <2> QED
    BY <2>3 DEF InTree
<1>3. TypeOK
  BY NAssumption, SearchAssumption DEF Init, TypeOK, Attempts
<1>4. PhaseInv
  BY RankFacts DEF Init, PhaseInv, Walking
<1>5. FirstInv /\ NextInv /\ PrevInv /\ FreshInv
  BY <1>2 DEF Init, FirstInv, NextInv, PrevInv, FreshInv
<1>6. WorkersInv
  <2>1. \A r \in Rank : ~(r < 0)
    BY RankFacts
  <2> QED
    BY <2>1 DEF Init, WorkersInv
<1>7. CursorInv /\ AtInv
  BY DEF Init, CursorInv, AtInv, OwnRanks, Inside
<1>8. VictimsInv /\ NearestFirst
  BY DEF Init, VictimsInv, NearestFirst, Listed, OwnRanks, Inside
<1>9. SearchInv
  BY NAssumption DEF Init, SearchInv, Attempts
<1> QED
  BY <1>3, <1>4, <1>5, <1>6, <1>7, <1>8, <1>9 DEF IInv

\* The invariant of the loops.
THEOREM HptInvariant == Spec => []IInv
<1>1. Init => IInv
  BY InitInv
<1>2. IInv /\ [Next]_vars => IInv'
  <2> SUFFICES ASSUME IInv, [Next]_vars
               PROVE  IInv'
    OBVIOUS
  <2>1. CASE add_place
    <3>1. BuildInv'
      BY <2>1, AddPlaceInv, InvParts
    <3>2. /\ pc = "add" /\ UNCHANGED <<job, steal, cursor, index, victims>>
          /\ pc' \in Building
      BY <2>1 DEF add_place, walk, Building, AddFirst, Found, InsertBefore, StartWalk, Placed
    <3>3. WalkInv' /\ SearchInv'
      BY <3>1, <3>2, BuildKeeps DEF Building
    <3> QED
      BY <3>1, <3>3 DEF IInv, BuildInv, LinksInv, WalkInv
  <2>2. CASE sortedInsertion
    <3>1. BuildInv'
      BY <2>2, SortedInsertionInv, InvParts
    <3>2. /\ pc = "walk" /\ UNCHANGED <<job, steal, cursor, index, victims>>
          /\ pc' \in Building
      BY <2>2 DEF sortedInsertion, walk, Building, Found, InsertAfter, NextSibling, Placed
    <3>3. WalkInv' /\ SearchInv'
      BY <3>1, <3>2, BuildKeeps DEF Building
    <3> QED
      BY <3>1, <3>3 DEF IInv, BuildInv, LinksInv, WalkInv
  <2>3. CASE add_rank_in_blade
    <3>1. BuildInv'
      BY <2>3, AddRankInBladeInv, InvParts
    <3>2. /\ pc = "rank" /\ UNCHANGED <<job, steal, cursor, index, victims>>
          /\ \/ pc' \in Building
             \/ pc' = "ranks" /\ at' = Own(3) /\ level' = 3
      BY <2>3 DEF add_rank_in_blade, Building
    <3>3. WalkInv' /\ SearchInv'
      BY <3>1, <3>2, BuildKeeps DEF Building
    <3> QED
      BY <3>1, <3>3 DEF IInv, BuildInv, LinksInv, WalkInv
  <2>4. CASE create_proximity_array
    BY <2>4, AddRankInv, EndRanksInv, TurnInv, EndAroundInv, DownInv, UpInv, FurtherInv
       DEF create_proximity_array
  <2>5. CASE Search
    BY <2>5, SearchStepInv
  <2>6. CASE UNCHANGED vars
    BY <2>6, StutterInv
  <2> QED
    BY <2>1, <2>2, <2>3, <2>4, <2>5, <2>6 DEF Next, Build
<1> QED
  BY <1>1, <1>2, PTL DEF Spec

-----------------------------------------------------------------------------
(* What the invariant shows.                                               *)

\* Every variable has its type.
THEOREM HptTypes == Spec => []TypeOK
<1>1. IInv => TypeOK
  BY DEF IInv
<1> QED
  BY <1>1, HptInvariant, PTL

\* The lists of children are complete and sorted after every insertion.
THEOREM TreeIsSorted == Spec => []ListsAreSorted
<1>1. IInv => ListsAreSorted
  <2> SUFFICES ASSUME IInv, NEW p \in Place
               PROVE  /\ IsFirst(child[p], Added(p))
                      /\ \A q \in Added(p) :
                           /\ IsFirst(next[q], {s \in Added(p) : Id(s) > Id(q)})
                           /\ IsLast(prev[q], {s \in Added(p) : Id(s) < Id(q)})
    BY DEF ListsAreSorted
  <2>1. \A q : q \in Added(p) <=> q \in Place /\ Tree(q) /\ Parent(q) = p
    BY DEF Added, Tree
  <2>2. /\ \A q \in Place : /\ child[q] # NULL => child[q] \in Place
                            /\ next[q] # NULL => next[q] \in Place
                            /\ prev[q] # NULL => prev[q] \in Place
        /\ NULL \notin Place
    BY TypesOfLinks, NullFacts DEF IInv
  <2>3. IsFirst(child[p], Added(p))
    BY <2>1, <2>2 DEF IInv, FirstInv, IsFirst
  <2>4. ASSUME NEW q \in Added(p)
        PROVE  /\ IsFirst(next[q], {s \in Added(p) : Id(s) > Id(q)})
               /\ IsLast(prev[q], {s \in Added(p) : Id(s) < Id(q)})
    <3>1. q \in Place /\ Tree(q) /\ Parent(q) = p
      BY <2>1
    <3>2. IsFirst(next[q], {s \in Added(p) : Id(s) > Id(q)})
      <4>1. next[q] # NULL => next[q] \in Added(p) /\ Id(next[q]) > Id(q)
        BY <2>1, <2>2, <3>1 DEF IInv, NextInv
      <4>2. \A s \in Added(p) : Id(s) > Id(q) => next[q] # NULL /\ Id(next[q]) =< Id(s)
        BY <2>1, <3>1 DEF IInv, NextInv
      <4> QED
        BY <4>1, <4>2 DEF IsFirst
    <3>3. IsLast(prev[q], {s \in Added(p) : Id(s) < Id(q)})
      <4>1. prev[q] # NULL => prev[q] \in Added(p) /\ Id(prev[q]) < Id(q)
        BY <2>1, <2>2, <3>1 DEF IInv, PrevInv
      <4>2. \A s \in Added(p) : Id(s) < Id(q) => prev[q] # NULL /\ Id(s) =< Id(prev[q])
        BY <2>1, <3>1 DEF IInv, PrevInv
      <4> QED
        BY <4>1, <4>2 DEF IsLast
    <3> QED
      BY <3>2, <3>3
  <2> QED
    BY <2>3, <2>4
<1> QED
  BY <1>1, HptInvariant, PTL

LEMMA OtherRanks ==
  ASSUME me \in Rank
  PROVE  IsFiniteSet(Rank \ {me}) /\ Cardinality(Rank \ {me}) = N - 1
<1>1. N-1 \in Int /\ 0 \in Int /\ ~(0 > N-1) /\ N-1-0+1 = N
  BY NAssumption
<1>2. IsFiniteSet(Rank) /\ Cardinality(Rank) = N
  BY <1>1, FS_Interval DEF Rank
<1> QED
  BY <1>2, FS_RemoveElement

LEMMA VictimsFacts ==
  ASSUME IInv
  PROVE  /\ Len(victims) \in Nat /\ Len(victims) =< N - 1
         /\ pc = "ready" => Len(victims) = N - 1 /\ ToSet(victims) = Rank \ {me}
         /\ \A k \in 1 .. Len(victims) : victims[k] \in Rank \ {me}
         /\ \A j, k \in 1 .. Len(victims) : victims[j] = victims[k] => j = k
<1>1. /\ me \in Rank /\ victims \in Seq(Rank) /\ Len(victims) \in Nat
      /\ DOMAIN victims = 1 .. Len(victims)
      /\ \A k \in 1 .. Len(victims) : victims[k] \in Rank
  BY DEF IInv, TypeOK
<1>2. /\ \A k \in 1 .. Len(victims) : victims[k] \in Rank \ {me}
      /\ \A j, k \in 1 .. Len(victims) : victims[j] = victims[k] => j = k
  BY <1>1 DEF IInv, VictimsInv
<1> DEFINE D == 1 .. Len(victims)
           O == Rank \ {me}
<1>3. victims \in [D -> O]
  BY <1>1, <1>2
<1>4. victims \in Injection(D, O)
  BY <1>1, <1>2, <1>3 DEF Injection, IsInjective
<1>5. IsFiniteSet(O) /\ Cardinality(O) = N - 1
  BY <1>1, OtherRanks
<1>6. IsFiniteSet(D) /\ Cardinality(D) = Len(victims)
  <2>1. 1 \in Int /\ Len(victims) \in Int
    BY <1>1
  <2>2. IsFiniteSet(D) /\ Cardinality(D) = IF 1 > Len(victims) THEN 0 ELSE Len(victims)-1+1
    BY <2>1, FS_Interval
  <2> QED
    BY <2>2, <1>1
<1> HIDE DEF D, O
<1>7. /\ Cardinality(D) =< Cardinality(O)
      /\ Cardinality(D) = Cardinality(O) <=> victims \in Surjection(D, O)
  BY <1>4, <1>5, FS_Injection
<1>8. ASSUME pc = "ready"
      PROVE  Len(victims) = N - 1 /\ ToSet(victims) = Rank \ {me}
  <2>1. \A r \in O : \E k \in D : victims[k] = r
    BY <1>1, <1>8 DEF IInv, VictimsInv, Listed, D, O
  <2>2. victims \in Surjection(D, O)
    BY <1>3, <2>1 DEF Surjection, D, O
  <2>3. ToSet(victims) = O
    BY <1>1, <1>2, <2>1 DEF ToSet, D, O
  <2> QED
    BY <2>2, <2>3, <1>5, <1>6, <1>7 DEF O
<1> QED
  BY <1>1, <1>2, <1>5, <1>6, <1>7, <1>8

\* The array is never overrun, and in the end holds every other rank once.
THEOREM OrderIsComplete == Spec => []VictimsAreTheOthers
<1>1. IInv => VictimsAreTheOthers
  BY VictimsFacts DEF VictimsAreTheOthers
<1> QED
  BY <1>1, HptInvariant, PTL

\* The victims are in the order of their distance.
THEOREM OrderIsNearestFirst == Spec => []NearestFirst
<1>1. IInv => NearestFirst
  BY DEF IInv
<1> QED
  BY <1>1, HptInvariant, PTL

\* The synchronous search implements the abstract one, on every machine.
THEOREM SearchIsImplemented ==
  ASSUME Lifelines = FALSE
  PROVE  Spec => ImplementsVictimSearch
<1> DEFINE dist == [r \in Rank |-> Distance(r)]
<1>1. Init => VictimSearch!Init
  <2> SUFFICES ASSUME Init
               PROVE  VictimSearch!Init
    OBVIOUS
  <2>1. JobType
    BY DEF Init, JobType
  <2>2. dist \in [Rank -> 0 .. 3]
    BY <2>1, DistanceFacts
  <2> QED
    BY <2>2 DEF Init, VictimSearch!Init
<1>2. IInv /\ [Next]_vars => [VictimSearch!Next]_VictimSearch!vars
  <2> SUFFICES ASSUME IInv, [Next]_vars
               PROVE  [VictimSearch!Next]_VictimSearch!vars
    OBVIOUS
  <2>1. me' = me /\ dist' = dist
    <3>1. UNCHANGED job
      BY DEF Next, Build, Search, add_place, sortedInsertion, add_rank_in_blade,
             create_proximity_array, AddRank, EndRanks, Turn, EndAround, Down, Up, Further,
             StartSearch, selectvictim, EndSearch, vars
    <3>2. me' = me /\ \A r : Distance(r)' = Distance(r)
      BY <3>1, JobKept DEF Distance
    <3> QED
      BY <3>2
  <2>2. CASE selectvictim
    <3> DEFINE v == victims[attempt]
    <3>1. /\ attempt \in 1 .. N-1 /\ Len(chosen) = attempt - 1 /\ last_steal = attempt - 1
          /\ pc = "ready"
      BY <2>2 DEF selectvictim, Attempts, IInv, SearchInv
    <3>2. /\ Len(victims) = N - 1 /\ ToSet(victims) = Rank \ {me}
          /\ \A k \in 1 .. Len(victims) : victims[k] \in Rank \ {me}
          /\ \A j, k \in 1 .. Len(victims) : victims[j] = victims[k] => j = k
          /\ DOMAIN victims = 1 .. Len(victims)
      BY <3>1, VictimsFacts DEF IInv, TypeOK
    <3>3. chosen' = Append(chosen, v)
      BY <2>2, <3>1, <3>2 DEF selectvictim
    <3>4. /\ DOMAIN chosen = 1 .. attempt - 1
          /\ \A k \in 1 .. attempt - 1 : chosen[k] = victims[k] /\ k \in 1 .. Len(victims)
      <4>1. chosen \in Seq(Rank \cup {-1})
        BY DEF IInv, TypeOK
      <4>2. DOMAIN chosen = 1 .. attempt - 1
        BY <4>1, <3>1
      <4>3. \A k \in 1 .. attempt - 1 : k \in 1 .. Len(victims) /\ k =< Len(victims)
        BY <3>1, <3>2, NAssumption
      <4> QED
        BY <4>2, <4>3 DEF IInv, SearchInv
    <3>5. attempt \in 1 .. Len(victims) /\ \A k \in 1 .. attempt - 1 : k # attempt
      BY <3>1, <3>2
    <3>6. v \in VictimSearch!Untried
      BY <3>2, <3>4, <3>5 DEF VictimSearch!Untried
    <3>7. ASSUME NEW u \in VictimSearch!Untried
          PROVE  dist[v] =< dist[u]
      <4>1. u \in Rank \ {me} /\ \A k \in 1 .. attempt - 1 : victims[k] # u
        BY <3>4 DEF VictimSearch!Untried
      <4>2. PICK k \in 1 .. Len(victims) : victims[k] = u
        BY <3>2, <4>1 DEF ToSet
      <4>3. k = attempt \/ attempt < k
        BY <4>1, <4>2, <3>1
      <4>4. Distance(v) =< Distance(u)
        <5>1. Distance(v) \in 0 .. 3
          BY <3>2, <3>5, DistanceFacts DEF IInv, TypeOK, JobType
        <5>2. CASE attempt < k
          BY <5>2, <4>2, <3>2, <3>5 DEF IInv, NearestFirst
        <5>3. CASE k = attempt
          BY <5>1, <5>3, <4>2
        <5> QED
          BY <4>3, <5>2, <5>3
      <4> QED
        BY <4>1, <4>4, <3>2, <3>5
    <3>8. VictimSearch!Try(v)
      BY <3>3, <3>6, <3>7, <2>1 DEF VictimSearch!Try
    <3> QED
      BY <3>2, <3>5, <3>8 DEF VictimSearch!Next
  <2>3. CASE StartSearch
    BY <2>1, <2>3 DEF StartSearch, VictimSearch!Next, VictimSearch!Again
  <2>4. CASE EndSearch \/ Build \/ UNCHANGED vars
    <3>1. chosen' = chosen
      BY <2>4 DEF EndSearch, Build, add_place, sortedInsertion, add_rank_in_blade,
             create_proximity_array, AddRank, EndRanks, Turn, EndAround, Down, Up, Further,
             vars, steal
    <3> QED
      BY <2>1, <3>1 DEF VictimSearch!vars
  <2> QED
    BY <2>2, <2>3, <2>4 DEF Next, Search
<1> QED
  BY <1>1, <1>2, HptInvariant, PTL DEF Spec, ImplementsVictimSearch, VictimSearch!Spec
=============================================================================
