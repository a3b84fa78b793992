-------------------------- MODULE CommDeque_proofs --------------------------
(***************************************************************************)
(* While the program keeps at most Size communication tasks outstanding,   *)
(* the semi-concurrent deque never overruns, and it is a FIFO: proved for  *)
(* any number of producers, any Size and any number of pushes.             *)
(***************************************************************************)
EXTENDS CommDeque, FiniteSetTheorems, TLAPS

Critical(p) == pc[p] \in {"write", "inc", "unlock"}
Occupying == {p \in Producer : pc[p] \notin {"idle", "unlock"}}

\* The lock is held exactly while one producer is between Cas and Unlock.
MutexInv ==
  /\ \A p \in Producer : Critical(p) => lock = 1
  /\ \A p, q \in Producer : Critical(p) /\ Critical(q) => p = q

\* The indices are the lengths of the histories; the consumer past its test
\* has an entry to take.
IndexInv ==
  /\ deqTail = Len(pushed) /\ deqHead = Len(popped) /\ deqHead =< deqTail
  /\ cpc \in {"copy", "inc"} => deqHead < deqTail

CallInv == \A p \in Producer : pc[p] # "idle" => calls[p] < MaxPush

\* The two copies in progress: the producer's and the consumer's.
CopyInv ==
  /\ \A p \in Producer : pc[p] = "inc" => slot[deqTail % Size] = EntryOf(p)
  /\ cpc = "inc" => buff = pushed[deqHead + 1]

CapacityInv == deqTail - deqHead + Cardinality(Occupying) =< MaxOutstanding

IInv == /\ TypeOK /\ MutexInv /\ IndexInv /\ CallInv /\ CopyInv /\ CapacityInv
        /\ WindowIntact

-----------------------------------------------------------------------------
LEMMA ModType ==
  ASSUME NEW a \in Nat, NEW n \in Nat \ {0}
  PROVE  a % n \in 0 .. n-1
  OBVIOUS

\* Two indices less than n apart fall into different slots of a ring of n.
LEMMA ModInjective ==
  ASSUME NEW n \in Nat \ {0}, NEW a \in Nat, NEW b \in Nat, a < b, b - a < n
  PROVE  a % n # b % n
<1> DEFINE k == (b \div n) - (a \div n)
<1>1. /\ a = n * (a \div n) + (a % n) /\ b = n * (b \div n) + (b % n)
      /\ a \div n \in Int /\ b \div n \in Int
  OBVIOUS
<1>2. k \in Int
  BY <1>1
<1>3. SUFFICES ASSUME a % n = b % n PROVE FALSE
  OBVIOUS
<1>4. b - a = n * k
  <2>1. n * (b \div n) - n * (a \div n) = n * k
    BY <1>1
  <2>2. QED
    BY <1>1, <1>3, <2>1
<1> HIDE DEF k
<1>5. CASE k =< 0
  BY <1>2, <1>4, <1>5
<1>6. CASE k >= 1
  BY <1>2, <1>4, <1>6
<1> QED
  BY <1>2, <1>5, <1>6

-----------------------------------------------------------------------------
LEMMA OccupyingFinite == IsFiniteSet(Occupying) /\ Cardinality(Occupying) \in Nat
BY ProducerAssumption, FS_Subset, FS_CardinalityType DEF Occupying

LEMMA InitInv == Init => IInv
<1> SUFFICES ASSUME Init PROVE IInv
  OBVIOUS
<1>1. Occupying = {}
  BY DEF Init, Occupying
<1>2. CapacityInv
  BY <1>1, FS_EmptySet, BoundAssumption DEF Init, CapacityInv
<1>3. TypeOK
  <2>1. pushed \in Seq(Entry) /\ popped \in Seq(Entry)
    BY DEF Init
  <2>2. /\ calls \in [Producer -> 0 .. MaxPush] /\ seen \in [Producer -> Nat]
        /\ pc \in [Producer -> ProducerPc]
        /\ slot \in [Slots -> Entry \cup {Nothing}]
    BY BoundAssumption DEF Init, ProducerPc
  <2> QED
    BY <2>1, <2>2 DEF Init, TypeOK
<1>4. QED
  BY <1>2, <1>3, SizeAssumption
     DEF IInv, Init, MutexInv, Critical, IndexInv, CallInv, CopyInv, WindowIntact

\* A producer about to write has a slot to write to.
LEMMA RoomToWrite ==
  ASSUME IInv, MaxOutstanding =< Size, NEW p \in Producer,
         pc[p] \in {"write", "inc"}
  PROVE  deqTail - deqHead < Size
<1>1. p \in Occupying
  BY DEF Occupying
<1>2. Cardinality(Occupying) >= 1
  BY <1>1, OccupyingFinite, FS_EmptySet
<1> QED
  BY <1>2, OccupyingFinite, SizeAssumption, BoundAssumption
     DEF IInv, CapacityInv, TypeOK

\* How the steps of a producer and of the consumer change the capacity used.
LEMMA CapacityStep ==
  ASSUME IInv, [Next]_vars
  PROVE  CapacityInv'
<1> USE OccupyingFinite, BoundAssumption DEF IInv, TypeOK, CapacityInv
<1>1. ASSUME NEW p \in Producer, StartPush(p) PROVE CapacityInv'
  <2>1. Occupying = Occupying' \ {p} /\ p \in Occupying'
    BY <1>1 DEF StartPush, Goto, Occupying
  <2>2. IsFiniteSet(Occupying') /\ Cardinality(Occupying') \in Nat
    BY ProducerAssumption, FS_Subset, FS_CardinalityType DEF Occupying
  <2>3. Cardinality(Occupying) = Cardinality(Occupying') - 1
    BY <2>1, <2>2, FS_RemoveElement
  <2>4. deqTail' = deqTail /\ deqHead' = deqHead
        /\ deqTail - deqHead + Cardinality(Occupying) < MaxOutstanding
    BY <1>1 DEF StartPush, Outstanding, Occupying, shared
  <2> QED
    BY <2>2, <2>3, <2>4
<1>2. ASSUME NEW p \in Producer,
             ReadFirst(p) \/ CheckSize(p) \/ Cas(p) \/ WriteSlot(p)
      PROVE  CapacityInv'
  <2>1. Occupying' = Occupying
    BY <1>2 DEF ReadFirst, CheckSize, Cas, WriteSlot, Goto, Occupying
  <2>2. deqTail' = deqTail /\ deqHead' = deqHead
    BY <1>2 DEF ReadFirst, CheckSize, Cas, WriteSlot, shared
  <2> QED
    BY <2>1, <2>2
<1>3. ASSUME NEW p \in Producer, IncTail(p) PROVE CapacityInv'
  <2>1. Occupying' = Occupying \ {p} /\ p \in Occupying
    BY <1>3 DEF IncTail, Goto, Occupying
  <2>2. Cardinality(Occupying') = Cardinality(Occupying) - 1
    BY <2>1, FS_RemoveElement
  <2>3. deqTail' = deqTail + 1 /\ deqHead' = deqHead
    BY <1>3 DEF IncTail
  <2> QED
    BY <2>2, <2>3
<1>4. ASSUME NEW p \in Producer, Unlock(p) PROVE CapacityInv'
  <2>1. Occupying' = Occupying
    BY <1>4 DEF Unlock, Goto, Occupying
  <2> QED
    BY <1>4, <2>1 DEF Unlock
<1>5. ASSUME Pop PROVE CapacityInv'
  <2>1. Occupying' = Occupying
    BY <1>5 DEF Pop, PopTest, PopCopy, IncHead, Occupying
  <2>2. deqTail' = deqTail /\ deqHead' \in {deqHead, deqHead + 1}
    BY <1>5 DEF Pop, PopTest, PopCopy, IncHead, shared
  <2> QED
    BY <2>1, <2>2
<1>6. ASSUME UNCHANGED vars PROVE CapacityInv'
  BY <1>6 DEF vars, Occupying
<1> QED
  BY <1>1, <1>2, <1>3, <1>4, <1>5, <1>6 DEF Next, Push

-----------------------------------------------------------------------------
LEMMA EntryType ==
  ASSUME TypeOK, CallInv, NEW p \in Producer, pc[p] # "idle"
  PROVE  EntryOf(p) \in Entry /\ calls[p] + 1 \in 0 .. MaxPush
<1>1. calls[p] \in 0 .. MaxPush /\ calls[p] < MaxPush
  BY DEF TypeOK, CallInv
<1>2. calls[p] + 1 \in 1 .. MaxPush
  BY <1>1, BoundAssumption
<1> QED
  BY <1>2 DEF EntryOf, Entry

LEMMA TypeStep ==
  ASSUME IInv, [Next]_vars
  PROVE  TypeOK'
<1> USE SizeAssumption, BoundAssumption DEF IInv, TypeOK
<1>1. ASSUME NEW p \in Producer, StartPush(p) PROVE TypeOK'
  BY <1>1 DEF StartPush, Goto, shared, consumer, ProducerPc
<1>2. ASSUME NEW p \in Producer, ReadFirst(p) PROVE TypeOK'
  BY <1>2 DEF ReadFirst, Goto, shared, consumer, ProducerPc
<1>3. ASSUME NEW p \in Producer, CheckSize(p) PROVE TypeOK'
  BY <1>3 DEF CheckSize, Goto, shared, consumer, ProducerPc
<1>4. ASSUME NEW p \in Producer, Cas(p) PROVE TypeOK'
  BY <1>4 DEF Cas, Goto, consumer, ProducerPc
<1>5. ASSUME NEW p \in Producer, WriteSlot(p) PROVE TypeOK'
  <2>1. EntryOf(p) \in Entry
    BY <1>5, EntryType DEF WriteSlot
  <2>2. deqTail % Size \in Slots
    BY ModType DEF Slots
  <2> QED
    BY <1>5, <2>1, <2>2 DEF WriteSlot, Goto, consumer, ProducerPc
<1>6. ASSUME NEW p \in Producer, IncTail(p) PROVE TypeOK'
  <2>1. EntryOf(p) \in Entry
    BY <1>6, EntryType DEF IncTail
  <2> QED
    BY <1>6, <2>1 DEF IncTail, Goto, consumer, ProducerPc
<1>7. ASSUME NEW p \in Producer, Unlock(p) PROVE TypeOK'
  <2>1. calls[p] + 1 \in 0 .. MaxPush
    BY <1>7, EntryType DEF Unlock
  <2> QED
    BY <1>7, <2>1 DEF Unlock, Goto, consumer, ProducerPc
<1>8. ASSUME Pop PROVE TypeOK'
  <2>1. CASE PopTest
    BY <2>1 DEF PopTest, shared
  <2>2. CASE PopCopy
    <3>1. deqHead % Size \in Slots
      BY ModType DEF Slots
    <3> QED
      BY <2>2, <3>1 DEF PopCopy, shared
  <2>3. CASE IncHead
    <3>1. buff = pushed[deqHead + 1] /\ deqHead + 1 \in 1 .. Len(pushed)
      BY <2>3 DEF IncHead, CopyInv, IndexInv
    <3>2. buff \in Entry
      BY <3>1
    <3> QED
      BY <2>3, <3>2 DEF IncHead
  <2> QED
    BY <1>8, <2>1, <2>2, <2>3 DEF Pop
<1>9. ASSUME UNCHANGED vars PROVE TypeOK'
  BY <1>9 DEF vars
<1> QED
  BY <1>1, <1>2, <1>3, <1>4, <1>5, <1>6, <1>7, <1>8, <1>9 DEF Next, Push

LEMMA ControlStep ==
  ASSUME IInv, [Next]_vars
  PROVE  MutexInv' /\ IndexInv' /\ CallInv'
<1> USE DEF IInv, TypeOK
<1>1. MutexInv'
  <2>1. ASSUME NEW p \in Producer, Push(p) PROVE MutexInv'
    <3> USE DEF Goto, shared, MutexInv, Critical
    <3>1. CASE StartPush(p)
      BY <3>1 DEF StartPush
    <3>2. CASE ReadFirst(p)
      BY <3>2 DEF ReadFirst
    <3>3. CASE CheckSize(p)
      BY <3>3 DEF CheckSize
    <3>4. CASE Cas(p)
      BY <3>4 DEF Cas
    <3>5. CASE WriteSlot(p) \/ IncTail(p)
      BY <3>5 DEF WriteSlot, IncTail
    <3>6. CASE Unlock(p)
      BY <3>6 DEF Unlock
    <3> QED
      BY <2>1, <3>1, <3>2, <3>3, <3>4, <3>5, <3>6 DEF Push
  <2>2. ASSUME Pop PROVE MutexInv'
    BY <2>2 DEF Pop, PopTest, PopCopy, IncHead, shared, MutexInv, Critical
  <2>3. ASSUME UNCHANGED vars PROVE MutexInv'
    BY <2>3 DEF vars, MutexInv, Critical
  <2> QED
    BY <2>1, <2>2, <2>3 DEF Next
<1>2. IndexInv'
  <2>1. ASSUME NEW p \in Producer, IncTail(p) PROVE IndexInv'
    <3>1. EntryOf(p) \in Entry
      BY <2>1, EntryType DEF IncTail
    <3> QED
      BY <2>1, <3>1 DEF IncTail, consumer, IndexInv
  <2>2. ASSUME NEW p \in Producer, Push(p), ~IncTail(p) PROVE IndexInv'
    BY <2>2 DEF Push, StartPush, ReadFirst, CheckSize, Cas, WriteSlot, Unlock,
                shared, consumer, IndexInv
  <2>3. ASSUME Pop PROVE IndexInv'
    BY <2>3 DEF Pop, PopTest, PopCopy, IncHead, shared, IndexInv
  <2>4. ASSUME UNCHANGED vars PROVE IndexInv'
    BY <2>4 DEF vars, IndexInv
  <2> QED
    BY <2>1, <2>2, <2>3, <2>4 DEF Next
<1>3. CallInv'
  <2>1. ASSUME NEW p \in Producer, Push(p) PROVE CallInv'
    BY <2>1, BoundAssumption
       DEF Push, StartPush, ReadFirst, CheckSize, Cas, WriteSlot, IncTail,
           Unlock, Goto, CallInv
  <2>2. ASSUME Pop \/ UNCHANGED vars PROVE CallInv'
    BY <2>2 DEF Pop, PopTest, PopCopy, IncHead, vars, CallInv
  <2> QED
    BY <2>1, <2>2 DEF Next
<1> QED
  BY <1>1, <1>2, <1>3

-----------------------------------------------------------------------------
\* The data: this is where the capacity bound is needed, so that the slot of
\* deqTail is none of the slots between deqHead and deqTail.
LEMMA DataStep ==
  ASSUME IInv, [Next]_vars, MaxOutstanding =< Size
  PROVE  CopyInv' /\ WindowIntact'
<1> USE DEF IInv, TypeOK
<1>1. ASSUME NEW p \in Producer, WriteSlot(p) PROVE CopyInv' /\ WindowIntact'
  <2>1. /\ deqTail' = deqTail /\ deqHead' = deqHead /\ pushed' = pushed
        /\ cpc' = cpc /\ buff' = buff /\ calls' = calls
        /\ slot' = [slot EXCEPT ![deqTail % Size] = EntryOf(p)]
        /\ pc' = [pc EXCEPT ![p] = "inc"] /\ pc[p] = "write"
    BY <1>1 DEF WriteSlot, Goto, consumer
  <2>2. deqTail % Size \in Slots
    BY ModType, SizeAssumption DEF Slots
  <2>3. \A q \in Producer : pc'[q] = "inc" => q = p
    BY <2>1 DEF MutexInv, Critical
  <2>4. slot'[deqTail % Size] = EntryOf(p) /\ EntryOf(p)' = EntryOf(p)
    BY <2>1, <2>2 DEF EntryOf
  <2>5. CopyInv'
    BY <2>1, <2>3, <2>4 DEF CopyInv
  <2>6. ASSUME NEW i \in deqHead .. deqTail-1
        PROVE  slot'[i % Size] = pushed[i + 1]
    <3>1. deqTail - deqHead < Size
      BY <2>1, RoomToWrite
    <3>2. i \in Nat /\ i < deqTail /\ deqTail - i < Size
      BY <2>6, <3>1, SizeAssumption
    <3>3. i % Size # deqTail % Size
      BY <3>2, ModInjective, SizeAssumption
    <3>4. i % Size \in Slots
      BY <3>2, ModType, SizeAssumption DEF Slots
    <3> QED
      BY <2>1, <3>3, <3>4 DEF WindowIntact
  <2> QED
    BY <2>1, <2>5, <2>6 DEF WindowIntact
<1>2. ASSUME NEW p \in Producer, IncTail(p) PROVE CopyInv' /\ WindowIntact'
  <2>1. /\ deqTail' = deqTail + 1 /\ deqHead' = deqHead
        /\ pushed' = Append(pushed, EntryOf(p))
        /\ cpc' = cpc /\ buff' = buff /\ slot' = slot
        /\ pc' = [pc EXCEPT ![p] = "unlock"] /\ pc[p] = "inc"
    BY <1>2 DEF IncTail, Goto, consumer
  <2>2. EntryOf(p) \in Entry
    BY <2>1, EntryType
  <2>3. /\ pushed'[deqTail + 1] = EntryOf(p)
        /\ \A i \in 1 .. deqTail : pushed'[i] = pushed[i]
    BY <2>1, <2>2 DEF IndexInv
  <2>4. slot[deqTail % Size] = EntryOf(p)
    BY <2>1 DEF CopyInv
  <2>5. CopyInv'
    <3>1. \A q \in Producer : pc'[q] # "inc"
      BY <2>1 DEF MutexInv, Critical
    <3> QED
      BY <2>1, <2>3, <3>1 DEF CopyInv, IndexInv
  <2>6. ASSUME NEW i \in deqHead .. deqTail
        PROVE  slot[i % Size] = pushed'[i + 1]
    <3>1. CASE i = deqTail
      BY <2>3, <2>4, <3>1
    <3>2. CASE i # deqTail
      <4>1. i \in deqHead .. deqTail-1 /\ i + 1 \in 1 .. deqTail
        BY <2>6, <3>2
      <4> QED
        BY <2>3, <4>1 DEF WindowIntact
    <3> QED
      BY <3>1, <3>2
  <2>7. deqTail' - 1 = deqTail
    BY <2>1
  <2> QED
    BY <2>1, <2>5, <2>6, <2>7 DEF WindowIntact
<1>3. ASSUME NEW p \in Producer, Push(p), ~WriteSlot(p), ~IncTail(p)
      PROVE  CopyInv' /\ WindowIntact'
  <2>1. /\ deqTail' = deqTail /\ deqHead' = deqHead /\ pushed' = pushed
        /\ cpc' = cpc /\ buff' = buff /\ slot' = slot
    BY <1>3 DEF Push, StartPush, ReadFirst, CheckSize, Cas, Unlock, shared,
                consumer
  <2>2. \A q \in Producer : pc'[q] = "inc" =>
            pc[q] = "inc" /\ EntryOf(q)' = EntryOf(q)
    BY <1>3 DEF Push, StartPush, ReadFirst, CheckSize, Cas, Unlock, Goto, EntryOf
  <2> QED
    BY <2>1, <2>2 DEF CopyInv, WindowIntact
<1>4. ASSUME Pop PROVE CopyInv' /\ WindowIntact'
  <2>1. /\ deqTail' = deqTail /\ slot' = slot /\ pushed' = pushed
        /\ pc' = pc /\ calls' = calls
    BY <1>4 DEF Pop, PopTest, PopCopy, IncHead, shared
  <2>2. \A q \in Producer : EntryOf(q)' = EntryOf(q)
    BY <2>1 DEF EntryOf
  <2>3. CASE PopTest
    BY <2>1, <2>2, <2>3 DEF PopTest, shared, CopyInv, WindowIntact
  <2>4. CASE PopCopy
    <3>1. deqHead \in deqHead .. deqTail-1
      BY <2>4 DEF PopCopy, IndexInv
    <3>2. buff' = pushed[deqHead + 1] /\ deqHead' = deqHead
      BY <2>4, <3>1 DEF PopCopy, WindowIntact, shared
    <3> QED
      BY <2>1, <2>2, <3>2 DEF CopyInv, WindowIntact
  <2>5. CASE IncHead
    <3>1. deqHead' = deqHead + 1 /\ cpc' = "test"
      BY <2>5 DEF IncHead
    <3> QED
      BY <2>1, <2>2, <3>1 DEF CopyInv, WindowIntact
  <2> QED
    BY <1>4, <2>3, <2>4, <2>5 DEF Pop
<1>5. ASSUME UNCHANGED vars PROVE CopyInv' /\ WindowIntact'
  BY <1>5 DEF vars, CopyInv, WindowIntact, EntryOf
<1> QED
  BY <1>1, <1>2, <1>3, <1>4, <1>5 DEF Next

\* The inductive invariant of the deque.
THEOREM DequeInvariant ==
  ASSUME MaxOutstanding =< Size
  PROVE  Spec => []IInv
<1>1. IInv /\ [Next]_vars => IInv'
  BY TypeStep, ControlStep, CapacityStep, DataStep DEF IInv
<1> QED
  BY InitInv, <1>1, PTL DEF Spec

\* Every variable of the deque keeps its type: the consumer never overtakes the
\* producers, and lock is 0 or 1 (comm_task_push, comm_task_pop).
THEOREM DequeTypes ==
  ASSUME MaxOutstanding =< Size
  PROVE  Spec => []TypeOK
<1>1. IInv => TypeOK
  BY DEF IInv
<1> QED
  BY DequeInvariant, <1>1, PTL

\* Every slot between the two indices holds the entry pushed there: no entry
\* is overwritten before the communication worker has copied it.
THEOREM WindowCorrect ==
  ASSUME MaxOutstanding =< Size
  PROVE  Spec => []WindowIntact
<1>1. IInv => WindowIntact
  BY DEF IInv
<1> QED
  BY DequeInvariant, <1>1, PTL

\* The deque implements the FIFO: comm_task_pop returns the entries of
\* comm_task_push in order, each one once and unaltered.
THEOREM DequeIsFifo ==
  ASSUME MaxOutstanding =< Size
  PROVE  Spec => ImplementsFifo
<1>1. Init => Fifo!Init
  BY DEF Init, Fifo!Init
<1>2. IInv /\ [Next]_vars => [Fifo!Next]_Fifo!vars
  <2> SUFFICES ASSUME IInv, [Next]_vars PROVE [Fifo!Next]_Fifo!vars
    OBVIOUS
  <2> USE DEF Fifo!Next, Fifo!vars
  <2>1. ASSUME NEW p \in Producer, IncTail(p) PROVE Fifo!Next
    <3>1. EntryOf(p) \in Entry
      BY <2>1, EntryType DEF IncTail, IInv
    <3>2. Fifo!Push(EntryOf(p))
      BY <2>1 DEF IncTail, Fifo!Push, consumer
    <3> QED
      BY <3>1, <3>2
  <2>2. ASSUME NEW p \in Producer, Push(p), ~IncTail(p)
        PROVE  UNCHANGED Fifo!vars
    BY <2>2 DEF Push, StartPush, ReadFirst, CheckSize, Cas, WriteSlot, Unlock,
                consumer
  <2>3. ASSUME Pop PROVE [Fifo!Next]_Fifo!vars
    <3>1. CASE IncHead
      <4>1. Len(popped) < Len(pushed) /\ buff = pushed[Len(popped) + 1]
        BY <3>1 DEF IncHead, IInv, IndexInv, CopyInv
      <4> QED
        BY <3>1, <4>1 DEF IncHead, Fifo!Pop
    <3>2. CASE PopTest \/ PopCopy
      BY <3>2 DEF PopTest, PopCopy
    <3> QED
      BY <2>3, <3>1, <3>2 DEF Pop
  <2>4. ASSUME UNCHANGED vars PROVE UNCHANGED Fifo!vars
    BY <2>4 DEF vars
  <2> QED
    BY <2>1, <2>2, <2>3, <2>4 DEF Next
<1> QED
  BY <1>1, <1>2, DequeInvariant, PTL DEF Spec, ImplementsFifo, Fifo!Spec
=============================================================================
