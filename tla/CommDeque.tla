----------------------------- MODULE CommDeque ------------------------------
(***************************************************************************)
(* The semi-concurrent deque between computation workers and the           *)
(* communication worker: a ring of Size slots, a CAS lock among the        *)
(* producers, and a consumer that takes no lock.  Each step is one access  *)
(* to shared memory, in program order (x86 TSO and hc_mfence keep the slot *)
(* write before the increment of deqTail).  deqHead and deqTail only grow. *)
(***************************************************************************)
EXTENDS Integers, Sequences, FiniteSets

CONSTANTS Producer,        \* computation workers that push
          Size,            \* SEMI_CONCURRENT_DEQUE_SIZE
          MaxPush,         \* bound: pushes by each producer
          MaxOutstanding,  \* bound: tasks pushed or being pushed, not popped
          Nothing          \* content of a slot never written

ASSUME SizeAssumption == Size \in Nat \ {0}
ASSUME ProducerAssumption == IsFiniteSet(Producer)
ASSUME BoundAssumption == MaxPush \in Nat /\ MaxOutstanding \in Nat

Entry == Producer \X (1 .. MaxPush)
Slots == 0 .. Size-1

VARIABLES
  deqHead, deqTail, lock, slot,  \* shared memory
  pc,        \* where producer p is in comm_task_push
  seen,      \* the index p read first when it computes size
  calls,     \* pushes p has finished
  cpc,       \* where the consumer is in comm_task_pop
  buff,      \* the consumer's copy of the entry
  aborted,   \* the assert of lines 63-64 fired
  pushed,    \* history: entries made visible by ++deqTail, in order
  popped     \* history: entries returned by comm_task_pop, in order

shared == <<deqHead, deqTail, lock, slot>>
consumer == <<cpc, buff, popped>>
vars == <<deqHead, deqTail, lock, slot, pc, seen, calls, cpc, buff, aborted,
          pushed, popped>>

ProducerPc == {"idle", "read", "got_tail", "got_head", "cas", "write", "inc",
               "unlock"}
InPush == {p \in Producer : pc[p] # "idle"}
Outstanding == deqTail - deqHead
                 + Cardinality({p \in Producer : pc[p] \notin {"idle", "unlock"}})

EntryOf(p) == <<p, calls[p] + 1>>
Goto(p, l) == pc' = [pc EXCEPT ![p] = l]

Init ==
  /\ deqHead = 0 /\ deqTail = 0 /\ lock = 0
  /\ slot = [i \in Slots |-> Nothing]
  /\ pc = [p \in Producer |-> "idle"]
  /\ seen = [p \in Producer |-> 0]
  /\ calls = [p \in Producer |-> 0]
  /\ cpc = "test" /\ buff = Nothing
  /\ aborted = FALSE
  /\ pushed = <<>> /\ popped = <<>>

-----------------------------------------------------------------------------
(* comm_task_push                                                          *)

\* The program calls push; how many tasks it leaves outstanding is bounded
\* by the program alone.
StartPush(p) ==
  /\ pc[p] = "idle" /\ calls[p] < MaxPush
  /\ Outstanding < MaxOutstanding
  /\ Goto(p, "read")
  /\ UNCHANGED <<shared, seen, calls, consumer, aborted, pushed>>

\* int size = deqTail - deqHead reads the two in an unspecified order.
ReadFirst(p) ==
  /\ pc[p] = "read"
  /\ \/ seen' = [seen EXCEPT ![p] = deqTail] /\ Goto(p, "got_tail")
     \/ seen' = [seen EXCEPT ![p] = deqHead] /\ Goto(p, "got_head")
  /\ UNCHANGED <<shared, calls, consumer, aborted, pushed>>

\* The second read, and the assertion that the deque is not full.
CheckSize(p) ==
  LET size == IF pc[p] = "got_tail" THEN seen[p] - deqHead
                                    ELSE deqTail - seen[p] IN
  /\ pc[p] \in {"got_tail", "got_head"}
  /\ aborted' = (size = Size)
  /\ seen' = [seen EXCEPT ![p] = 0]
  /\ Goto(p, "cas")
  /\ UNCHANGED <<shared, calls, consumer, pushed>>

\* Mutant: the lock is taken without a test.
Cas_NoTest(p) ==
  /\ pc[p] = "cas"
  /\ lock' = 1 /\ Goto(p, "write")
  /\ UNCHANGED <<deqHead, deqTail, slot, seen, calls, consumer, aborted,
                 pushed>>

\* hc_cas(&lock, 0, 1); on failure the loop computes the size again.
Cas(p) ==
  /\ pc[p] = "cas"
  /\ IF lock = 0 THEN lock' = 1 /\ Goto(p, "write")
                 ELSE UNCHANGED lock /\ Goto(p, "read")
  /\ UNCHANGED <<deqHead, deqTail, slot, seen, calls, consumer, aborted,
                 pushed>>

WriteSlot(p) ==
  /\ pc[p] = "write"
  /\ slot' = [slot EXCEPT ![deqTail % Size] = EntryOf(p)]
  /\ Goto(p, "inc")
  /\ UNCHANGED <<deqHead, deqTail, lock, seen, calls, consumer, aborted,
                 pushed>>

IncTail(p) ==
  /\ pc[p] = "inc"
  /\ deqTail' = deqTail + 1
  /\ pushed' = Append(pushed, EntryOf(p))
  /\ Goto(p, "unlock")
  /\ UNCHANGED <<deqHead, lock, slot, seen, calls, consumer, aborted>>

\* Mutant: the lock is not released.
Unlock_Kept(p) ==
  /\ pc[p] = "unlock"
  /\ calls' = [calls EXCEPT ![p] = @ + 1]
  /\ Goto(p, "idle")
  /\ UNCHANGED <<shared, seen, consumer, aborted, pushed>>

Unlock(p) ==
  /\ pc[p] = "unlock"
  /\ lock' = 0
  /\ calls' = [calls EXCEPT ![p] = @ + 1]
  /\ Goto(p, "idle")
  /\ UNCHANGED <<deqHead, deqTail, slot, seen, consumer, aborted, pushed>>

-----------------------------------------------------------------------------
(* comm_task_pop, called in a loop by the communication worker.            *)

\* Mutant: off by one, an entry is taken from an empty deque.
PopTest_AtLeast ==
  /\ cpc = "test" /\ deqTail - deqHead >= 0
  /\ cpc' = "copy"
  /\ UNCHANGED <<shared, pc, seen, calls, buff, aborted, pushed, popped>>

PopTest ==
  /\ cpc = "test" /\ deqTail - deqHead > 0
  /\ cpc' = "copy"
  /\ UNCHANGED <<shared, pc, seen, calls, buff, aborted, pushed, popped>>

\* Mutant: the newest entry instead of the oldest.
PopCopy_Newest ==
  /\ cpc = "copy"
  /\ buff' = slot[(deqTail - 1) % Size]
  /\ cpc' = "inc"
  /\ UNCHANGED <<shared, pc, seen, calls, aborted, pushed, popped>>

PopCopy ==
  /\ cpc = "copy"
  /\ buff' = slot[deqHead % Size]
  /\ cpc' = "inc"
  /\ UNCHANGED <<shared, pc, seen, calls, aborted, pushed, popped>>

IncHead ==
  /\ cpc = "inc"
  /\ deqHead' = deqHead + 1
  /\ popped' = Append(popped, buff)
  /\ buff' = Nothing
  /\ cpc' = "test"
  /\ UNCHANGED <<deqTail, lock, slot, pc, seen, calls, aborted, pushed>>

-----------------------------------------------------------------------------
Push(p) == \/ StartPush(p) \/ ReadFirst(p) \/ CheckSize(p) \/ Cas(p)
           \/ WriteSlot(p) \/ IncTail(p) \/ Unlock(p)

Pop == PopTest \/ PopCopy \/ IncHead

\* A failed assertion aborts the process.
Next == ~aborted /\ ((\E p \in Producer : Push(p)) \/ Pop)

Spec == Init /\ [][Next]_vars

\* The communication worker calls comm_task_pop for ever (the loop of
\* hcpp_finish_barrier), and a worker inside comm_task_push keeps running.
FairSpec == /\ Spec
            /\ WF_vars(~aborted /\ Pop)
            /\ \A p \in Producer : WF_vars(~aborted /\ pc[p] # "idle" /\ Push(p))

-----------------------------------------------------------------------------
(* Properties.                                                             *)

\* Every variable has its type; the consumer only ever takes entries.
TypeOK ==
  /\ deqHead \in Nat /\ deqTail \in Nat /\ lock \in {0, 1}
  /\ slot \in [Slots -> Entry \cup {Nothing}]
  /\ pc \in [Producer -> ProducerPc]
  /\ seen \in [Producer -> Nat]
  /\ calls \in [Producer -> 0 .. MaxPush]
  /\ cpc \in {"test", "copy", "inc"}
  /\ buff \in Entry \cup {Nothing}
  /\ aborted \in BOOLEAN
  /\ pushed \in Seq(Entry) /\ popped \in Seq(Entry)

\* The deque never holds more than Size entries: the check "SEMI_CONCURRENT
\* DEQUE full" (line 64) is meant to stop a push into a full deque.
NoOverrun == deqTail - deqHead =< Size

\* While at most Size tasks are outstanding, the unlocked slots between
\* deqHead and deqTail hold exactly the entries pushed and not yet popped, so
\* a producer never writes the slot the consumer is copying (wrap-around).
WindowIntact ==
  \A i \in deqHead .. deqTail-1 : slot[i % Size] = pushed[i + 1]

\* The deque is the FIFO its users rely on: the comm tasks run in the order
\* of the pushes, each one once and unaltered.
Fifo == INSTANCE CommFifo
ImplementsFifo == Fifo!Spec

\* Every task sent to the communication worker is handed to it, unless the
\* assertion stops the process: no push is stuck behind the lock for ever and
\* no entry is skipped.
PushIsPopped ==
  \A e \in Entry :
    pc[e[1]] = "read" /\ EntryOf(e[1]) = e
      ~> aborted \/ \E i \in DOMAIN popped : popped[i] = e
=============================================================================
