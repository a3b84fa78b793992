-------------------------- MODULE DistWSSteal_proofs --------------------------
(***************************************************************************)
(* Stealing, for any number of ranks and tasks and whether or not cyclic   *)
(* steals are cancelled: the in-flight counters are exact, a place that    *)
(* ships to its thief queue finds a thief there, and no rank leaves        *)
(* finish_spmd while a task is left.  Without the cancelling the thief     *)
(* queues do not overflow and say exactly who owes a task to whom.         *)
(***************************************************************************)
EXTENDS DistWS_proofs

\* The types of all that DistWS_proofs does not speak of.
TaskType ==
  /\ st \in [Task -> TaskState] /\ place \in [Task -> Rank]
  /\ idle_workers \in [Rank -> 0 .. Workers]

QueueType ==
  /\ contacted_victims \in [Rank -> SUBSET Rank]
  /\ head \in [Rank -> Int] /\ tail \in [Rank -> Int]
  /\ queued_thieves \in [Rank -> [Rank -> Rank \cup {POPPED_ENTRY}]]
  /\ thieves_waiting \in [Rank -> BOOLEAN]

CountType ==
  /\ asyncsInFlight \in [Rank -> Int]
  /\ received_tasks_origin \in [Rank -> SUBSET Message]
  /\ \A r \in Rank : IsFiniteSet(received_tasks_origin[r])

PlaceType ==
  /\ protocol \in Protocols /\ round \in 1 .. MaxFinish
  /\ glb_max_rand_attempts \in [Rank -> Int]
  /\ workAvail \in [Rank -> {NOT_WORKING, 0, 1}]
  /\ waiting_for_returnAsync \in [Rank -> BOOLEAN]
  /\ current_glb_max_rand_attempts \in [Rank -> Nat]

TypeInv == WordType /\ TaskType /\ QueueType /\ CountType /\ PlaceType

-----------------------------------------------------------------------------
LEMMA RunningFinite ==
  ASSUME NEW r \in Rank
  PROVE  IsFiniteSet(Running(r)) /\ Cardinality(Running(r)) \in Nat
BY TaskAssumption, FS_Subset, FS_CardinalityType DEF Running

\* What a step of a communication worker touches.
LEMMA CommFrame ==
  ASSUME NEW r \in Rank, CommStep(r)
  PROVE  /\ UNCHANGED <<env, round, place, idle_workers>>
         /\ \/ \E t \in Task : StealTask(r, t)
            \/ ShipSync(r) \/ ShipLifeline(r) \/ UNCHANGED st
         /\ ShipLifeline(r) \/ Attempt(r) \/ UNCHANGED <<contacted_victims, queue>>
         /\ ShipLifeline(r) \/ UNCHANGED failed
         /\ (\E o \in Rank : ReportTo(r, o)) \/ UNCHANGED received_tasks_origin
         /\ \/ \E o \in Rank : ReportTo(r, o)
            \/ EndSteal(r) \/ UNCHANGED asyncsInFlight
         /\ cbarrier_inc(r) \/ cbarrier_dec(r) \/ UNCHANGED cb_count
         /\ ShipSync(r) \/ ShipLifeline(r) \/ Attempt(r) \/ UNCHANGED net
<1> USE DEF work, queue, lifeline, count
<1> QED
  BY DEF CommStep, EndLambda, ReportTo, Feed, Serve, StealTask, EndSteal, ShipSync,
     ShipLifeline, Renew, publish_local_load_info, MarkIdle, Invalidate, Release,
     Probe, EndProbe, RequestSucceeds, RequestFails, EndWait, Attempt, EndAck,
     EndAttempt, CheckPending, ReadInFlight, cbarrier_inc, cbarrier_test, Detect,
     cbarrier_dec
-----------------------------------------------------------------------------
(* The thief queue of v: a ring of N entries between head and tail.        *)

Window(v) == head[v] + 1 .. tail[v]
Entry(v, k) == queued_thieves[v][k % N]

LEMMA ModType ==
  ASSUME NEW a \in Int
  PROVE  a % N \in Rank
BY NAssumption DEF Rank

LEMMA ModSmall ==
  ASSUME NEW a \in Nat, a < N
  PROVE  a \in Rank /\ a % N = a
BY NAssumption DEF Rank

\* The places of the queue that Thieves lists are those of the window.
LEMMA ThievesAreWindow ==
  ASSUME TypeInv, NEW v \in Rank
  PROVE  /\ DOMAIN Thieves(v) = 1 .. tail[v] - head[v]
         /\ \A k \in DOMAIN Thieves(v) :
              /\ Thieves(v)[k] = Entry(v, head[v] + k)
              /\ head[v] + k \in Window(v)
         /\ \A j \in Window(v) : j - head[v] \in DOMAIN Thieves(v)
BY DEF TypeInv, QueueType, Thieves, Entry, Window

\* The positions that stay are numbered from 0 on, without a gap.
LEMMA NewIndexOnto ==
  ASSUME NEW n \in Int, NEW K \in SUBSET (1 .. n)
  PROVE  /\ IsFiniteSet(K) /\ Cardinality(K) \in Nat
         /\ \A i \in 0 .. Cardinality(K) - 1 : \E k \in K : NewIndex(K, k) = i
<1> DEFINE size == Cardinality(K)
           Before(k) == {j \in K : j < k}
           I == 0 .. size - 1
           f == [k \in K |-> Cardinality(Before(k))]
<1>1. IsFiniteSet(K) /\ size \in Nat
  <2>1. IsFiniteSet(1 .. n)
    BY FS_Interval
  <2> QED
    BY <2>1, FS_Subset, FS_CardinalityType
<1>2. ASSUME NEW k \in K
      PROVE  /\ IsFiniteSet(Before(k)) /\ Cardinality(Before(k)) \in I \cap Nat
             /\ IsFiniteSet(Before(k) \cup {k})
             /\ Cardinality(Before(k) \cup {k}) = Cardinality(Before(k)) + 1
  <2>1. IsFiniteSet(Before(k)) /\ Cardinality(Before(k)) \in Nat
    BY <1>1, FS_Subset, FS_CardinalityType
  <2>2. k \notin Before(k)
    OBVIOUS
  <2>3. /\ IsFiniteSet(Before(k) \cup {k})
        /\ Cardinality(Before(k) \cup {k}) = Cardinality(Before(k)) + 1
    BY <2>1, <2>2, FS_AddElement
  <2>4. Cardinality(Before(k) \cup {k}) =< size
    <3>1. Before(k) \cup {k} \in SUBSET K
      OBVIOUS
    <3> QED
      BY <1>1, <3>1, FS_Subset
  <2> QED
    BY <1>1, <2>1, <2>3, <2>4
<1>3. ASSUME NEW j \in K, NEW k \in K, j < k PROVE f[j] < f[k]
  <2>1. Before(j) \cup {j} \in SUBSET Before(k)
    <3>1. \A i \in Before(j) : i \in K /\ i < k
      <4>1. \A i \in K : i \in Int
        OBVIOUS
      <4> QED
        BY <1>3, <4>1
    <3> QED
      BY <1>3, <3>1
  <2>2. Cardinality(Before(j) \cup {j}) =< Cardinality(Before(k))
    BY <1>2, <2>1, FS_Subset
  <2>3. Cardinality(Before(j) \cup {j}) = Cardinality(Before(j)) + 1
    BY <1>2
  <2>4. f[j] = Cardinality(Before(j)) /\ f[k] = Cardinality(Before(k))
    OBVIOUS
  <2>5. Cardinality(Before(j)) \in Nat
    BY <1>2
  <2>6. Cardinality(Before(k)) \in Nat
    BY <1>2
  <2> HIDE DEF f, Before
  <2> QED
    BY <2>2, <2>3, <2>4, <2>5, <2>6
<1>4. f \in Injection(K, I)
  <2>1. f \in [K -> I]
    BY <1>2
  <2>2. \A j, k \in K : j # k => j < k \/ k < j
    OBVIOUS
  <2>3. \A k \in K : f[k] \in Int
    BY <2>1
  <2>4. \A j, k \in K : f[j] = f[k] => j = k
    BY <1>3, <2>2, <2>3
  <2> QED
    BY <2>1, <2>4 DEF Injection, IsInjective
<1>5. IsFiniteSet(I) /\ Cardinality(I) = size
  <2>1. /\ IsFiniteSet(0 .. size - 1)
        /\ Cardinality(0 .. size - 1) =
             IF 0 > size - 1 THEN 0 ELSE size - 1 - 0 + 1
    <3> HIDE DEF size
    <3> QED
      BY <1>1, FS_Interval
  <2> HIDE DEF size
  <2> QED
    BY <1>1, <2>1
<1>6. f \in Surjection(K, I)
  <2> HIDE DEF f, I
  <2> QED
    BY <1>4, <1>5, FS_Injection
<1>7. \A i \in I : \E k \in K : f[k] = i
  <2> HIDE DEF f, I
  <2> QED
    BY <1>6 DEF Surjection
<1> QED
  BY <1>1, <1>7 DEF NewIndex

\* The ring of r after a thief has been taken out of it: it starts from 0, and
\* has only entries it had.
Dropped(r) ==
  \E n \in 0 .. tail[r] - head[r], q \in [Rank -> Rank \cup {POPPED_ENTRY}] :
    /\ head' = [head EXCEPT ![r] = -1]
    /\ tail' = [tail EXCEPT ![r] = n - 1]
    /\ thieves_waiting' = [thieves_waiting EXCEPT ![r] = n # 0]
    /\ queued_thieves' = [queued_thieves EXCEPT ![r] = q]
    /\ \A i \in Rank : i < n => \E k \in Window(r) : q[i] = Entry(r, k)

\* Marking a victim leaves the queue alone, or drops the victim from it if
\* cyclic steals are cancelled ...
LEMMA Marking ==
  ASSUME TypeInv, NEW r \in Rank, NEW v, mark_victimContacted(r, v)
  PROVE  /\ contacted_victims' = [contacted_victims EXCEPT ![r] = @ \cup {v}]
         /\ UNCHANGED queue \/ (cyclic_steals_not_allowed /\ Dropped(r))
<1> DEFINE K == Kept(r, v)
           size == Cardinality(K)
           D == 1 .. tail[r] - head[r]
           new(i) == Thieves(r)[CHOOSE k \in K : NewIndex(K, k) = i]
           q == [i \in Rank |-> IF i < size THEN new(i) ELSE queued_thieves[r][i]]
<1>1. /\ contacted_victims' = [contacted_victims EXCEPT ![r] = @ \cup {v}]
      /\ \/ UNCHANGED queue
         \/ /\ cyclic_steals_not_allowed /\ K # DOMAIN Thieves(r)
            /\ head' = [head EXCEPT ![r] = -1]
            /\ tail' = [tail EXCEPT ![r] = size - 1]
            /\ thieves_waiting' = [thieves_waiting EXCEPT ![r] = K # {}]
            /\ queued_thieves' = [queued_thieves EXCEPT ![r] =
                 [i \in Rank |-> IF i < size THEN new(i) ELSE @[i]]]
  BY DEF mark_victimContacted
<1>2. /\ DOMAIN Thieves(r) = D /\ K \in SUBSET D
      /\ tail[r] - head[r] \in Int
      /\ queued_thieves \in [Rank -> [Rank -> Rank \cup {POPPED_ENTRY}]]
  BY ThievesAreWindow DEF Kept, TypeInv, QueueType
<1>3. /\ IsFiniteSet(K) /\ size \in Nat
      /\ \A i \in 0 .. size - 1 : \E k \in K : NewIndex(K, k) = i
  BY <1>2, NewIndexOnto
<1>4. K # D => size \in 0 .. tail[r] - head[r]
  <2>1. ASSUME K # D PROVE tail[r] - head[r] >= 1
    <3>1. CASE tail[r] - head[r] < 1
      <4>1. D = {}
        BY <1>2, <3>1
      <4> HIDE DEF D, K
      <4> QED
        BY <1>2, <2>1, <4>1
    <3> QED
      BY <1>2, <3>1
  <2>2. IsFiniteSet(D) /\ (tail[r] - head[r] >= 1 => Cardinality(D) = tail[r] - head[r])
    BY <1>2, FS_Interval
  <2>3. size =< Cardinality(D)
    BY <1>2, <2>2, FS_Subset
  <2> QED
    BY <1>2, <1>3, <2>1, <2>2, <2>3
<1>5. size # 0 <=> K # {}
  BY <1>3, FS_EmptySet
<1>6. ASSUME NEW i \in Rank, i < size
      PROVE  \E k \in Window(r) : new(i) = Entry(r, k)
  <2>1. i \in 0 .. size - 1
    BY <1>3, <1>6, RankType
  <2>2. (CHOOSE k \in K : NewIndex(K, k) = i) \in K
    BY <1>3, <2>1
  <2> HIDE DEF K
  <2>3. \A k \in K : /\ Thieves(r)[k] = Entry(r, head[r] + k)
                     /\ head[r] + k \in Window(r)
    BY <1>2, ThievesAreWindow
  <2> QED
    BY <2>2, <2>3
<1>7. q \in [Rank -> Rank \cup {POPPED_ENTRY}]
  <2>1. \A k : Entry(r, k) \in Rank \cup {POPPED_ENTRY} \/ k \notin Window(r)
    <3>1. \A k \in Int : k % N \in Rank
      BY ModType
    <3>2. Window(r) \subseteq Int
      BY DEF Window, TypeInv, QueueType
    <3> QED
      BY <1>2, <3>1, <3>2 DEF Entry
  <2>2. \A i \in Rank : i < size => new(i) \in Rank \cup {POPPED_ENTRY}
    BY <1>6, <2>1
  <2> HIDE DEF new, size, POPPED_ENTRY, Rank
  <2> QED
    BY <1>2, <2>2
<1>8. ASSUME ~UNCHANGED queue
      PROVE  cyclic_steals_not_allowed /\ Dropped(r)
  <2>1. K # D
    BY <1>1, <1>2, <1>8
  <2>2. /\ head' = [head EXCEPT ![r] = -1]
        /\ tail' = [tail EXCEPT ![r] = size - 1]
        /\ thieves_waiting' = [thieves_waiting EXCEPT ![r] = size # 0]
        /\ queued_thieves' = [queued_thieves EXCEPT ![r] = q]
    BY <1>1, <1>2, <1>5, <1>8
  <2>3. \A i \in Rank : i < size => \E k \in Window(r) : q[i] = Entry(r, k)
    BY <1>6
  <2> HIDE DEF q, size
  <2> QED
    BY <1>1, <1>4, <1>7, <1>8, <2>1, <2>2, <2>3 DEF Dropped
<1> QED
  BY <1>1, <1>8

\* ... and an attempt marks one victim that is not marked and asks it, or none.
LEMMA AttemptEffect ==
  ASSUME TypeInv, NEW r \in Rank, Attempt(r)
  PROVE  \/ UNCHANGED <<contacted_victims, queue, net, waiting_for_returnAsync>>
         \/ \E v \in Rank \ {r} :
              /\ v \notin contacted_victims[r]
              /\ contacted_victims' = [contacted_victims EXCEPT ![r] = @ \cup {v}]
              /\ net' = net \cup {Msg("steal", r, v, {})}
              /\ waiting_for_returnAsync' =
                   [waiting_for_returnAsync EXCEPT ![r] = TRUE]
              /\ UNCHANGED queue \/ (cyclic_steals_not_allowed /\ Dropped(r))
<1>1. ASSUME NEW v \in Victims(r, loc[r].i) PROVE v \in Rank
  BY <1>1, NAssumption DEF Victims, Rank, TypeInv, WordType, Loc
<1>2. PICK v \in Victims(r, loc[r].i) :
        IF v = r \/ v \in contacted_victims[r] \/ workAvail[v] =< 0
        THEN UNCHANGED <<net, lifeline>>
        ELSE /\ mark_victimContacted(r, v)
             /\ waiting_for_returnAsync' =
                  [waiting_for_returnAsync EXCEPT ![r] = TRUE]
             /\ net' = net \cup {Msg("steal", r, v, {})}
  BY DEF Attempt
<1>3. CASE v = r \/ v \in contacted_victims[r] \/ workAvail[v] =< 0
  BY <1>2, <1>3 DEF lifeline
<1>4. CASE ~(v = r \/ v \in contacted_victims[r] \/ workAvail[v] =< 0)
  <2>1. mark_victimContacted(r, v)
    BY <1>2, <1>4
  <2>2. /\ contacted_victims' = [contacted_victims EXCEPT ![r] = @ \cup {v}]
        /\ UNCHANGED queue \/ (cyclic_steals_not_allowed /\ Dropped(r))
    BY <2>1, Marking
  <2> QED
    BY <1>1, <1>2, <1>4, <2>2
<1> QED
  BY <1>3, <1>4

LEMMA TypeInit == Init => TypeInv
<1> SUFFICES ASSUME Init PROVE TypeInv
  OBVIOUS
<1>1. WordType
  BY WordInit DEF WordInv
<1>2. TaskType
  BY NAssumption, NumberAssumption DEF Init, TaskType, TaskState, Rank
<1>3. QueueType
  BY DEF Init, QueueType
<1>4. CountType
  BY FS_EmptySet DEF Init, CountType
<1>5. PlaceType
  <2>1. glb_max_rand_attempts \in [Rank -> Int]
    BY NAssumption, NumberAssumption DEF Init
  <2> QED
    BY <2>1, NumberAssumption DEF Init, PlaceType
<1> QED
  BY <1>1, <1>2, <1>3, <1>4, <1>5 DEF TypeInv, Init

LEMMA TypeComm ==
  ASSUME TypeInv, NEW r \in Rank, CommStep(r), ~failed'
  PROVE  TaskType' /\ QueueType' /\ CountType' /\ PlaceType'
<1> USE CommFrame
<1>1. TaskType'
  <2>1. st' \in [Task -> TaskState]
    <3>1. CASE \E t \in Task : StealTask(r, t)
      BY <3>1 DEF TypeInv, TaskType, StealTask, TaskState
    <3>2. CASE ShipSync(r) \/ ShipLifeline(r)
      BY <3>2 DEF TypeInv, TaskType, ShipSync, ShipLifeline, Send, TaskState
    <3> QED
      BY <3>1, <3>2 DEF TypeInv, TaskType
  <2> QED
    BY <2>1 DEF TypeInv, TaskType
<1>2. QueueType'
  <2>1. CASE ShipLifeline(r)
    <3>1. pop_thief(r) /\ UNCHANGED contacted_victims
      BY <2>1 DEF ShipLifeline
    <3>2. head' \in [Rank -> Int] /\ tail' \in [Rank -> Int]
      BY <3>1 DEF TypeInv, QueueType, pop_thief
    <3>3. thieves_waiting' \in [Rank -> BOOLEAN] /\ UNCHANGED queued_thieves
      BY <3>1 DEF TypeInv, QueueType, pop_thief
    <3> QED
      BY <3>1, <3>2, <3>3 DEF TypeInv, QueueType
  <2>2. CASE Attempt(r)
    <3>1. contacted_victims' \in [Rank -> SUBSET Rank]
      BY <2>2, AttemptEffect DEF TypeInv, QueueType
    <3>2. ASSUME Dropped(r)
          PROVE  /\ head' \in [Rank -> Int] /\ tail' \in [Rank -> Int]
                 /\ queued_thieves' \in [Rank -> [Rank -> Rank \cup {POPPED_ENTRY}]]
                 /\ thieves_waiting' \in [Rank -> BOOLEAN]
      BY <3>2 DEF Dropped, TypeInv, QueueType
    <3>3. UNCHANGED queue \/ Dropped(r)
      BY <2>2, AttemptEffect
    <3> QED
      BY <3>1, <3>2, <3>3 DEF TypeInv, QueueType, queue
  <2> QED
    BY <2>1, <2>2 DEF TypeInv, QueueType, queue
<1>3. CountType'
  <2>1. ASSUME NEW o \in Rank, ReportTo(r, o) PROVE CountType'
    <3>1. /\ IsFiniteSet(From(r, o)) /\ Cardinality(From(r, o)) \in Nat
          /\ IsFiniteSet(received_tasks_origin[r] \ From(r, o))
      BY FS_Subset, FS_CardinalityType DEF TypeInv, CountType, From
    <3> QED
      BY <2>1, <3>1 DEF TypeInv, CountType, ReportTo, decrement_tasks_in_flight_count
  <2>2. CASE EndSteal(r)
    <3>1. \/ UNCHANGED asyncsInFlight
          \/ asyncsInFlight' = [asyncsInFlight EXCEPT ![r] = @ + 1]
      BY <2>2 DEF EndSteal, INCREMENT_TASK_IN_FLIGHT_SELF
    <3> QED
      BY <2>2, <3>1 DEF TypeInv, CountType, EndSteal
  <2> QED
    BY <2>1, <2>2 DEF TypeInv, CountType
<1>4. PlaceType'
  <2>1. workAvail' \in [Rank -> {NOT_WORKING, 0, 1}]
    <3>1. \/ UNCHANGED workAvail
          \/ \E k \in {NOT_WORKING, 0, 1} : workAvail' = [workAvail EXCEPT ![r] = k]
      BY DEF CommStep, EndLambda, ReportTo, Feed, Serve, StealTask, EndSteal, ShipSync,
         ShipLifeline, Renew, publish_local_load_info, MarkIdle, Invalidate, Release,
         Probe, EndProbe, RequestSucceeds, RequestFails, EndWait, Attempt, EndAck,
         EndAttempt, CheckPending, ReadInFlight, cbarrier_inc, cbarrier_test, Detect,
         cbarrier_dec, Load
    <3> QED
      BY <3>1 DEF TypeInv, PlaceType
  <2>2. waiting_for_returnAsync' \in [Rank -> BOOLEAN]
    <3>1. \/ UNCHANGED waiting_for_returnAsync
          \/ waiting_for_returnAsync' = [waiting_for_returnAsync EXCEPT ![r] = TRUE]
      BY AttemptEffect
         DEF CommStep, EndLambda, ReportTo, Feed, Serve, StealTask, EndSteal, ShipSync,
         ShipLifeline, Renew, publish_local_load_info, MarkIdle, Invalidate, Release,
         Probe, EndProbe, RequestSucceeds, RequestFails, EndWait, EndAck,
         EndAttempt, CheckPending, ReadInFlight, cbarrier_inc, cbarrier_test, Detect,
         cbarrier_dec, lifeline
    <3> QED
      BY <3>1 DEF TypeInv, PlaceType
  <2>3. current_glb_max_rand_attempts' \in [Rank -> Nat]
    <3>1. \/ UNCHANGED current_glb_max_rand_attempts
          \/ \E k \in {0, current_glb_max_rand_attempts[r] + 1} :
               current_glb_max_rand_attempts' =
                 [current_glb_max_rand_attempts EXCEPT ![r] = k]
          \/ current_glb_max_rand_attempts' =
               [current_glb_max_rand_attempts EXCEPT ![r] = @]
      BY DEF CommStep, EndLambda, ReportTo, Feed, Serve, StealTask, EndSteal, ShipSync,
         ShipLifeline, Renew, publish_local_load_info, MarkIdle, Invalidate, Release,
         Probe, EndProbe, RequestSucceeds, RequestFails, EndWait, Attempt, EndAck,
         EndAttempt, CheckPending, ReadInFlight, cbarrier_inc, cbarrier_test, Detect,
         cbarrier_dec, mine
    <3> QED
      BY <3>1 DEF TypeInv, PlaceType
  <2> QED
    BY <2>1, <2>2, <2>3 DEF TypeInv, PlaceType, env
<1> QED
  BY <1>1, <1>2, <1>3, <1>4

LEMMA TypeReceive ==
  ASSUME TypeInv, NEW m \in net, Receive(m)
  PROVE  TaskType' /\ QueueType' /\ CountType' /\ PlaceType'
<1>1. m \in Message /\ m.dst \in Rank /\ m.src \in Rank /\ m.tasks \subseteq Task
  BY DEF TypeInv, WordType, Message
<1>2. /\ UNCHANGED <<env, round, idle_workers, workAvail, current_glb_max_rand_attempts>>
      /\ \/ UNCHANGED <<st, place>>
         \/ Unwrap(m)
  BY DEF Receive, ReceiveRequest, receipt_of_stealRequest, ReceiveLifeline, ReceiveSync,
     work, mine
<1>3. TaskType'
  BY <1>1, <1>2 DEF TypeInv, TaskType, Unwrap, TaskState
<1>4. QueueType'
  <2>1. CASE ReceiveRequest(m)
    <3>1. QueueType
      BY DEF TypeInv
    <3>2. (tail[m.dst] + 1) % N \in Rank
      <4>1. tail[m.dst] + 1 \in Int
        BY <1>1, <3>1 DEF QueueType
      <4> QED
        BY <4>1, ModType
    <3>3. /\ UNCHANGED head /\ tail' = [tail EXCEPT ![m.dst] = tail[m.dst] + 1]
          /\ thieves_waiting' = [thieves_waiting EXCEPT ![m.dst] = TRUE]
      BY <2>1 DEF ReceiveRequest, queue_thief
    <3>4. head' \in [Rank -> Int] /\ thieves_waiting' \in [Rank -> BOOLEAN]
      BY <1>1, <3>1, <3>3 DEF QueueType
    <3>5. tail' \in [Rank -> Int]
      BY <1>1, <3>1, <3>3 DEF QueueType
    <3>6. contacted_victims' \in [Rank -> SUBSET Rank]
      BY <1>1, <2>1, <3>1 DEF QueueType, ReceiveRequest, queue_thief
    <3>7. queued_thieves' \in [Rank -> [Rank -> Rank \cup {POPPED_ENTRY}]]
      <4>1. queued_thieves' = [queued_thieves EXCEPT ![m.dst] =
                                 [@ EXCEPT ![(tail[m.dst] + 1) % N] = m.src]]
        BY <2>1 DEF ReceiveRequest, queue_thief
      <4>2. [queued_thieves[m.dst] EXCEPT ![(tail[m.dst] + 1) % N] = m.src]
              \in [Rank -> Rank \cup {POPPED_ENTRY}]
        <5>1. queued_thieves[m.dst] \in [Rank -> Rank \cup {POPPED_ENTRY}]
          BY <1>1, <3>1 DEF QueueType
        <5> HIDE DEF POPPED_ENTRY, Rank
        <5> QED
          BY <1>1, <5>1
      <4>3. queued_thieves \in [Rank -> [Rank -> Rank \cup {POPPED_ENTRY}]]
        BY <3>1 DEF QueueType
      <4> QED
        BY <1>1, <4>1, <4>2, <4>3
    <3> QED
      BY <3>6, <3>7, <3>4, <3>5 DEF QueueType
  <2>2. CASE ~ReceiveRequest(m)
    <3>1. UNCHANGED queue
      BY <2>2 DEF Receive, receipt_of_stealRequest, ReceiveLifeline, ReceiveSync, lifeline
    <3>2. \/ UNCHANGED contacted_victims
          \/ contacted_victims' = [contacted_victims EXCEPT ![m.dst] = @ \ {m.src}]
      BY <2>2 DEF Receive, receipt_of_stealRequest, ReceiveLifeline, ReceiveSync,
         lifeline, unmark_victimContacted
    <3> QED
      BY <1>1, <3>1, <3>2 DEF TypeInv, QueueType, queue
  <2> QED
    BY <2>1, <2>2
<1>5. CountType'
  <2>1. received_tasks_origin' \in [Rank -> SUBSET Message]
    BY <1>1 DEF TypeInv, CountType, Receive, ReceiveRequest, receipt_of_stealRequest,
       ReceiveLifeline, ReceiveSync, queue_source_place_of_remoteTask, count
  <2>2. ASSUME NEW q \in Rank PROVE IsFiniteSet(received_tasks_origin'[q])
    <3>1. \/ received_tasks_origin'[q] = received_tasks_origin[q]
          \/ received_tasks_origin'[q] = received_tasks_origin[q] \cup {m}
      BY <1>1 DEF TypeInv, CountType, Receive, ReceiveRequest, receipt_of_stealRequest,
         ReceiveLifeline, ReceiveSync, queue_source_place_of_remoteTask, count
    <3>2. IsFiniteSet(received_tasks_origin[q] \cup {m})
      BY FS_AddElement DEF TypeInv, CountType
    <3> QED
      BY <3>1, <3>2 DEF TypeInv, CountType
  <2>3. asyncsInFlight' \in [Rank -> Int]
    BY <1>1 DEF TypeInv, CountType, Receive, ReceiveRequest, receipt_of_stealRequest,
       ReceiveLifeline, ReceiveSync, count
  <2> QED
    BY <2>1, <2>2, <2>3 DEF CountType
<1>6. waiting_for_returnAsync' \in [Rank -> BOOLEAN]
  BY <1>1 DEF TypeInv, PlaceType, Receive, ReceiveRequest, receipt_of_stealRequest,
     ReceiveLifeline, ReceiveSync, lifeline
<1> QED
  BY <1>2, <1>3, <1>4, <1>5, <1>6 DEF TypeInv, PlaceType, env

LEMMA TypeOther ==
  ASSUME TypeInv, LocalStep \/ (\E t \in Task : Spawn(t)) \/ UNCHANGED vars
  PROVE  TaskType' /\ QueueType' /\ CountType' /\ PlaceType'
<1>1. /\ UNCHANGED <<env, workAvail, count, lifeline, mine>>
      /\ round' = round \/ (round < MaxFinish /\ round' = round + 1)
  BY DEF LocalStep, BarrierStart, Restart, WorkerIdle, TaskStart, TaskEnd, Spawn, Create,
     vars
<1>2. QueueType' /\ CountType' /\ PlaceType'
  BY <1>1, NumberAssumption DEF TypeInv, QueueType, CountType, PlaceType, env, count, lifeline, queue, mine
<1>3. TaskType'
  <2> USE NumberAssumption, RunningFinite DEF TypeInv, TaskType, TaskState
  <2>1. ASSUME NEW t \in Task, Spawn(t) PROVE TaskType'
    <3>1. PICK q \in Rank : Create(t, q)
      BY <2>1, ChoiceAssumption DEF Spawn, Rank
    <3> QED
      BY <3>1 DEF Create
  <2>2. ASSUME NEW t \in Task, TaskStart(t) PROVE TaskType'
    <3> DEFINE q == place[t]
    <3>1. /\ st' = [st EXCEPT ![t] = "run"] /\ UNCHANGED place
          /\ idle_workers' = [idle_workers EXCEPT ![q] = @ - 1] \/ UNCHANGED idle_workers
      BY <2>2 DEF TaskStart
    <3>2. idle_workers' = [idle_workers EXCEPT ![q] = @ - 1] => idle_workers[q] > 0
      BY <2>2 DEF TaskStart
    <3> QED
      BY <3>1, <3>2
  <2>3. ASSUME NEW t \in Task, TaskEnd(t) PROVE TaskType'
    BY <2>3 DEF TaskEnd
  <2>4. ASSUME NEW q \in Rank, WorkerIdle(q) PROVE TaskType'
    BY <2>4 DEF WorkerIdle
  <2>5. CASE BarrierStart \/ Restart \/ UNCHANGED vars
    BY <2>5 DEF BarrierStart, Restart, vars, work
  <2> QED
    BY <2>1, <2>2, <2>3, <2>4, <2>5 DEF LocalStep
<1> QED
  BY <1>2, <1>3
-----------------------------------------------------------------------------
(* The loop variables of a place and the tasks it has in hand.             *)

HandPc == {"steal", "ship"}

\* What a place counts while it steals, and while it looks for work in flight;
\* nothing arrives in between.
LoopAt(r) ==
  /\ pc[r] \notin HandPc \cup {"publish", "probe", "request", "attempt",
                               "wait_ack", "pending"} => loc[r].i = 0
  /\ pc[r] = "ship" => loc[r].i > 0
  /\ pc[r] \in HandPc => (loc[r].i > 0 <=> Stolen(r) # {})
  /\ pc[r] \notin HandPc => Stolen(r) = {}
  /\ pc[r] = "pending" =>
       /\ loc[r].i \in Rank
       /\ loc[r].i > 0 => Pending(r) = {}

LoopInv == \A r \in Rank : LoopAt(r)

\* A place with tasks in hand has a thief for them: the one of the request word
\* or one in its queue.
ThiefInv ==
  \A r \in Rank : pc[r] \in HandPc /\ loc[r].victim < 0 => thieves_waiting[r]
\* Tasks in hand grow with each steal and leave together.
LEMMA HandComm ==
  ASSUME TypeInv, NEW r \in Rank, CommStep(r), ~failed'
  PROVE  /\ \A q \in Rank \ {r} : Stolen(q)' = Stolen(q) /\ Pending(q)' = Pending(q)
         /\ \A t \in Task : StealTask(r, t) => Stolen(r)' # {} /\ loc'[r].i > 0
         /\ ShipSync(r) \/ ShipLifeline(r) => Stolen(r)' = {}
         /\ \/ \E t \in Task : StealTask(r, t)
            \/ ShipSync(r) \/ ShipLifeline(r) \/ Stolen(r)' = Stolen(r)
         /\ pc[r] = "pending" => Pending(r)' = Pending(r)
<1>1. ASSUME NEW t \in Task, StealTask(r, t) PROVE
        /\ \A q \in Rank \ {r} : Stolen(q)' = Stolen(q) /\ Pending(q)' = Pending(q)
        /\ Stolen(r)' # {} /\ loc'[r].i > 0 /\ pc[r] = "steal"
        /\ ~ShipSync(r) /\ ~ShipLifeline(r)
  <2>1. /\ st' = [st EXCEPT ![t] = "stolen"] /\ UNCHANGED place
        /\ st[t] = "any" /\ place[t] = r /\ pc[r] = "steal" /\ loc'[r].i = loc[r].i + 1
    BY <1>1 DEF StealTask, AsyncAny, TypeInv, WordType, Loc
  <2>2. t \in Stolen(r)'
    BY <2>1 DEF Stolen, TypeInv, TaskType
  <2>3. ASSUME NEW q \in Rank \ {r} PROVE Stolen(q)' = Stolen(q) /\ Pending(q)' = Pending(q)
    BY <2>1 DEF Stolen, Pending, TypeInv, TaskType
  <2> QED
    BY <2>1, <2>2, <2>3 DEF TypeInv, WordType, Loc, ShipSync, ShipLifeline, Step
<1>2. ASSUME ShipSync(r) \/ ShipLifeline(r) PROVE
        /\ \A q \in Rank \ {r} : Stolen(q)' = Stolen(q) /\ Pending(q)' = Pending(q)
        /\ Stolen(r)' = {} /\ pc[r] = "ship"
        /\ ~\E t \in Task : StealTask(r, t)
  <2>1. /\ st' = [t \in Task |-> IF t \in Stolen(r) THEN "net" ELSE st[t]]
        /\ UNCHANGED place /\ pc[r] = "ship"
    BY <1>2 DEF ShipSync, ShipLifeline, Send, Step
  <2>2. Stolen(r)' = {}
    BY <2>1 DEF Stolen
  <2>3. ASSUME NEW q \in Rank \ {r} PROVE Stolen(q)' = Stolen(q) /\ Pending(q)' = Pending(q)
    BY <2>1 DEF Stolen, Pending
  <2> QED
    BY <2>1, <2>2, <2>3 DEF StealTask
<1>3. CASE UNCHANGED <<st, place>>
  <2>1. ~\E t \in Task : StealTask(r, t)
    BY <1>3 DEF StealTask, AsyncAny, TypeInv, TaskType
  <2> QED
    BY <1>2, <1>3, <2>1 DEF Stolen, Pending
<1> QED
  BY <1>1, <1>2, <1>3, CommFrame DEF work

-----------------------------------------------------------------------------
(* The messages and the tasks they carry.                                  *)

Arrived == {"async", "run", "done"}

MsgInv ==
  /\ \A m \in net :
       /\ m.kind \in {"steal", "ack"} <=> m.tasks = {}
       /\ \A t \in m.tasks : st[t] = "net"
  /\ \A m, n \in net : m.tasks \cap n.tasks # {} => m = n
  /\ \A t \in Task : st[t] = "net" => \E m \in net : t \in m.tasks
  /\ \A q \in Rank : \A m \in received_tasks_origin[q] :
       /\ m.kind = "lifeline" /\ m.dst = q /\ m.tasks # {}
       /\ \A t \in m.tasks : st[t] \in Arrived

\* Shipping, to whichever thief, takes all tasks in hand to one message.
LEMMA ShipEffect ==
  ASSUME TypeInv, LoopInv, NEW r \in Rank, ShipSync(r) \/ ShipLifeline(r), ~failed'
  PROVE  \E k \in {"sync", "lifeline"}, d \in Rank :
           /\ Stolen(r) # {}
           /\ Send(r, Msg(k, r, d, Stolen(r)))
           /\ k = "lifeline" <=> ShipLifeline(r)
<1>1. Stolen(r) # {}
  BY DEF LoopInv, LoopAt, HandPc, ShipSync, ShipLifeline, Step
<1>2. CASE ShipSync(r)
  <2>1. loc[r].victim \in Rank /\ ~ShipLifeline(r)
    BY <1>2, NAssumption DEF ShipSync, ShipLifeline, TypeInv, WordType, Loc, Rank
  <2> QED
    BY <1>1, <1>2, <2>1 DEF ShipSync
<1>3. CASE ShipLifeline(r)
  BY <1>1, <1>3 DEF ShipLifeline
<1> QED
  BY <1>2, <1>3

LEMMA MsgComm ==
  ASSUME TypeInv, LoopInv, MsgInv, NEW r \in Rank, CommStep(r), ~failed'
  PROVE  MsgInv'
<1>1. ASSUME NEW o \in Rank, ReportTo(r, o) PROVE MsgInv'
  <2>1. UNCHANGED <<net, st>> /\ \A q \in Rank :
           received_tasks_origin'[q] \subseteq received_tasks_origin[q]
    BY <1>1 DEF ReportTo, decrement_tasks_in_flight_count, TypeInv, CountType, work
  <2> QED
    BY <2>1 DEF MsgInv
<1>2. ASSUME NEW t \in Task, StealTask(r, t) PROVE MsgInv'
  <2>1. /\ UNCHANGED <<net, received_tasks_origin>>
        /\ st' = [st EXCEPT ![t] = "stolen"] /\ st[t] = "any"
    BY <1>2 DEF StealTask, AsyncAny, count
  <2> QED
    BY <2>1 DEF MsgInv, Arrived, TypeInv, TaskType, WordType, Message, CountType
<1>3. CASE ShipSync(r) \/ ShipLifeline(r)
  <2>1. PICK k \in {"sync", "lifeline"}, d \in Rank :
          Stolen(r) # {} /\ Send(r, Msg(k, r, d, Stolen(r)))
    BY <1>3, ShipEffect
  <2> DEFINE new == Msg(k, r, d, Stolen(r))
  <2>2. /\ net' = net \cup {new} /\ UNCHANGED received_tasks_origin
        /\ st' = [t \in Task |-> IF t \in Stolen(r) THEN "net" ELSE st[t]]
        /\ new.kind = k /\ new.tasks = Stolen(r)
    BY <1>3, <2>1 DEF Send, ShipSync, ShipLifeline, Msg, count
  <2> HIDE DEF new
  <2>3. \A t \in Stolen(r) : t \in Task /\ st[t] = "stolen"
    BY DEF Stolen
  <2>4. \A m \in net : m.tasks \subseteq Task /\ m.tasks \cap Stolen(r) = {}
    BY <2>3 DEF MsgInv, TypeInv, WordType, Message
  <2>5. \A q \in Rank : \A m \in received_tasks_origin[q] :
          m.tasks \subseteq Task /\ m.tasks \cap Stolen(r) = {}
    BY <2>3 DEF MsgInv, Arrived, TypeInv, CountType, Message
  <2>6. /\ \A m \in net' : m.kind \in {"steal", "ack"} <=> m.tasks = {}
        /\ \A m, n \in net' : m.tasks \cap n.tasks # {} => m = n
        /\ \A t \in Task : st'[t] = "net" => \E m \in net' : t \in m.tasks
    BY <2>1, <2>2, <2>4 DEF MsgInv
  <2>7. \A m \in net' : \A t \in m.tasks : st'[t] = "net"
    BY <2>2, <2>3, <2>4 DEF MsgInv
  <2>8. \A q \in Rank : \A m \in received_tasks_origin'[q] :
          /\ m.kind = "lifeline" /\ m.dst = q /\ m.tasks # {}
          /\ \A t \in m.tasks : st'[t] \in Arrived
    BY <2>2, <2>5 DEF MsgInv
  <2> QED
    BY <2>6, <2>7, <2>8 DEF MsgInv
<1>4. CASE Attempt(r)
  <2>1. UNCHANGED <<st, received_tasks_origin>>
    BY <1>4 DEF Attempt, work, count
  <2>2. \/ UNCHANGED net
        \/ \E v \in Rank : net' = net \cup {Msg("steal", r, v, {})}
    BY <1>4, AttemptEffect
  <2> QED
    BY <2>1, <2>2 DEF MsgInv, Msg
<1>5. CASE UNCHANGED <<net, st, received_tasks_origin>>
  BY <1>5 DEF MsgInv
<1> QED
  BY <1>1, <1>2, <1>3, <1>4, <1>5, CommFrame

LEMMA MsgReceive ==
  ASSUME TypeInv, MsgInv, NEW m \in net, Receive(m)
  PROVE  MsgInv'
<1>1. /\ m \in Message /\ m.dst \in Rank /\ m.tasks \subseteq Task
      /\ \A t \in m.tasks : st[t] = "net"
  BY DEF TypeInv, WordType, Message, MsgInv
<1>2. CASE ReceiveRequest(m) \/ receipt_of_stealRequest(m)
  <2>1. /\ UNCHANGED <<st, received_tasks_origin>> /\ m.tasks = {}
        /\ \/ net' = net \ {m}
           \/ net' = (net \ {m}) \cup {Msg("ack", m.dst, m.src, {})}
    BY <1>2 DEF MsgInv, ReceiveRequest, receipt_of_stealRequest, work, count
  <2> QED
    BY <2>1 DEF MsgInv, Msg
<1>3. CASE ReceiveLifeline(m) \/ ReceiveSync(m)
  <2>1. /\ net' = net \ {m}
        /\ st' = [t \in Task |-> IF t \in m.tasks THEN "async" ELSE st[t]]
    BY <1>3 DEF ReceiveLifeline, ReceiveSync, Unwrap
  <2>2. \A q \in Rank : \A n \in received_tasks_origin'[q] :
          n \in received_tasks_origin[q] \/ (n = m /\ q = m.dst /\ m.kind = "lifeline")
    BY <1>1, <1>3 DEF ReceiveLifeline, ReceiveSync, queue_source_place_of_remoteTask,
       TypeInv, CountType
  <2>3. m.tasks # {} 
    BY <1>3 DEF MsgInv, ReceiveLifeline, ReceiveSync
  <2>4. \A n \in net' : n \in net /\ n.tasks \subseteq Task /\ n.tasks \cap m.tasks = {}
    BY <2>1 DEF MsgInv, TypeInv, WordType, Message
  <2>5. \A q \in Rank : \A n \in received_tasks_origin[q] : n.tasks \subseteq Task
    BY DEF TypeInv, CountType, Message
  <2>6. /\ \A n \in net' : n.kind \in {"steal", "ack"} <=> n.tasks = {}
        /\ \A n \in net' : \A t \in n.tasks : st'[t] = "net"
        /\ \A n, p \in net' : n.tasks \cap p.tasks # {} => n = p
    BY <2>1, <2>4 DEF MsgInv
  <2>7. \A t \in Task : st'[t] = "net" => \E n \in net' : t \in n.tasks
    BY <2>1 DEF MsgInv
  <2>8. ASSUME NEW q \in Rank, NEW n \in received_tasks_origin'[q]
        PROVE  /\ n.kind = "lifeline" /\ n.dst = q /\ n.tasks # {}
               /\ \A t \in n.tasks : st'[t] \in Arrived
    BY <1>1, <2>1, <2>2, <2>3, <2>5 DEF MsgInv, Arrived
  <2> QED
    BY <2>6, <2>7, <2>8 DEF MsgInv
<1> QED
  BY <1>2, <1>3 DEF Receive

LEMMA MsgOther ==
  ASSUME TypeInv, MsgInv, LocalStep \/ (\E t \in Task : Spawn(t)) \/ UNCHANGED vars
  PROVE  MsgInv'
<1>1. UNCHANGED <<net, received_tasks_origin>>
  BY DEF LocalStep, BarrierStart, Restart, WorkerIdle, TaskStart, TaskEnd, Spawn, Create,
     vars, count
<1>2. \A t \in Task : /\ st[t] = "net" <=> st'[t] = "net"
                      /\ st[t] \in Arrived => st'[t] \in Arrived
  BY DEF LocalStep, BarrierStart, Restart, WorkerIdle, TaskStart, TaskEnd, Spawn, Create,
     vars, work, TypeInv, TaskType, Arrived
<1>3. /\ \A m \in net : m.tasks \subseteq Task
      /\ \A q \in Rank : \A m \in received_tasks_origin[q] : m.tasks \subseteq Task
  BY DEF TypeInv, WordType, CountType, Message
<1> QED
  BY <1>1, <1>2, <1>3 DEF MsgInv
-----------------------------------------------------------------------------
LEMMA LoopComm ==
  ASSUME TypeInv, WordInv, LoopInv, NEW r \in Rank, CommStep(r), ~failed'
  PROVE  LoopInv'
<1>1. ASSUME NEW q \in Rank \ {r} PROVE LoopAt(q)'
  <2>1. pc'[q] = pc[q] /\ loc'[q] = loc[q]
    BY DEF CommStep, EndLambda, ReportTo, Feed, Serve, StealTask, EndSteal, ShipSync,
       ShipLifeline, Renew, publish_local_load_info, MarkIdle, Invalidate, Release,
       Probe, EndProbe, RequestSucceeds, RequestFails, EndWait, Attempt, EndAck,
       EndAttempt, CheckPending, ReadInFlight, cbarrier_inc, cbarrier_test, Detect,
       cbarrier_dec, Step, Goto, Send, TypeInv, WordType
  <2>2. Stolen(q)' = Stolen(q) /\ Pending(q)' = Pending(q)
    BY HandComm
  <2> QED
    BY <2>1, <2>2 DEF LoopInv, LoopAt
<1>2. LoopAt(r)'
  <2>0. /\ LoopAt(r) /\ loc[r].i \in Nat /\ 0 \in Rank
        /\ pc[r] = "pending" => Pending(r)' = Pending(r)
        /\ \/ Stolen(r)' = Stolen(r)
           \/ \E t \in Task : StealTask(r, t)
           \/ ShipSync(r) \/ ShipLifeline(r)
    BY HandComm, NAssumption DEF LoopInv, TypeInv, WordType, Loc, Rank
  <2> USE <2>0, RankType DEF LoopAt, HandPc, Goto, Zero, TypeInv, WordType, Loc
  <2>1. CASE EndLambda(r)
    BY <2>1 DEF EndLambda, Step, StealTask, ShipSync, ShipLifeline, Step
  <2>2. CASE \E o \in Rank : ReportTo(r, o)
    BY <2>2 DEF ReportTo, StealTask, ShipSync, ShipLifeline, Step
  <2>3. CASE Feed(r)
    BY <2>3 DEF Feed, Choose, renewed_as_victim, StealTask, ShipSync, ShipLifeline, Step
  <2>4. CASE Serve(r)
    BY <2>4 DEF Serve, Requested, StealTask, ShipSync, ShipLifeline, Step
  <2>5. CASE EndSteal(r)
    BY <2>5 DEF EndSteal, StealTask, ShipSync, ShipLifeline, Step
  <2>6. CASE Renew(r)
    BY <2>6 DEF Renew, Step, StealTask, ShipSync, ShipLifeline, Step
  <2>7. CASE publish_local_load_info(r)
    BY <2>7 DEF publish_local_load_info, StealTask, ShipSync, ShipLifeline, Step
  <2>8. CASE MarkIdle(r)
    BY <2>8 DEF MarkIdle, Choose, SearchPc, StealTask, ShipSync, ShipLifeline, Step
  <2>9. CASE Invalidate(r)
    BY <2>9 DEF Invalidate, SearchPc, StealTask, ShipSync, ShipLifeline, Step
  <2>10. CASE Release(r)
    BY <2>10 DEF Release, Step, SearchPc, StealTask, ShipSync, ShipLifeline, Step
  <2>11. CASE Probe(r)
    BY <2>11 DEF Probe, StealTask, ShipSync, ShipLifeline, Step
  <2>12. CASE EndProbe(r)
    BY <2>12 DEF EndProbe, Step, StealTask, ShipSync, ShipLifeline, Step
  <2>13. CASE RequestSucceeds(r)
    BY <2>13 DEF RequestSucceeds, Step, StealTask, ShipSync, ShipLifeline, Step
  <2>14. CASE RequestFails(r)
    BY <2>14 DEF RequestFails, StealTask, ShipSync, ShipLifeline, Step
  <2>15. CASE EndWait(r)
    BY <2>15 DEF EndWait, Step, StealTask, ShipSync, ShipLifeline, Step
  <2>16. CASE Attempt(r)
    BY <2>16 DEF Attempt, Victims, Msg, Message, StealTask, ShipSync, ShipLifeline, Step
  <2>17. CASE EndAck(r)
    BY <2>17 DEF EndAck, Step, StealTask, ShipSync, ShipLifeline, Step
  <2>18. CASE EndAttempt(r)
    BY <2>18 DEF EndAttempt, Step, StealTask, ShipSync, ShipLifeline, Step
  <2>19. CASE CheckPending(r)
    BY <2>19 DEF CheckPending, Step, StealTask, ShipSync, ShipLifeline, Step
  <2>20. CASE ReadInFlight(r)
    <3>1. Stolen(r)' = Stolen(r) /\ pc[r] = "pending" /\ Pending(r)' = {}
      BY <2>20 DEF ReadInFlight, StealTask, ShipSync, ShipLifeline, Step
    <3>2. CASE pc'[r] = "pending"
      <4>1. loc'[r].i = loc[r].i + 1 /\ loc[r].i < N - 1
        BY <2>20, <3>2 DEF ReadInFlight
      <4>2. loc'[r].i \in Rank
        BY <4>1, NAssumption DEF Rank
      <4> QED
        BY <3>1, <3>2, <4>2
    <3>3. CASE pc'[r] # "pending"
      <4>1. loc'[r] = Zero /\ pc'[r] \in {"inc", "advance"}
        BY <2>20, <3>3 DEF ReadInFlight
      <4> QED
        BY <3>1, <4>1
    <3> QED
      BY <3>2, <3>3
  <2>21. CASE cbarrier_inc(r)
    BY <2>21 DEF cbarrier_inc, Step, StealTask, ShipSync, ShipLifeline, Step
  <2>22. CASE cbarrier_test(r)
    BY <2>22 DEF cbarrier_test, StealTask, ShipSync, ShipLifeline, Step
  <2>23. CASE Detect(r)
    BY <2>23 DEF Detect, Step, StealTask, ShipSync, ShipLifeline, Step
  <2>24. CASE cbarrier_dec(r)
    BY <2>24 DEF cbarrier_dec, Step, StealTask, ShipSync, ShipLifeline, Step
  <2>25. ASSUME NEW t \in Task, StealTask(r, t) PROVE LoopAt(r)'
    <3>1. Stolen(r)' # {} /\ loc'[r].i > 0
      BY <2>25, HandComm
    <3>2. pc[r] = "steal" /\ pc'[r] = "steal"
      BY <2>25 DEF StealTask
    <3> QED
      BY <3>1, <3>2
  <2>26. CASE ShipSync(r) \/ ShipLifeline(r)
    <3>1. Stolen(r)' = {}
      BY <2>26, HandComm
    <3>2. pc'[r] \in {"renew", "ship_advance"}
      BY <2>26 DEF ShipSync, ShipLifeline, Step
    <3>3. loc'[r] = Zero
      BY <2>26 DEF ShipSync, ShipLifeline, Send
    <3> QED
      BY <3>1, <3>2, <3>3
  <2> QED
    BY <2>1, <2>2, <2>3, <2>4, <2>5, <2>6, <2>7, <2>8, <2>9, <2>10, <2>11, <2>12, <2>13, <2>14, <2>15, <2>16, <2>17, <2>18, <2>19, <2>20, <2>21, <2>22, <2>23, <2>24, <2>25, <2>26 DEF CommStep
<1> QED
  BY <1>1, <1>2 DEF LoopInv
\* What runs at a place, or arrives there, is not in its hand.
LEMMA LoopReceive ==
  ASSUME TypeInv, LoopInv, MsgInv, NEW m \in net, Receive(m)
  PROVE  LoopInv'
<1>1. /\ UNCHANGED <<pc, loc>> /\ m.dst \in Rank /\ pc[m.dst] # "pending"
  BY DEF Receive, AdvancePc, TypeInv, WordType, Message
<1>2. /\ \A t \in m.tasks : st[t] = "net"
      /\ \/ UNCHANGED <<st, place>>
         \/ /\ st' = [t \in Task |-> IF t \in m.tasks THEN "async" ELSE st[t]]
            /\ place' = [t \in Task |-> IF t \in m.tasks THEN m.dst ELSE place[t]]
  BY DEF MsgInv, Receive, ReceiveRequest, receipt_of_stealRequest, ReceiveLifeline,
     ReceiveSync, Unwrap, work
<1>3. ASSUME NEW q \in Rank
      PROVE  Stolen(q)' = Stolen(q) /\ (q # m.dst => Pending(q)' = Pending(q))
  BY <1>2 DEF Stolen, Pending
<1> QED
  BY <1>1, <1>3 DEF LoopInv, LoopAt

LEMMA LoopOther ==
  ASSUME TypeInv, LoopInv, LocalStep \/ (\E t \in Task : Spawn(t)) \/ UNCHANGED vars
  PROVE  LoopInv'
<1>1. /\ UNCHANGED loc
      /\ \/ UNCHANGED pc
         \/ \E p, q \in {"start", "advance", "left", "lambda"} :
              pc = [r \in Rank |-> p] /\ pc' = [r \in Rank |-> q]
  BY DEF LocalStep, BarrierStart, Restart, WorkerIdle, TaskStart, TaskEnd, Spawn, Create,
     TypeInv, WordType, vars
<1>2. ASSUME NEW q \in Rank
      PROVE  /\ Stolen(q)' = Stolen(q)
             /\ pc[q] = "pending" /\ Pending(q) = {} => Pending(q)' = {}
  <2>1. CASE UNCHANGED <<st, place>>
    BY <2>1 DEF Stolen, Pending
  <2>2. ASSUME NEW t \in Task, TaskStart(t) \/ TaskEnd(t)
        PROVE  Stolen(q)' = Stolen(q) /\ (Pending(q) = {} => Pending(q)' = {})
    BY <2>2 DEF TaskStart, TaskEnd, Stolen, Pending, TypeInv, TaskType
  <2>3. ASSUME NEW t \in Task, Spawn(t)
        PROVE  /\ Stolen(q)' = Stolen(q)
               /\ pc[q] = "pending" /\ Pending(q) = {} => Pending(q)' = {}
    <3>1. \E p \in Rank : /\ Create(t, p)
                          /\ pc[p] = "lambda" \/ \E u \in Task : st[u] = "run" /\ place[u] = p
      BY <2>3, ChoiceAssumption DEF Spawn, Rank, TypeInv, TaskType
    <3> QED
      BY <3>1 DEF Create, Stolen, Pending, TypeInv, TaskType
  <2> QED
    BY <2>1, <2>2, <2>3 DEF LocalStep, BarrierStart, Restart, WorkerIdle, vars, work
<1> QED
  BY <1>1, <1>2 DEF LoopInv, LoopAt, HandPc
-----------------------------------------------------------------------------
(* The in-flight counters.                                                 *)

AboutToShip(r) == IF pc[r] = "ship" THEN 1 ELSE 0

FlightInv ==
  \A r \in Rank :
    /\ IsFiniteSet(Flying(r))
    /\ asyncsInFlight[r] = Cardinality(Flying(r)) + AboutToShip(r)

\* Reporting to o what came from o takes exactly that out of flight.
LEMMA ReportFlying ==
  ASSUME TypeInv, MsgInv, NEW r \in Rank, NEW o \in Rank, ReportTo(r, o)
  PROVE  /\ From(r, o) \subseteq Flying(o)
         /\ \A q \in Rank : Flying(q)' = Flying(q) \ (IF q = o THEN From(r, o) ELSE {})
<1>1. /\ UNCHANGED net
      /\ \A q \in Rank : received_tasks_origin'[q] =
           received_tasks_origin[q] \ (IF q = r THEN From(r, o) ELSE {})
  BY DEF ReportTo, decrement_tasks_in_flight_count, TypeInv, CountType
<1>2. \A m \in From(r, o) :
        /\ m \in received_tasks_origin[r] /\ m.src = o /\ m.tasks # {}
        /\ m \notin net
        /\ \A q \in Rank \ {r} : m \notin received_tasks_origin[q]
  <2> SUFFICES ASSUME NEW m \in From(r, o), m \in received_tasks_origin[r]
               PROVE  /\ m.src = o /\ m.tasks # {} /\ m \notin net
                      /\ \A q \in Rank \ {r} : m \notin received_tasks_origin[q]
    BY DEF From
  <2>1. /\ m.src = o /\ m.tasks # {} /\ m.dst = r
        /\ \A t \in m.tasks : st[t] \in Arrived
    BY DEF From, MsgInv
  <2> QED
    BY <2>1 DEF MsgInv, Arrived
<1>3. From(r, o) \subseteq Flying(o)
  BY <1>2 DEF Flying
<1>4. ASSUME NEW q \in Rank
      PROVE  Flying(q)' = Flying(q) \ (IF q = o THEN From(r, o) ELSE {})
  BY <1>1, <1>2 DEF Flying
<1> QED
  BY <1>3, <1>4

\* Shipping puts one message more in flight.
LEMMA ShipFlying ==
  ASSUME TypeInv, LoopInv, MsgInv, NEW r \in Rank,
         ShipSync(r) \/ ShipLifeline(r), ~failed'
  PROVE  \E m : /\ m \notin Flying(r)
                /\ Flying(r)' = Flying(r) \cup {m}
                /\ \A q \in Rank \ {r} : Flying(q)' = Flying(q)
<1>1. PICK k \in {"sync", "lifeline"}, d \in Rank :
        Stolen(r) # {} /\ Send(r, Msg(k, r, d, Stolen(r)))
  BY ShipEffect
<1> DEFINE m == Msg(k, r, d, Stolen(r))
<1>2. /\ net' = net \cup {m} /\ UNCHANGED received_tasks_origin
      /\ m.src = r /\ m.tasks = Stolen(r)
  BY <1>1 DEF Send, ShipSync, ShipLifeline, Msg, count
<1> HIDE DEF m
<1>3. m \notin Flying(r)
  <2>1. \A t \in Stolen(r) : st[t] = "stolen"
    BY DEF Stolen
  <2> QED
    BY <1>1, <1>2, <2>1 DEF Flying, MsgInv, Arrived
<1>4. Flying(r)' = Flying(r) \cup {m} /\ \A q \in Rank \ {r} : Flying(q)' = Flying(q)
  BY <1>1, <1>2 DEF Flying
<1> QED
  BY <1>3, <1>4

\* Requests carry nothing.
LEMMA PlainFlying ==
  ASSUME TypeInv, NEW r \in Rank, CommStep(r), ~ShipSync(r), ~ShipLifeline(r),
         \A o \in Rank : ~ReportTo(r, o)
  PROVE  \A q \in Rank : Flying(q)' = Flying(q)
<1>1. UNCHANGED received_tasks_origin
  BY CommFrame
<1>2. \/ UNCHANGED net
      \/ \E v \in Rank : net' = net \cup {Msg("steal", r, v, {})}
  BY CommFrame, AttemptEffect
<1> QED
  BY <1>1, <1>2 DEF Flying, Msg

LEMMA FlightComm ==
  ASSUME TypeInv, LoopInv, MsgInv, FlightInv, NEW r \in Rank, CommStep(r), ~failed'
  PROVE  FlightInv'
<1>0. /\ asyncsInFlight \in [Rank -> Int] /\ pc \in [Rank -> Pc]
      /\ \A q \in Rank : Cardinality(Flying(q)) \in Nat
  BY FS_CardinalityType DEF TypeInv, CountType, WordType, FlightInv
<1>1. ASSUME NEW o \in Rank, ReportTo(r, o) PROVE FlightInv'
  <2>1. /\ asyncsInFlight' = [asyncsInFlight EXCEPT ![o] = @ - Cardinality(From(r, o))]
        /\ \A q \in Rank : AboutToShip(q)' = AboutToShip(q)
    BY <1>0, <1>1 DEF ReportTo, decrement_tasks_in_flight_count, Goto, AboutToShip
  <2>2. /\ IsFiniteSet(Flying(o) \ From(r, o))
        /\ Cardinality(Flying(o) \ From(r, o)) =
             Cardinality(Flying(o)) - Cardinality(From(r, o))
    <3>1. Flying(o) \cap From(r, o) = From(r, o)
      BY <1>1, ReportFlying
    <3>2. IsFiniteSet(Flying(o))
      BY DEF FlightInv
    <3>3. /\ IsFiniteSet(Flying(o) \ From(r, o))
          /\ Cardinality(Flying(o) \ From(r, o)) =
               Cardinality(Flying(o)) - Cardinality(Flying(o) \cap From(r, o))
      BY <3>2, FS_Difference
    <3> QED
      BY <3>1, <3>3
  <2>3. IsFiniteSet(From(r, o)) /\ Cardinality(From(r, o)) \in Nat
    BY <1>1, ReportFlying, FS_Subset, FS_CardinalityType DEF FlightInv
  <2>4. ASSUME NEW q \in Rank
        PROVE  /\ IsFiniteSet(Flying(q)')
               /\ asyncsInFlight'[q] = Cardinality(Flying(q)') + AboutToShip(q)'
    <3>1. CASE q = o
      <4>1. Flying(q)' = Flying(o) \ From(r, o)
        BY <1>1, <3>1, ReportFlying
      <4>2. AboutToShip(q) \in Int
        BY DEF AboutToShip
      <4> QED
        BY <1>0, <2>1, <2>2, <2>3, <3>1, <4>1, <4>2 DEF FlightInv
    <3>2. CASE q # o
      <4>1. Flying(q)' = Flying(q)
        BY <1>1, <3>2, ReportFlying
      <4> QED
        BY <1>0, <2>1, <3>2, <4>1 DEF FlightInv
    <3> QED
      BY <3>1, <3>2
  <2> QED
    BY <2>4 DEF FlightInv
<1>2. CASE ShipSync(r) \/ ShipLifeline(r)
  <2>1. /\ UNCHANGED asyncsInFlight /\ AboutToShip(r) = 1 /\ AboutToShip(r)' = 0
        /\ \A q \in Rank \ {r} : AboutToShip(q)' = AboutToShip(q)
    BY <1>0, <1>2 DEF ShipSync, ShipLifeline, Step, Goto, AboutToShip, count
  <2>2. PICK m : /\ m \notin Flying(r)
                 /\ Flying(r)' = Flying(r) \cup {m}
                 /\ \A q \in Rank \ {r} : Flying(q)' = Flying(q)
    BY <1>2, ShipFlying
  <2>3. /\ IsFiniteSet(Flying(r) \cup {m})
        /\ Cardinality(Flying(r) \cup {m}) = Cardinality(Flying(r)) + 1
    BY <2>2, FS_AddElement DEF FlightInv
  <2> QED
    BY <1>0, <2>1, <2>2, <2>3 DEF FlightInv
<1>3. CASE EndSteal(r)
  <2>1. \A q \in Rank : Flying(q)' = Flying(q)
    BY <1>3 DEF EndSteal, Flying
  <2>2. /\ asyncsInFlight'[r] - AboutToShip(r)' = asyncsInFlight[r] - AboutToShip(r)
        /\ AboutToShip(r) \in Int /\ AboutToShip(r)' \in Int
    BY <1>0, <1>3 DEF EndSteal, INCREMENT_TASK_IN_FLIGHT_SELF, Goto, AboutToShip
  <2>3. \A q \in Rank \ {r} : /\ asyncsInFlight'[q] = asyncsInFlight[q]
                              /\ AboutToShip(q)' = AboutToShip(q)
    BY <1>0, <1>3 DEF EndSteal, INCREMENT_TASK_IN_FLIGHT_SELF, Goto, AboutToShip
  <2>4. asyncsInFlight'[r] \in Int
    BY <1>0, <1>3 DEF EndSteal, INCREMENT_TASK_IN_FLIGHT_SELF
  <2> QED
    BY <1>0, <2>1, <2>2, <2>3, <2>4 DEF FlightInv
<1>4. CASE /\ \A o \in Rank : ~ReportTo(r, o)
           /\ ~ShipSync(r) /\ ~ShipLifeline(r) /\ ~EndSteal(r)
  <2>1. (\A q \in Rank : Flying(q)' = Flying(q)) /\ UNCHANGED asyncsInFlight
    BY <1>4, PlainFlying, CommFrame
  <2>2. pc[r] # "ship"
    BY <1>4 DEF CommStep, EndLambda, Feed, Serve, StealTask, Renew,
       publish_local_load_info, MarkIdle, Invalidate, Release, Probe, EndProbe,
       RequestSucceeds, RequestFails, EndWait, Attempt, EndAck, EndAttempt,
       CheckPending, ReadInFlight, cbarrier_inc, cbarrier_test, Detect, cbarrier_dec,
       Step, Choose
  <2>3. pc'[r] # "ship"
    BY <1>0, <1>4, <2>2 DEF CommStep, EndLambda, Feed, Serve, StealTask, Renew,
       publish_local_load_info, MarkIdle, Invalidate, Release, Probe, EndProbe,
       RequestSucceeds, RequestFails, EndWait, Attempt, EndAck, EndAttempt,
       CheckPending, ReadInFlight, cbarrier_inc, cbarrier_test, Detect, cbarrier_dec,
       Step, Goto, SearchPc
  <2>4. \A q \in Rank \ {r} : pc'[q] = pc[q]
    BY <1>0, <1>4 DEF CommStep, EndLambda, Feed, Serve, StealTask, Renew,
       publish_local_load_info, MarkIdle, Invalidate, Release, Probe, EndProbe,
       RequestSucceeds, RequestFails, EndWait, Attempt, EndAck, EndAttempt,
       CheckPending, ReadInFlight, cbarrier_inc, cbarrier_test, Detect, cbarrier_dec,
       Step, Goto
  <2>5. \A q \in Rank : AboutToShip(q)' = AboutToShip(q)
    BY <2>2, <2>3, <2>4 DEF AboutToShip
  <2> QED
    BY <2>1, <2>5 DEF FlightInv
<1> QED
  BY <1>1, <1>2, <1>3, <1>4

LEMMA FlightReceive ==
  ASSUME TypeInv, MsgInv, FlightInv, NEW m \in net, Receive(m)
  PROVE  /\ FlightInv'
         /\ \A q \in Rank : Flying(q)' \subseteq Flying(q)
<1>0. /\ asyncsInFlight \in [Rank -> Int] /\ m \in Message /\ m.dst \in Rank /\ m.src \in Rank
      /\ UNCHANGED pc
      /\ \A q \in Rank : Cardinality(Flying(q)) \in Nat /\ AboutToShip(q) \in Int
  BY FS_CardinalityType DEF TypeInv, CountType, WordType, FlightInv, Message, Receive,
     AboutToShip
<1>1. CASE ReceiveRequest(m) \/ receipt_of_stealRequest(m)
  <2>1. /\ UNCHANGED <<asyncsInFlight, received_tasks_origin>> /\ m.tasks = {}
        /\ \/ net' = net \ {m}
           \/ net' = (net \ {m}) \cup {Msg("ack", m.dst, m.src, {})}
    BY <1>1 DEF MsgInv, ReceiveRequest, receipt_of_stealRequest, count
  <2>2. \A q \in Rank : Flying(q)' = Flying(q)
    BY <2>1 DEF Flying, Msg
  <2> QED
    BY <1>0, <2>1, <2>2 DEF FlightInv, AboutToShip
<1>2. CASE ReceiveLifeline(m)
  <2>1. /\ UNCHANGED asyncsInFlight /\ net' = net \ {m}
        /\ \A q \in Rank : received_tasks_origin'[q] =
             received_tasks_origin[q] \cup (IF q = m.dst THEN {m} ELSE {})
    BY <1>0, <1>2 DEF ReceiveLifeline, Unwrap, queue_source_place_of_remoteTask, TypeInv,
       CountType
  <2>2. ASSUME NEW q \in Rank PROVE Flying(q)' = Flying(q)
    BY <1>0, <2>1 DEF Flying
  <2> QED
    BY <1>0, <2>1, <2>2 DEF FlightInv, AboutToShip
<1>3. CASE ReceiveSync(m)
  <2>1. /\ asyncsInFlight' = [asyncsInFlight EXCEPT ![m.src] = @ - 1]
        /\ net' = net \ {m} /\ UNCHANGED received_tasks_origin
        /\ m.kind = "sync" /\ m.tasks # {}
    BY <1>3 DEF ReceiveSync, Unwrap, MsgInv
  <2>2. \A q \in Rank : m \notin received_tasks_origin[q]
    BY <2>1 DEF MsgInv
  <2>3. m \in Flying(m.src) /\ \A q \in Rank : Flying(q)' = Flying(q) \ {m}
    BY <2>1, <2>2 DEF Flying
  <2>4. /\ IsFiniteSet(Flying(m.src) \ {m})
        /\ Cardinality(Flying(m.src) \ {m}) = Cardinality(Flying(m.src)) - 1
    BY <1>0, <2>3, FS_RemoveElement DEF FlightInv
  <2>5. \A q \in Rank : q # m.src => Flying(q)' = Flying(q)
    BY <2>3 DEF Flying
  <2>6. ASSUME NEW q \in Rank
        PROVE  /\ IsFiniteSet(Flying(q)')
               /\ asyncsInFlight'[q] = Cardinality(Flying(q)') + AboutToShip(q)'
    <3>1. AboutToShip(q)' = AboutToShip(q)
      BY <1>0 DEF AboutToShip
    <3>2. CASE q = m.src
      <4>1. Flying(q)' = Flying(m.src) \ {m}
        BY <1>0, <2>3, <3>2
      <4>2. asyncsInFlight'[q] = asyncsInFlight[q] - 1
        BY <1>0, <2>1, <3>2
      <4> QED
        BY <1>0, <2>4, <3>1, <3>2, <4>1, <4>2 DEF FlightInv
    <3>3. CASE q # m.src
      BY <1>0, <2>1, <2>5, <3>1, <3>3 DEF FlightInv
    <3> QED
      BY <3>2, <3>3
  <2> QED
    BY <2>3, <2>6 DEF FlightInv
<1> QED
  BY <1>1, <1>2, <1>3 DEF Receive

LEMMA FlightOther ==
  ASSUME TypeInv, FlightInv, LocalStep \/ (\E t \in Task : Spawn(t)) \/ UNCHANGED vars
  PROVE  /\ FlightInv'
         /\ \A q \in Rank : Flying(q)' = Flying(q)
<1>1. /\ UNCHANGED <<net, asyncsInFlight, received_tasks_origin>>
      /\ \/ UNCHANGED pc
         \/ \E p, q \in {"start", "advance", "left", "lambda"} :
              pc = [r \in Rank |-> p] /\ pc' = [r \in Rank |-> q]
  BY DEF LocalStep, BarrierStart, Restart, WorkerIdle, TaskStart, TaskEnd, Spawn, Create,
     TypeInv, WordType, vars, count
<1>2. \A q \in Rank : Flying(q)' = Flying(q) /\ AboutToShip(q)' = AboutToShip(q)
  BY <1>1 DEF Flying, AboutToShip
<1> QED
  BY <1>1, <1>2 DEF FlightInv
-----------------------------------------------------------------------------
(* The thief queues, whether or not cyclic steals are cancelled: the ring   *)
(* never holds more than N entries as long as no assertion has failed, the  *)
(* flag tells whether it holds one, and its entries are places.             *)

Ring(v) ==
  /\ -1 =< head[v] /\ head[v] =< tail[v] /\ tail[v] - head[v] =< N
  /\ thieves_waiting[v] <=> head[v] # tail[v]
  /\ \A k \in Window(v) : Entry(v, k) \in Rank

RingInv == \A v \in Rank : Ring(v)

\* Two indices less than N apart fall into different entries of the ring.
LEMMA ModInjective ==
  ASSUME NEW a \in Nat, NEW b \in Nat, a < b, b - a < N
  PROVE  a % N # b % N
<1> DEFINE k == (b \div N) - (a \div N)
<1>1. /\ a = N * (a \div N) + (a % N) /\ b = N * (b \div N) + (b % N)
      /\ a \div N \in Int /\ b \div N \in Int /\ N \in Nat \ {0}
  BY NAssumption
<1>2. k \in Int
  BY <1>1
<1>3. SUFFICES ASSUME a % N = b % N PROVE FALSE
  OBVIOUS
<1>4. b - a = N * k
  <2>1. N * (b \div N) - N * (a \div N) = N * k
    BY <1>1
  <2> QED
    BY <1>1, <1>3, <2>1
<1> HIDE DEF k
<1>5. CASE k =< 0
  BY <1>1, <1>2, <1>4, <1>5
<1>6. CASE k >= 1
  BY <1>1, <1>2, <1>4, <1>6
<1> QED
  BY <1>2, <1>5, <1>6

LEMMA RingFrame ==
  ASSUME NEW v, Ring(v), head'[v] = head[v], tail'[v] = tail[v],
         thieves_waiting'[v] = thieves_waiting[v],
         queued_thieves'[v] = queued_thieves[v]
  PROVE  Ring(v)'
BY DEF Ring, Window, Entry

\* Dropping a thief starts the ring anew, with entries it had.
LEMMA RingDropped ==
  ASSUME TypeInv, RingInv, NEW r \in Rank, Dropped(r)
  PROVE  RingInv'
<1>1. PICK n \in 0 .. tail[r] - head[r], q \in [Rank -> Rank \cup {POPPED_ENTRY}] :
        /\ head' = [head EXCEPT ![r] = -1]
        /\ tail' = [tail EXCEPT ![r] = n - 1]
        /\ thieves_waiting' = [thieves_waiting EXCEPT ![r] = n # 0]
        /\ queued_thieves' = [queued_thieves EXCEPT ![r] = q]
        /\ \A i \in Rank : i < n => \E k \in Window(r) : q[i] = Entry(r, k)
  BY DEF Dropped
<1>2. QueueType
  BY DEF TypeInv
<1>3. /\ head[r] \in Int /\ tail[r] \in Int /\ tail[r] - head[r] =< N /\ N \in Nat
      /\ \A k \in Window(r) : Entry(r, k) \in Rank
  BY <1>2, NAssumption DEF QueueType, RingInv, Ring
<1>4. n \in Nat /\ n =< N
  BY <1>1, <1>3
<1>5. /\ head'[r] = -1 /\ tail'[r] = n - 1 /\ queued_thieves'[r] = q
      /\ thieves_waiting'[r] <=> n # 0
  BY <1>1, <1>2 DEF QueueType
<1>6. ASSUME NEW k \in Window(r)' PROVE Entry(r, k)' \in Rank
  <2>1. k \in 0 .. n - 1
    BY <1>4, <1>5, <1>6 DEF Window
  <2>2. k \in Nat /\ k < n /\ k < N
    BY <1>3, <1>4, <2>1
  <2>3. k \in Rank /\ k % N = k
    BY <2>2, ModSmall
  <2> QED
    BY <1>1, <1>3, <1>5, <2>2, <2>3 DEF Entry
<1>7. Ring(r)'
  BY <1>3, <1>4, <1>5, <1>6 DEF Ring
<1>8. ASSUME NEW v \in Rank, v # r PROVE Ring(v)'
  <2>1. /\ head'[v] = head[v] /\ tail'[v] = tail[v]
        /\ thieves_waiting'[v] = thieves_waiting[v]
        /\ queued_thieves'[v] = queued_thieves[v]
    BY <1>1, <1>2, <1>8 DEF QueueType
  <2> QED
    BY <2>1, RingFrame DEF RingInv
<1> QED
  BY <1>7, <1>8 DEF RingInv

\* A place that ships to its queue has a thief there.
LEMMA ShipHasThief ==
  ASSUME TypeInv, RingInv, ThiefInv, NEW r \in Rank, ShipLifeline(r)
  PROVE  /\ ~failed' /\ head[r] + 1 \in Window(r) /\ head[r] + 1 \in Nat
         /\ Entry(r, head[r] + 1) \in Rank
<1>1. thieves_waiting[r] /\ Ring(r) /\ head[r] \in Int /\ tail[r] \in Int
  BY DEF ThiefInv, HandPc, ShipLifeline, Step, RingInv, TypeInv, QueueType
<1>2. head[r] # tail[r] /\ head[r] + 1 \in Window(r) /\ head[r] + 1 \in Nat
  BY <1>1 DEF Ring, Window
<1>3. Entry(r, head[r] + 1) \in Rank
  BY <1>1, <1>2 DEF Ring
<1> QED
  BY <1>2, <1>3 DEF ShipLifeline, Entry

LEMMA NoFailComm ==
  ASSUME TypeInv, RingInv, ThiefInv, ~failed, NEW r \in Rank, CommStep(r)
  PROVE  ~failed'
BY ShipHasThief, CommFrame

LEMMA RingComm ==
  ASSUME TypeInv, RingInv, ThiefInv, NEW r \in Rank, CommStep(r)
  PROVE  RingInv'
<1>1. CASE ShipLifeline(r)
  <2> DEFINE f == head[r] + 1
  <2>1. /\ ~failed' /\ f \in Window(r) /\ f \in Nat
        /\ Ring(r) /\ head[r] \in Int /\ tail[r] \in Int /\ N \in Nat
    BY <1>1, ShipHasThief, NAssumption DEF RingInv, TypeInv, QueueType
  <2>2. pop_thief(r) /\ UNCHANGED queued_thieves
    BY <1>1, <2>1 DEF ShipLifeline, pop_thief
  <2>3. /\ \A v \in Rank \ {r} : /\ head'[v] = head[v] /\ tail'[v] = tail[v]
                                 /\ thieves_waiting'[v] = thieves_waiting[v]
        /\ head'[r] = IF f = tail[r] THEN -1 ELSE f
        /\ tail'[r] = IF f = tail[r] THEN -1 ELSE tail[r]
        /\ thieves_waiting'[r] <=> f # tail[r]
    BY <2>2 DEF pop_thief, TypeInv, QueueType
  <2>4. Ring(r)'
    <3>1. CASE f = tail[r]
      <4>1. Window(r)' = {}
        BY <2>3, <3>1 DEF Window
      <4> QED
        BY <2>1, <2>3, <3>1, <4>1 DEF Ring
    <3>2. CASE f # tail[r]
      <4>1. /\ f < tail[r] /\ -1 =< f /\ tail[r] - f =< N
        BY <2>1, <3>2 DEF Ring, Window
      <4>2. Window(r)' \subseteq Window(r)
        BY <2>1, <2>3, <3>2 DEF Window
      <4>3. \A k \in Window(r)' : Entry(r, k)' \in Rank
        BY <2>1, <2>2, <4>2 DEF Ring, Entry
      <4> QED
        BY <2>1, <2>3, <3>2, <4>1, <4>3 DEF Ring
    <3> QED
      BY <3>1, <3>2
  <2>5. \A v \in Rank \ {r} : Ring(v)'
    BY <2>2, <2>3, RingFrame DEF RingInv
  <2> QED
    BY <2>4, <2>5 DEF RingInv
<1>2. CASE UNCHANGED queue
  BY <1>2, RingFrame DEF RingInv, queue
<1>3. CASE Attempt(r) /\ ~UNCHANGED queue
  BY <1>3, AttemptEffect, RingDropped
<1> QED
  BY <1>1, <1>2, <1>3, CommFrame

\* A request is queued behind the others, or the assertion that there is room
\* for it fails.
LEMMA RingReceive ==
  ASSUME TypeInv, RingInv, NEW m \in net, Receive(m), ~failed'
  PROVE  RingInv'
<1> DEFINE d == m.dst  s == m.src
<1>1. d \in Rank /\ s \in Rank /\ QueueType /\ Ring(d)
  BY DEF TypeInv, WordType, Message, RingInv
<1>2. CASE ReceiveRequest(m)
  <2>0. PICK k \in Int : k = tail[d] + 1
    BY <1>1 DEF QueueType
  <2>1. /\ UNCHANGED head /\ tail[d] - N # head[d]
        /\ thieves_waiting' = [thieves_waiting EXCEPT ![d] = TRUE]
        /\ tail' = [tail EXCEPT ![d] = k]
        /\ queued_thieves' = [queued_thieves EXCEPT ![d][k % N] = s]
    BY <1>2, <2>0 DEF ReceiveRequest, queue_thief
  <2>2. /\ head[d] \in Int /\ tail[d] \in Int /\ N \in Nat /\ k \in Nat
        /\ -1 =< head[d] /\ head[d] =< tail[d] /\ tail[d] - head[d] =< N - 1
    <3>1. head[d] \in Int /\ tail[d] \in Int /\ N \in Nat
      BY <1>1, NAssumption DEF QueueType
    <3>2. -1 =< head[d] /\ head[d] =< tail[d] /\ tail[d] - head[d] =< N
      BY <1>1 DEF Ring
    <3>3. tail[d] - N # head[d]
      BY <2>1
    <3> HIDE DEF d
    <3> QED
      BY <2>0, <3>1, <3>2, <3>3
  <2>3. k % N \in Rank /\ \A j \in Window(d) : j % N \in Rank /\ j % N # k % N
    <3>1. \A j \in Window(d) : j \in Nat /\ j < k /\ k - j < N
      <4> HIDE DEF d
      <4> QED
        BY <2>0, <2>2 DEF Window
    <3>2. k % N \in Rank /\ \A j \in Nat : j % N \in Rank
      <4>1. ASSUME NEW j \in Nat PROVE j % N \in Rank
        BY ModType
      <4> QED
        BY <2>2, <4>1
    <3>3. \A j \in Nat : j < k /\ k - j < N => j % N # k % N
      BY <2>2, ModInjective
    <3> QED
      BY <3>1, <3>2, <3>3
  <2>4. Window(d)' = Window(d) \cup {k}
    <3>1. head'[d] = head[d] /\ tail'[d] = k
      BY <1>1, <2>1 DEF QueueType
    <3> HIDE DEF d
    <3> QED
      BY <2>0, <2>2, <3>1 DEF Window
  <2>5. Entry(d, k)' = s /\ \A j \in Window(d) : Entry(d, j)' = Entry(d, j)
    <3>1. queued_thieves'[d] = [queued_thieves[d] EXCEPT ![k % N] = s]
      BY <1>1, <2>1 DEF QueueType
    <3>2. queued_thieves[d] \in [Rank -> Rank \cup {POPPED_ENTRY}]
      BY <1>1 DEF QueueType
    <3> QED
      BY <2>3, <3>1, <3>2 DEF Entry
  <2>6. Ring(d)'
    <3>1. head'[d] = head[d] /\ tail'[d] = k /\ thieves_waiting'[d]
      BY <1>1, <2>1 DEF QueueType
    <3>2. \A j \in Window(d)' : Entry(d, j)' \in Rank
      BY <1>1, <2>4, <2>5 DEF Ring
    <3> QED
      BY <2>0, <2>2, <3>1, <3>2 DEF Ring
  <2>7. ASSUME NEW u \in Rank, u # d PROVE Ring(u)'
    <3>1. /\ head'[u] = head[u] /\ tail'[u] = tail[u]
          /\ thieves_waiting'[u] = thieves_waiting[u]
          /\ queued_thieves'[u] = queued_thieves[u]
      BY <1>1, <2>1, <2>7 DEF QueueType
    <3> QED
      BY <3>1, RingFrame DEF RingInv
  <2> QED
    BY <2>6, <2>7 DEF RingInv
<1>3. CASE ~ReceiveRequest(m)
  <2>1. UNCHANGED queue
    BY <1>3 DEF Receive, receipt_of_stealRequest, ReceiveLifeline, ReceiveSync, lifeline
  <2> QED
    BY <2>1, RingFrame DEF RingInv, queue
<1> QED
  BY <1>2, <1>3

\* A place that has chosen to serve its queue finds it as it left it.
LEMMA ThiefComm ==
  ASSUME TypeInv, LoopInv, ThiefInv, NEW r \in Rank, CommStep(r)
  PROVE  ThiefInv'
<1>1. ASSUME NEW q \in Rank \ {r}
      PROVE  /\ pc'[q] = pc[q] /\ loc'[q] = loc[q]
             /\ thieves_waiting'[q] = thieves_waiting[q]
  <2>1. pc'[q] = pc[q] /\ loc'[q] = loc[q]
    BY DEF CommStep, EndLambda, ReportTo, Feed, Serve, StealTask, EndSteal, ShipSync,
       ShipLifeline, Renew, publish_local_load_info, MarkIdle, Invalidate, Release,
       Probe, EndProbe, RequestSucceeds, RequestFails, EndWait, Attempt, EndAck,
       EndAttempt, CheckPending, ReadInFlight, cbarrier_inc, cbarrier_test, Detect,
       cbarrier_dec, Step, Goto, Send, TypeInv, WordType
  <2>2. CASE ShipLifeline(r)
    <3>1. \/ UNCHANGED thieves_waiting
          \/ \E b \in BOOLEAN :
               thieves_waiting' = [thieves_waiting EXCEPT ![r] = b]
      <4>1. CASE failed'
        BY <2>2, <4>1 DEF ShipLifeline, queue
      <4>2. CASE ~failed'
        BY <2>2, <4>2 DEF ShipLifeline, pop_thief
      <4> QED
        BY <4>1, <4>2
    <3> QED
      BY <2>1, <3>1 DEF TypeInv, QueueType
  <2>3. CASE ~ShipLifeline(r)
    <3>1. UNCHANGED queue \/ Dropped(r)
      BY <2>3, CommFrame, AttemptEffect
    <3> QED
      BY <2>1, <3>1 DEF queue, Dropped, TypeInv, QueueType
  <2> QED
    BY <2>1, <2>2, <2>3
<1>2. ASSUME pc'[r] \in HandPc, loc'[r].victim < 0 PROVE thieves_waiting'[r]
  <2>1. CASE Serve(r)
    <3>1. UNCHANGED thieves_waiting
      BY <2>1 DEF Serve, lifeline, queue
    <3>2. CASE Requested(r)
      <4>1. loc'[r].victim = req_thread[r] /\ req_thread[r] >= 0
        BY <2>1, <3>2 DEF Serve, Requested, TypeInv, WordType, Loc
      <4>2. req_thread[r] \in Int
        BY NAssumption DEF TypeInv, WordType, Rank, REQ_AVAILABLE, REQ_UNAVAILABLE
      <4> QED
        BY <1>2, <4>1, <4>2
    <3>3. CASE ~Requested(r)
      BY <1>2, <2>1, <3>1, <3>3 DEF Serve, HandPc, Goto, TypeInv, WordType
    <3> QED
      BY <3>2, <3>3
  <2>2. CASE EndSteal(r) \/ \E t \in Task : StealTask(r, t)
    <3>1. pc[r] = "steal" /\ loc'[r].victim = loc[r].victim /\ UNCHANGED thieves_waiting
      BY <2>2 DEF EndSteal, StealTask, lifeline, queue, TypeInv, WordType, Loc
    <3> QED
      BY <1>2, <3>1 DEF ThiefInv, HandPc
  <2>3. CASE ~Serve(r) /\ ~EndSteal(r) /\ ~\E t \in Task : StealTask(r, t)
    <3>1. pc'[r] \notin HandPc
      BY <2>3 DEF CommStep, EndLambda, ReportTo, Feed, ShipSync, ShipLifeline, Renew,
         publish_local_load_info, MarkIdle, Invalidate, Release, Probe, EndProbe,
         RequestSucceeds, RequestFails, EndWait, Attempt, EndAck, EndAttempt,
         CheckPending, ReadInFlight, cbarrier_inc, cbarrier_test, Detect, cbarrier_dec,
         Step, Goto, SearchPc, HandPc, TypeInv, WordType
    <3> QED
      BY <1>2, <3>1
  <2> QED
    BY <2>1, <2>2, <2>3
<1> QED
  BY <1>1, <1>2 DEF ThiefInv

LEMMA ThiefReceive ==
  ASSUME TypeInv, ThiefInv, NEW m \in net, Receive(m)
  PROVE  ThiefInv'
<1>1. UNCHANGED <<pc, loc>>
  BY DEF Receive
<1>2. \A r \in Rank : thieves_waiting[r] => thieves_waiting'[r]
  BY DEF Receive, ReceiveRequest, receipt_of_stealRequest, ReceiveLifeline, ReceiveSync,
     queue_thief, lifeline, queue, TypeInv, QueueType, WordType, Message
<1> QED
  BY <1>1, <1>2 DEF ThiefInv

LEMMA ThiefOther ==
  ASSUME TypeInv, ThiefInv, LocalStep \/ (\E t \in Task : Spawn(t)) \/ UNCHANGED vars
  PROVE  UNCHANGED <<net, lifeline, failed>> /\ ThiefInv'
<1>1. /\ UNCHANGED <<net, lifeline, loc, failed>>
      /\ \/ UNCHANGED pc
         \/ \E p, q \in {"start", "advance", "left", "lambda"} :
              pc = [r \in Rank |-> p] /\ pc' = [r \in Rank |-> q]
  BY DEF LocalStep, BarrierStart, Restart, WorkerIdle, TaskStart, TaskEnd, Spawn, Create,
     TypeInv, WordType, vars
<1>2. ThiefInv'
  BY <1>1 DEF ThiefInv, HandPc, lifeline, queue
<1> QED
  BY <1>1, <1>2
-----------------------------------------------------------------------------
(* The thief queues without the cancelling of cyclic steals: who owes a    *)
(* task to whom.                                                           *)

RingAt(v) ==
  /\ -1 =< head[v] /\ head[v] =< tail[v]
  /\ thieves_waiting[v] <=> head[v] # tail[v]
  /\ \A k \in Window(v) : Entry(v, k) \in Rank \ {v}
  /\ \A j, k \in Window(v) : Entry(v, j) = Entry(v, k) => j = k

\* Where the request of t at v is: under way, in the queue, or answered.
Asked(t, v) == \E m \in net : m.kind = "steal" /\ m.src = t /\ m.dst = v
Queued(t, v) == \E k \in Window(v) : Entry(v, k) = t
IsAnswer(m, t, v) == m.kind = "lifeline" /\ m.src = v /\ m.dst = t
Answered(t, v) == \E m \in net : IsAnswer(m, t, v)

\* It is in one of these places only, while t counts v as contacted.
OweAt(t, v) ==
  /\ v \in contacted_victims[t] <=> Asked(t, v) \/ Queued(t, v) \/ Answered(t, v)
  /\ ~(Asked(t, v) /\ Queued(t, v))
  /\ ~(Asked(t, v) /\ Answered(t, v))
  /\ ~(Queued(t, v) /\ Answered(t, v))
  /\ \A m, n \in net : IsAnswer(m, t, v) /\ IsAnswer(n, t, v) => m = n

LifelineInv ==
  /\ \A v \in Rank : RingAt(v) /\ v \notin contacted_victims[v]
  /\ \A t, v \in Rank : OweAt(t, v)

\* Each thief is in the queue once, so the ring of N entries is never full.
LEMMA RingHasRoom ==
  ASSUME TypeInv, NEW v \in Rank, RingAt(v)
  PROVE  tail[v] - head[v] =< N - 1
<1>1. /\ head[v] \in Int /\ tail[v] \in Int /\ N \in Nat
  BY NAssumption DEF TypeInv, QueueType
<1>2. IsFiniteSet(Window(v)) /\ Cardinality(Window(v)) = tail[v] - head[v]
  <2>1. /\ IsFiniteSet(head[v] + 1 .. tail[v])
        /\ Cardinality(head[v] + 1 .. tail[v]) =
             IF head[v] + 1 > tail[v] THEN 0 ELSE tail[v] - (head[v] + 1) + 1
    BY <1>1, FS_Interval
  <2> QED
    BY <1>1, <2>1 DEF Window, RingAt
<1>3. IsFiniteSet(Rank \ {v}) /\ Cardinality(Rank \ {v}) = N - 1
  <2>1. /\ 0 \in Int /\ N - 1 \in Int
        /\ ~(0 > N - 1) /\ (N - 1) - 0 + 1 = N
    BY NAssumption
  <2>2. IsFiniteSet(0 .. N-1) /\ Cardinality(0 .. N-1) = N
    BY <2>1, FS_Interval
  <2> QED
    BY <2>2, FS_RemoveElement DEF Rank
<1>4. SUFFICES ASSUME N - 1 < tail[v] - head[v] PROVE FALSE
  BY <1>1
<1> DEFINE f == [k \in Window(v) |-> Entry(v, k)]
<1>5. f \in [Window(v) -> Rank \ {v}]
  BY DEF RingAt
<1>6. \E j, k \in Window(v) : j # k /\ f[j] = f[k]
  <2> HIDE DEF f
  <2> QED
    BY <1>2, <1>3, <1>4, <1>5, FS_PigeonHole
<1> QED
  BY <1>6 DEF RingAt

\* What is shipped to a queued thief goes to another place.
LEMMA ShipToOther ==
  ASSUME TypeInv, LifelineInv, RingInv, ThiefInv, NEW r \in Rank, ShipLifeline(r)
  PROVE  /\ ~failed' /\ head[r] + 1 \in Window(r)
         /\ head[r] + 1 \in Nat /\ Entry(r, head[r] + 1) \in Rank \ {r}
<1>1. ~failed' /\ head[r] + 1 \in Window(r) /\ head[r] + 1 \in Nat
  BY ShipHasThief
<1> QED
  BY <1>1 DEF LifelineInv, RingAt

\* Nothing of it changes: the entries, the marks, and the requests and answers
\* under way.
LEMMA LifelineFrame ==
  ASSUME LifelineInv, UNCHANGED <<contacted_victims, queue>>,
         \A m : m.kind \in {"steal", "lifeline"} => (m \in net' <=> m \in net)
  PROVE  LifelineInv'
<1>1. \A u \in Rank : RingAt(u)' <=> RingAt(u)
  BY DEF RingAt, Window, Entry, queue
<1>2. \A t, u \in Rank : OweAt(t, u)' <=> OweAt(t, u)
  <2>1. \A t, u \in Rank : /\ Queued(t, u)' <=> Queued(t, u)
                           /\ Asked(t, u)' <=> Asked(t, u)
                           /\ Answered(t, u)' <=> Answered(t, u)
    BY DEF Queued, Window, Entry, Asked, Answered, IsAnswer, queue
  <2>2. \A n, t, u : IsAnswer(n, t, u) => (n \in net' <=> n \in net)
    BY DEF IsAnswer
  <2>3. \A t, u \in Rank :
          (\A n, p \in net' : IsAnswer(n, t, u) /\ IsAnswer(p, t, u) => n = p) <=>
          (\A n, p \in net : IsAnswer(n, t, u) /\ IsAnswer(p, t, u) => n = p)
    BY <2>2
  <2> QED
    BY <2>1, <2>3 DEF OweAt, IsAnswer
<1> QED
  BY <1>1, <1>2 DEF LifelineInv

LEMMA LifelineComm ==
  ASSUME ~cyclic_steals_not_allowed, TypeInv, LoopInv, MsgInv, LifelineInv, RingInv,
         ThiefInv, NEW r \in Rank, CommStep(r)
  PROVE  LifelineInv'
<1>1. CASE ShipLifeline(r)
  <2> DEFINE f == head[r] + 1  thief == Entry(r, f)
             m == Msg("lifeline", r, thief, Stolen(r))
  <2>1. /\ ~failed' /\ f \in Window(r) /\ f \in Nat /\ thief \in Rank \ {r}
        /\ RingAt(r) /\ head[r] \in Int /\ tail[r] \in Int
    BY <1>1, ShipToOther DEF LifelineInv, TypeInv, QueueType
  <2>2. /\ net' = net \cup {m}
        /\ UNCHANGED <<contacted_victims, queued_thieves>> /\ pop_thief(r)
    BY <1>1, <2>1 DEF ShipLifeline, Send, pop_thief, Entry
  <2>3. /\ m.kind = "lifeline" /\ m.src = r /\ m.dst = thief
    BY DEF Msg
  <2> HIDE DEF m
  <2>4. /\ \A v \in Rank \ {r} : /\ head'[v] = head[v] /\ tail'[v] = tail[v]
                                 /\ thieves_waiting'[v] = thieves_waiting[v]
        /\ head'[r] = IF f = tail[r] THEN -1 ELSE f
        /\ tail'[r] = IF f = tail[r] THEN -1 ELSE tail[r]
        /\ thieves_waiting'[r] <=> f # tail[r]
    BY <2>2 DEF pop_thief, TypeInv, QueueType
  <2>5. /\ Window(r)' = Window(r) \ {f}
        /\ \A v \in Rank \ {r} : Window(v)' = Window(v)
        /\ \A v \in Rank, k \in Int : Entry(v, k)' = Entry(v, k)
    <3>1. Window(r)' = Window(r) \ {f}
      <4>1. CASE f = tail[r]
        BY <2>1, <2>4, <4>1 DEF Window
      <4>2. CASE f # tail[r]
        BY <2>1, <2>4, <4>2 DEF Window
      <4> QED
        BY <4>1, <4>2
    <3> QED
      BY <2>2, <2>4, <3>1 DEF Window, Entry
  <2>6. \A v \in Rank : Window(v) \subseteq Int
    BY DEF Window, TypeInv, QueueType
  <2>7. ASSUME NEW v \in Rank PROVE RingAt(v)'
    <3>1. CASE v = r
      <4>1. /\ -1 =< head'[r] /\ head'[r] =< tail'[r]
            /\ thieves_waiting'[r] <=> head'[r] # tail'[r]
        <5>1. CASE f = tail[r]
          BY <2>1, <2>4, <5>1
        <5>2. CASE f # tail[r]
          BY <2>1, <2>4, <5>2 DEF RingAt, Window
        <5> QED
          BY <5>1, <5>2
      <4> QED
        BY <2>1, <2>5, <2>6, <3>1, <4>1 DEF RingAt
    <3>2. CASE v # r
      BY <2>4, <2>5, <2>6, <3>2 DEF RingAt, LifelineInv
    <3> QED
      BY <3>1, <3>2
  <2>8. /\ \A t, v \in Rank : Queued(t, v)' <=> Queued(t, v) /\ ~(v = r /\ t = thief)
        /\ \A t, v \in Rank : Asked(t, v)' <=> Asked(t, v)
        /\ \A t, v \in Rank : Answered(t, v)' <=>
             Answered(t, v) \/ (v = r /\ t = thief)
        /\ Queued(thief, r)
    <3>1. \A t, v \in Rank : Queued(t, v)' <=> Queued(t, v) /\ ~(v = r /\ t = thief)
      BY <2>1, <2>5, <2>6 DEF Queued, RingAt
    <3>2. \A t, v \in Rank : Asked(t, v)' <=> Asked(t, v)
      BY <2>2, <2>3 DEF Asked
    <3>3. \A t, v \in Rank : Answered(t, v)' <=>
             Answered(t, v) \/ (v = r /\ t = thief)
      BY <2>2, <2>3 DEF Answered, IsAnswer
    <3> QED
      BY <2>1, <3>1, <3>2, <3>3 DEF Queued
  <2>9. ASSUME NEW t \in Rank, NEW v \in Rank PROVE OweAt(t, v)'
    <3>1. \A n, p \in net' : IsAnswer(n, t, v) /\ IsAnswer(p, t, v) => n = p
      <4>1. ~Answered(thief, r)
        BY <2>1, <2>8 DEF LifelineInv, OweAt
      <4>2. \A n \in net' : IsAnswer(n, t, v) =>
              IF v = r /\ t = thief THEN n = m ELSE n \in net
        BY <2>2, <2>3, <4>1 DEF Answered, IsAnswer
      <4>3. OweAt(t, v)
        BY DEF LifelineInv
      <4> QED
        BY <4>2, <4>3 DEF OweAt
    <3> QED
      BY <2>1, <2>2, <2>8, <3>1 DEF LifelineInv, OweAt
  <2> QED
    BY <2>2, <2>7, <2>9 DEF LifelineInv
<1>2. ASSUME ~ShipLifeline(r), NEW v \in Rank \ {r},
             v \notin contacted_victims[r],
             contacted_victims' = [contacted_victims EXCEPT ![r] = @ \cup {v}],
             net' = net \cup {Msg("steal", r, v, {})}, UNCHANGED queue
      PROVE  LifelineInv'
  <2>1. /\ \A u \in Rank : RingAt(u)' <=> RingAt(u)
        /\ \A t, u \in Rank : Queued(t, u)' <=> Queued(t, u)
    BY <1>2 DEF RingAt, Queued, Window, Entry, queue
  <2>2. /\ \A t, u \in Rank : Asked(t, u)' <=> Asked(t, u) \/ (t = r /\ u = v)
        /\ \A t, u \in Rank : Answered(t, u)' <=> Answered(t, u)
        /\ \A n \in net' : n.kind = "lifeline" => n \in net
    <3> DEFINE m == Msg("steal", r, v, {})
    <3>1. m.kind = "steal" /\ m.src = r /\ m.dst = v /\ net' = net \cup {m}
      BY <1>2 DEF Msg
    <3> HIDE DEF m
    <3>2. \A n \in net' : n.kind = "lifeline" => n \in net
      BY <3>1
    <3>3. \A t, u \in Rank : Asked(t, u)' <=> Asked(t, u) \/ (t = r /\ u = v)
      BY <3>1 DEF Asked
    <3>4. \A t, u \in Rank : Answered(t, u)' <=> Answered(t, u)
      BY <3>1 DEF Answered, IsAnswer
    <3> QED
      BY <3>2, <3>3, <3>4
  <2>3. \A t \in Rank : contacted_victims'[t] =
           contacted_victims[t] \cup (IF t = r THEN {v} ELSE {})
    BY <1>2 DEF TypeInv, QueueType
  <2>4. ASSUME NEW t \in Rank, NEW u \in Rank PROVE OweAt(t, u)'
    <3>1. OweAt(t, u)
      BY DEF LifelineInv
    <3>2. \A n, p \in net' : IsAnswer(n, t, u) /\ IsAnswer(p, t, u) => n = p
      <4>1. \A n \in net' : IsAnswer(n, t, u) => n \in net
        BY <2>2 DEF IsAnswer
      <4> QED
        BY <3>1, <4>1 DEF OweAt
    <3>3. u \in contacted_victims'[t] <=> u \in contacted_victims[t] \/ (t = r /\ u = v)
      BY <2>3
    <3>4. t = r /\ u = v => ~Queued(t, u) /\ ~Answered(t, u)
      BY <1>2, <3>1 DEF OweAt
    <3> QED
      BY <2>1, <2>2, <3>1, <3>2, <3>3, <3>4 DEF OweAt
  <2> QED
    BY <1>2, <2>1, <2>3, <2>4 DEF LifelineInv
<1>3. ASSUME ~ShipLifeline(r), UNCHANGED <<contacted_victims, queue>>,
             \A m : m.kind \in {"steal", "lifeline"} => (m \in net' <=> m \in net)
      PROVE  LifelineInv'
  BY <1>3, LifelineFrame
<1>4. CASE ShipSync(r)
  <2>1. ~ShipLifeline(r) /\ UNCHANGED <<contacted_victims, queue>>
    BY <1>4, NAssumption, RankType DEF ShipSync, ShipLifeline, lifeline, TypeInv, WordType, Loc
  <2>2. \A m : m.kind \in {"steal", "lifeline"} => (m \in net' <=> m \in net)
    BY <1>4 DEF ShipSync, Send, Msg
  <2> QED
    BY <1>3, <2>1, <2>2
<1>5. CASE ~ShipSync(r) /\ ~ShipLifeline(r)
  BY <1>2, <1>3, <1>5, CommFrame, AttemptEffect
<1> QED
  BY <1>1, <1>4, <1>5
\* A request is queued, an answer is taken, and both were expected.
LEMMA LifelineReceive ==
  ASSUME ~cyclic_steals_not_allowed, TypeInv, MsgInv, LifelineInv, ~failed,
         NEW m \in net, Receive(m)
  PROVE  LifelineInv' /\ ~failed'
<1> DEFINE d == m.dst  s == m.src
<1>1. m \in Message /\ d \in Rank /\ s \in Rank /\ OweAt(s, d) /\ OweAt(d, s) /\ RingAt(d)
  BY DEF TypeInv, WordType, Message, LifelineInv
<1>2. CASE ReceiveRequest(m)
  <2> DEFINE ack == Msg("ack", d, s, {})
  <2>0. PICK k \in Int : k = tail[d] + 1
    BY <1>1 DEF TypeInv, QueueType
  <2>1. /\ net' = (net \ {m}) \cup {ack} /\ ack.kind = "ack"
        /\ m.kind = "steal" /\ m.tasks = {}
        /\ UNCHANGED <<contacted_victims, head>>
        /\ failed' <=> tail[d] - N = head[d]
        /\ thieves_waiting' = [thieves_waiting EXCEPT ![d] = TRUE]
        /\ tail' = [tail EXCEPT ![d] = k]
        /\ queued_thieves' = [queued_thieves EXCEPT ![d][k % N] = s]
    BY <1>1, <1>2, <2>0 DEF ReceiveRequest, queue_thief, Msg, TypeInv, QueueType, MsgInv
  <2> HIDE DEF ack
  <2>2. /\ head[d] \in Int /\ tail[d] \in Int /\ N \in Nat /\ k \in Nat
        /\ -1 =< head[d] /\ head[d] =< tail[d] /\ tail[d] - head[d] =< N - 1
    BY <1>1, <2>0, RingHasRoom, NAssumption DEF TypeInv, QueueType, RingAt
  <2>3. k % N \in Rank /\ \A j \in Window(d) : j \in Nat /\ j % N \in Rank /\ j % N # k % N
    <3>1. \A j \in Window(d) : j \in Nat /\ j < k /\ k - j < N
      BY <2>0, <2>2 DEF Window
    <3>2. k % N \in Rank /\ \A j \in Window(d) : j % N \in Rank
      BY <2>2, <3>1, ModType
    <3>3. \A j \in Window(d) : j % N # k % N
      BY <2>2, <3>1, ModInjective
    <3> QED
      BY <3>1, <3>2, <3>3
  <2>4. /\ Window(d)' = Window(d) \cup {k} /\ k \notin Window(d)
        /\ \A u \in Rank \ {d} : Window(u)' = Window(u)
    <3>1. /\ UNCHANGED head /\ tail'[d] = k
          /\ \A u \in Rank \ {d} : tail'[u] = tail[u]
      BY <1>1, <2>1 DEF TypeInv, QueueType
    <3> HIDE DEF d
    <3> QED
      BY <2>0, <2>2, <3>1 DEF Window
  <2>5. /\ Entry(d, k)' = s
        /\ \A j \in Window(d) : Entry(d, j)' = Entry(d, j)
        /\ \A u \in Rank \ {d} : \A j : Entry(u, j)' = Entry(u, j)
    <3>1. /\ queued_thieves'[d] = [queued_thieves[d] EXCEPT ![k % N] = s]
          /\ \A u \in Rank \ {d} : queued_thieves'[u] = queued_thieves[u]
      BY <1>1, <2>1 DEF TypeInv, QueueType
    <3>2. queued_thieves[d] \in [Rank -> Rank \cup {POPPED_ENTRY}]
      BY <1>1 DEF TypeInv, QueueType
    <3> QED
      BY <2>3, <3>1, <3>2 DEF Entry
  <2>6. Asked(s, d) /\ s # d /\ d \in contacted_victims[s]
    BY <1>1, <2>1 DEF Asked, LifelineInv, OweAt
  <2>7. ~Queued(s, d) /\ ~Answered(s, d)
    BY <1>1, <2>6 DEF OweAt
  <2>8. \A t, u \in Rank : /\ Queued(t, u)' <=> Queued(t, u) \/ (t = s /\ u = d)
                           /\ Answered(t, u)' <=> Answered(t, u)
                           /\ Asked(t, u)' <=> Asked(t, u) /\ ~(t = s /\ u = d)
    <3>1. \A t, u \in Rank : Queued(t, u)' <=> Queued(t, u) \/ (t = s /\ u = d)
      BY <2>4, <2>5 DEF Queued
    <3>2. \A t, u \in Rank : Answered(t, u)' <=> Answered(t, u)
      BY <2>1 DEF Answered, IsAnswer
    <3>3. \A n \in net : n.kind = "steal" /\ n.src = s /\ n.dst = d => n = m
      <4> SUFFICES ASSUME NEW n \in net, n.kind = "steal", n.src = s, n.dst = d
                   PROVE  n = m
        OBVIOUS
      <4>1. n.tasks = {}
        BY DEF MsgInv
      <4>2. \A x \in Message : x = Msg(x.kind, x.src, x.dst, x.tasks)
        BY DEF Message, Msg
      <4> QED
        BY <1>1, <2>1, <4>1, <4>2 DEF TypeInv, WordType
    <3>4. \A t, u \in Rank : Asked(t, u)' <=> Asked(t, u) /\ ~(t = s /\ u = d)
      BY <2>1, <3>3 DEF Asked
    <3> QED
      BY <3>1, <3>2, <3>4
  <2>9. ASSUME NEW t \in Rank, NEW u \in Rank PROVE OweAt(t, u)'
    <3>1. OweAt(t, u)
      BY DEF LifelineInv
    <3>2. \A n, p \in net' : IsAnswer(n, t, u) /\ IsAnswer(p, t, u) => n = p
      <4>1. \A n \in net' : IsAnswer(n, t, u) => n \in net
        BY <2>1 DEF IsAnswer
      <4> QED
        BY <3>1, <4>1 DEF OweAt
    <3> QED
      BY <2>1, <2>6, <2>7, <2>8, <3>1, <3>2 DEF OweAt
  <2>10. RingAt(d)'
    <3>1. thieves_waiting'[d] /\ head'[d] # tail'[d] /\ -1 =< head'[d] /\ head'[d] =< tail'[d]
      BY <1>1, <2>0, <2>1, <2>2 DEF TypeInv, QueueType
    <3>2. \A j \in Window(d) : Entry(d, j) # s
      BY <2>7 DEF Queued
    <3> QED
      BY <1>1, <2>4, <2>5, <2>6, <3>1, <3>2 DEF RingAt
  <2>11. \A u \in Rank \ {d} : RingAt(u)'
    <3>1. \A u \in Rank \ {d} : /\ head'[u] = head[u] /\ tail'[u] = tail[u]
                                /\ thieves_waiting'[u] = thieves_waiting[u]
      BY <1>1, <2>1 DEF TypeInv, QueueType
    <3> QED
      BY <2>4, <2>5, <3>1 DEF RingAt, LifelineInv
  <2>12. ~failed'
    BY <2>1, <2>2
  <2> QED
    BY <2>1, <2>9, <2>10, <2>11, <2>12 DEF LifelineInv
<1>3. CASE receipt_of_stealRequest(m)
  <2>1. /\ net' = net \ {m} /\ m.kind = "ack"
        /\ UNCHANGED <<contacted_victims, queue, failed>>
    BY <1>3 DEF receipt_of_stealRequest
  <2>2. \A n : n.kind \in {"steal", "lifeline"} => (n \in net' <=> n \in net)
    BY <2>1
  <2> QED
    BY <2>1, <2>2, LifelineFrame
<1>4. CASE ReceiveLifeline(m)
  <2>1. /\ net' = net \ {m} /\ m.kind = "lifeline" /\ UNCHANGED queue
        /\ failed' = (s \notin contacted_victims[d])
        /\ contacted_victims' = [contacted_victims EXCEPT ![d] = @ \ {s}]
    BY <1>4 DEF ReceiveLifeline, Unwrap, unmark_victimContacted
  <2>2. Answered(d, s) /\ IsAnswer(m, d, s) /\ \A t, u : IsAnswer(m, t, u) => t = d /\ u = s
    BY <2>1 DEF Answered, IsAnswer
  <2>3. /\ s \in contacted_victims[d] /\ ~Asked(d, s) /\ ~Queued(d, s)
        /\ \A n \in net : IsAnswer(n, d, s) => n = m
    BY <1>1, <2>2 DEF OweAt
  <2>4. /\ \A u \in Rank : RingAt(u)' <=> RingAt(u)
        /\ \A t, u \in Rank : Queued(t, u)' <=> Queued(t, u)
    BY <2>1 DEF RingAt, Queued, Window, Entry, queue
  <2>5. \A t, u \in Rank : /\ Asked(t, u)' <=> Asked(t, u)
                           /\ Answered(t, u)' <=> Answered(t, u) /\ ~(t = d /\ u = s)
    <3>1. \A t, u \in Rank : Asked(t, u)' <=> Asked(t, u)
      BY <2>1 DEF Asked
    <3>2. \A n, t, u : IsAnswer(n, t, u)' <=> IsAnswer(n, t, u)
      BY DEF IsAnswer
    <3>3. \A t, u \in Rank : Answered(t, u)' <=> Answered(t, u) /\ ~(t = d /\ u = s)
      BY <2>1, <2>2, <2>3, <3>2 DEF Answered
    <3> QED
      BY <3>1, <3>3
  <2>6. \A t \in Rank : contacted_victims'[t] =
           contacted_victims[t] \ (IF t = d THEN {s} ELSE {})
    BY <1>1, <2>1 DEF TypeInv, QueueType
  <2>7. ASSUME NEW t \in Rank, NEW u \in Rank PROVE OweAt(t, u)'
    <3>1. OweAt(t, u)
      BY DEF LifelineInv
    <3>2. \A n, p \in net' : IsAnswer(n, t, u) /\ IsAnswer(p, t, u) => n = p
      BY <2>1, <3>1 DEF OweAt
    <3> QED
      BY <2>3, <2>4, <2>5, <2>6, <3>1, <3>2 DEF OweAt, IsAnswer
  <2> QED
    BY <2>1, <2>3, <2>4, <2>6, <2>7 DEF LifelineInv
<1>5. CASE ReceiveSync(m)
  <2>1. /\ net' = net \ {m} /\ m.kind = "sync"
        /\ UNCHANGED <<contacted_victims, queue, failed>>
    BY <1>5 DEF ReceiveSync, Unwrap, lifeline
  <2>2. \A n : n.kind \in {"steal", "lifeline"} => (n \in net' <=> n \in net)
    BY <2>1
  <2> QED
    BY <2>1, <2>2, LifelineFrame
<1> QED
  BY <1>2, <1>3, <1>4, <1>5 DEF Receive

-----------------------------------------------------------------------------
(* The barrier and the end.                                                *)

InBarrier == {r \in Rank : pc[r] \in BarPc \cup {"left"}}

\* The count is that of the places in the barrier, and stays once a place has
\* left.
BarrierInv ==
  /\ cb_count = Cardinality(InBarrier)
  /\ (\E r \in Rank : pc[r] = "left") => cb_count = N

ParkPc == {"inc", "left"} \cup BarPc

\* A place on its way to the barrier has nothing in flight; in it, it has no
\* local work but what has arrived since, which it has not reported yet.
ParkInv ==
  \A r \in Rank :
    /\ (pc[r] = "pending" /\ loc[r].i > r) \/ pc[r] \in ParkPc => Flying(r) = {}
    /\ pc[r] \in ParkPc => Pending(r) = {} \/ received_tasks_origin[r] # {}

LEMMA BarrierSize ==
  /\ IsFiniteSet(InBarrier) /\ Cardinality(InBarrier) \in 0 .. N
  /\ Cardinality(InBarrier) = N => InBarrier = Rank
<1>1. IsFiniteSet(0 .. N-1) /\ Cardinality(0 .. N-1) = N
  BY FS_Interval, NAssumption
<1> QED
  BY <1>1, NAssumption, FS_Subset, FS_CardinalityType DEF Rank, InBarrier
LEMMA OthersStay ==
  ASSUME TypeInv, NEW r \in Rank, CommStep(r)
  PROVE  \A q \in Rank \ {r} : pc'[q] = pc[q]
BY DEF CommStep, EndLambda, ReportTo, Feed, Serve, StealTask, EndSteal, ShipSync,
       ShipLifeline, Renew, publish_local_load_info, MarkIdle, Invalidate, Release,
       Probe, EndProbe, RequestSucceeds, RequestFails, EndWait, Attempt, EndAck,
       EndAttempt, CheckPending, ReadInFlight, cbarrier_inc, cbarrier_test, Detect,
       cbarrier_dec, Step, Goto, TypeInv, WordType

\* Which steps lead into the barrier and out of it.
LEMMA BarrierSteps ==
  ASSUME TypeInv, NEW r \in Rank, CommStep(r)
  PROVE  \/ /\ cbarrier_inc(r) /\ pc[r] = "inc" /\ pc'[r] = "inc_test"
            /\ cb_count' = cb_count + 1
         \/ /\ pc[r] \in BarPc /\ pc'[r] \in BarPc \cup {"left"}
            /\ pc'[r] = "left" => cb_count = N
            /\ UNCHANGED cb_count
         \/ /\ pc[r] = "cb_dec" /\ pc'[r] = "advance"
            /\ cb_count < N /\ cb_count' = cb_count - 1
         \/ /\ pc[r] \notin BarPc \cup {"left"} /\ pc'[r] \notin BarPc \cup {"left"}
            /\ UNCHANGED cb_count
<1> USE DEF TypeInv, WordType, Step, Goto, BarPc
<1>1. CASE cbarrier_inc(r)
  BY <1>1 DEF cbarrier_inc
<1>2. CASE cbarrier_test(r)
  BY <1>2 DEF cbarrier_test
<1>3. CASE Detect(r)
  BY <1>3 DEF Detect
<1>4. CASE cbarrier_dec(r)
  BY <1>4 DEF cbarrier_dec
<1>5. CASE ~cbarrier_inc(r) /\ ~cbarrier_test(r) /\ ~Detect(r) /\ ~cbarrier_dec(r)
  <2>1. pc[r] \notin BarPc \cup {"left"}
    BY <1>5 DEF CommStep, EndLambda, ReportTo, Feed, Serve, StealTask, EndSteal,
       ShipSync, ShipLifeline, Renew, publish_local_load_info, MarkIdle, Invalidate,
       Release, Probe, EndProbe, RequestSucceeds, RequestFails, EndWait, Attempt,
       EndAck, EndAttempt, CheckPending, ReadInFlight, Choose
  <2>2. pc'[r] \notin BarPc \cup {"left"}
    BY <1>5, <2>1 DEF CommStep, EndLambda, ReportTo, Feed, Serve, StealTask, EndSteal,
       ShipSync, ShipLifeline, Renew, publish_local_load_info, MarkIdle, Invalidate,
       Release, Probe, EndProbe, RequestSucceeds, RequestFails, EndWait, Attempt,
       EndAck, EndAttempt, CheckPending, ReadInFlight, SearchPc
  <2> QED
    BY <1>5, <2>1, <2>2, CommFrame
<1> QED
  BY <1>1, <1>2, <1>3, <1>4, <1>5

LEMMA BarrierComm ==
  ASSUME TypeInv, BarrierInv, NEW r \in Rank, CommStep(r)
  PROVE  BarrierInv'
<1>0. /\ \A q \in Rank \ {r} : pc'[q] = pc[q]
      /\ IsFiniteSet(InBarrier) /\ Cardinality(InBarrier) \in 0 .. N
      /\ Cardinality(InBarrier) = N => InBarrier = Rank
      /\ N \in Nat
  BY OthersStay, BarrierSize, NAssumption
<1>1. CASE pc[r] = "inc" /\ pc'[r] = "inc_test" /\ cb_count' = cb_count + 1
  <2>1. InBarrier' = InBarrier \cup {r} /\ r \notin InBarrier
    BY <1>0, <1>1 DEF InBarrier, BarPc
  <2>2. Cardinality(InBarrier') = Cardinality(InBarrier) + 1
    BY <1>0, <2>1, FS_AddElement
  <2>3. ASSUME NEW q \in Rank, pc'[q] = "left" PROVE FALSE
    <3>1. pc[q] = "left"
      BY <1>0, <1>1, <2>3
    <3> QED
      BY <1>0, <2>1, <3>1 DEF BarrierInv
  <2> QED
    BY <1>1, <2>2, <2>3 DEF BarrierInv
<1>2. CASE /\ pc[r] \in BarPc /\ pc'[r] \in BarPc \cup {"left"}
           /\ pc'[r] = "left" => cb_count = N
           /\ UNCHANGED cb_count
  <2>1. InBarrier' = InBarrier
    BY <1>0, <1>2 DEF InBarrier
  <2>2. (\E q \in Rank : pc'[q] = "left") => cb_count = N
    BY <1>0, <1>2 DEF BarrierInv
  <2> QED
    BY <1>2, <2>1, <2>2 DEF BarrierInv
<1>3. CASE /\ pc[r] = "cb_dec" /\ pc'[r] = "advance"
           /\ cb_count < N /\ cb_count' = cb_count - 1
  <2>1. InBarrier' = InBarrier \ {r} /\ r \in InBarrier
    BY <1>0, <1>3 DEF InBarrier, BarPc
  <2>2. Cardinality(InBarrier') = Cardinality(InBarrier) - 1
    BY <1>0, <2>1, FS_RemoveElement
  <2>3. ASSUME NEW q \in Rank PROVE pc'[q] # "left"
    BY <1>0, <1>3 DEF BarrierInv
  <2> QED
    BY <1>3, <2>2, <2>3 DEF BarrierInv
<1>4. CASE /\ pc[r] \notin BarPc \cup {"left"} /\ pc'[r] \notin BarPc \cup {"left"}
           /\ UNCHANGED cb_count
  <2>1. InBarrier' = InBarrier
    BY <1>0, <1>4 DEF InBarrier
  <2>2. (\E q \in Rank : pc'[q] = "left") => cb_count = N
    BY <1>0, <1>4 DEF BarrierInv
  <2> QED
    BY <1>4, <2>1, <2>2 DEF BarrierInv
<1> QED
  BY <1>1, <1>2, <1>3, <1>4, BarrierSteps

LEMMA BarrierOther ==
  ASSUME TypeInv, BarrierInv,
         \/ LocalStep \/ (\E t \in Task : Spawn(t)) \/ UNCHANGED vars
         \/ \E m \in net : Receive(m)
  PROVE  BarrierInv'
<1>1. CASE UNCHANGED <<pc, cb_count>>
  <2>1. InBarrier' = InBarrier
    BY <1>1 DEF InBarrier
  <2> QED
    BY <1>1, <2>1 DEF BarrierInv
<1>2. CASE BarrierStart \/ Restart
  <2>1. \A r \in Rank : pc'[r] \in {"advance", "lambda"}
    BY <1>2 DEF BarrierStart, Restart
  <2>2. InBarrier' = {}
    BY <2>1 DEF InBarrier, BarPc
  <2>3. cb_count' = 0
    <3>1. CASE Restart
      BY <3>1 DEF Restart
    <3>2. CASE BarrierStart
      <4>1. InBarrier = {} /\ UNCHANGED cb_count
        BY <3>2 DEF BarrierStart, InBarrier, BarPc
      <4> QED
        BY <4>1, FS_EmptySet DEF BarrierInv
    <3> QED
      BY <1>2, <3>1, <3>2
  <2> QED
    BY <2>1, <2>2, <2>3, FS_EmptySet DEF BarrierInv
<1> QED
  BY <1>1, <1>2 DEF LocalStep, WorkerIdle, TaskStart, TaskEnd, Spawn, Create, Receive, vars
-----------------------------------------------------------------------------
\* Only r adds to what r has in flight, and only by shipping.
LEMMA FlyingComm ==
  ASSUME TypeInv, LoopInv, MsgInv, NEW r \in Rank, CommStep(r), ~failed'
  PROVE  /\ \A q \in Rank \ {r} : Flying(q)' \subseteq Flying(q)
         /\ pc[r] # "ship" => Flying(r)' \subseteq Flying(r)
<1>1. ASSUME NEW o \in Rank, ReportTo(r, o)
      PROVE  \A q \in Rank : Flying(q)' \subseteq Flying(q)
  BY <1>1, ReportFlying
<1>2. CASE ShipSync(r) \/ ShipLifeline(r)
  <2>1. pc[r] = "ship"
    BY <1>2 DEF ShipSync, ShipLifeline, Step
  <2> QED
    BY <1>2, <2>1, ShipFlying
<1>3. CASE /\ \A o \in Rank : ~ReportTo(r, o)
           /\ ~ShipSync(r) /\ ~ShipLifeline(r)
  BY <1>3, PlainFlying
<1> QED
  BY <1>1, <1>2, <1>3

\* When the own counter is read as 0 nothing of the rank is in flight.
LEMMA ReadZero ==
  ASSUME TypeInv, FlightInv, NEW r \in Rank, asyncsInFlight[r] = 0, pc[r] # "ship"
  PROVE  Flying(r) = {}
<1>1. IsFiniteSet(Flying(r)) /\ Cardinality(Flying(r)) = 0
  BY FS_CardinalityType DEF FlightInv, AboutToShip
<1> QED
  BY <1>1, FS_EmptySet

LEMMA ParkComm ==
  ASSUME TypeInv, LoopInv, MsgInv, FlightInv, ParkInv, NEW r \in Rank, CommStep(r),
         ~failed'
  PROVE  ParkInv'
<1>1. ASSUME NEW q \in Rank \ {r}
      PROVE  /\ Flying(q)' \subseteq Flying(q) /\ Pending(q)' = Pending(q)
             /\ received_tasks_origin'[q] = received_tasks_origin[q]
             /\ pc'[q] = pc[q] /\ loc'[q] = loc[q]
  <2>1. loc'[q] = loc[q]
    BY DEF CommStep, EndLambda, ReportTo, Feed, Serve, StealTask, EndSteal, ShipSync,
       ShipLifeline, Renew, publish_local_load_info, MarkIdle, Invalidate, Release,
       Probe, EndProbe, RequestSucceeds, RequestFails, EndWait, Attempt, EndAck,
       EndAttempt, CheckPending, ReadInFlight, cbarrier_inc, cbarrier_test, Detect,
       cbarrier_dec, Send, TypeInv, WordType
  <2>2. received_tasks_origin'[q] = received_tasks_origin[q]
    BY CommFrame DEF ReportTo, decrement_tasks_in_flight_count, TypeInv, CountType
  <2> QED
    BY <2>1, <2>2, FlyingComm, HandComm, OthersStay
<1>2. CASE ReadInFlight(r)
  <2> DEFINE i == loc[r].i
  <2>1. /\ pc[r] = "pending" /\ Pending(r) = {} /\ Pending(r)' = {}
        /\ i \in Rank /\ Flying(r)' \subseteq Flying(r)
    BY <1>2, HandComm, FlyingComm DEF ReadInFlight, LoopInv, LoopAt
  <2>2. /\ i > r => Flying(r) = {}
        /\ i = r /\ asyncsInFlight[i] = 0 => Flying(r) = {}
    BY <2>1, ReadZero DEF ParkInv
  <2>3. \/ /\ asyncsInFlight[i] = 0 /\ i < N - 1
           /\ loc'[r].i = i + 1 /\ pc'[r] = "pending"
        \/ ~(asyncsInFlight[i] = 0 /\ i < N - 1) /\ pc'[r] \notin {"pending"} \cup ParkPc
        \/ ~(asyncsInFlight[i] = 0 /\ i < N - 1) /\ asyncsInFlight[i] = 0 /\ pc'[r] = "inc"
    BY <1>2 DEF ReadInFlight, Goto, TypeInv, WordType, Loc, ParkPc, BarPc
  <2>4. (pc'[r] = "pending" /\ loc'[r].i > r) \/ pc'[r] \in ParkPc => Flying(r) = {}
    BY <2>1, <2>2, <2>3, RankType, NAssumption DEF ParkPc, BarPc
  <2> QED
    BY <1>1, <2>1, <2>4 DEF ParkInv
<1>3. CASE ~ReadInFlight(r)
  <2>1. ~(pc'[r] = "pending" /\ loc'[r].i > r)
    <3>1. ASSUME pc'[r] = "pending" PROVE loc'[r] = Zero
      BY <1>3, <3>1 DEF CommStep, EndLambda, ReportTo, Feed, Serve, StealTask, EndSteal, ShipSync,
       ShipLifeline, Renew, publish_local_load_info, MarkIdle, Invalidate, Release,
       Probe, EndProbe, RequestSucceeds, RequestFails, EndWait, Attempt, EndAck,
       EndAttempt, CheckPending, ReadInFlight, cbarrier_inc, cbarrier_test, Detect,
       cbarrier_dec, Step, Goto, Choose, SearchPc, TypeInv, WordType
    <3> QED
      BY <3>1, RankType DEF Zero
  <2>2. ASSUME pc'[r] \in ParkPc
        PROVE  /\ pc[r] \in ParkPc /\ Flying(r)' \subseteq Flying(r)
               /\ Pending(r)' = Pending(r) /\ UNCHANGED received_tasks_origin
    <3>1. cbarrier_inc(r) \/ cbarrier_test(r) \/ Detect(r) \/ cbarrier_dec(r)
      BY <1>3, <2>2 DEF CommStep, EndLambda, ReportTo, Feed, Serve, StealTask, EndSteal, ShipSync,
       ShipLifeline, Renew, publish_local_load_info, MarkIdle, Invalidate, Release,
       Probe, EndProbe, RequestSucceeds, RequestFails, EndWait, Attempt, EndAck,
       EndAttempt, CheckPending, ReadInFlight, cbarrier_inc, cbarrier_test, Detect,
       cbarrier_dec, Step, Goto, Choose, SearchPc, ParkPc, BarPc, TypeInv, WordType
    <3>2. pc[r] \in ParkPc /\ UNCHANGED <<st, place, received_tasks_origin>>
      BY <3>1 DEF cbarrier_inc, cbarrier_test, Detect, cbarrier_dec, Step, ParkPc, BarPc,
         work, count
    <3>3. Flying(r)' \subseteq Flying(r)
      BY <3>2, FlyingComm DEF ParkPc, BarPc
    <3> QED
      BY <3>2, <3>3 DEF Pending
  <2> QED
    BY <1>1, <2>1, <2>2 DEF ParkInv
<1> QED
  BY <1>2, <1>3

LEMMA ParkReceive ==
  ASSUME TypeInv, WordInv, MsgInv, FlightInv, ParkInv, NEW m \in net, Receive(m)
  PROVE  ParkInv'
<1>1. UNCHANGED <<pc, loc>> /\ \A q \in Rank : Flying(q)' \subseteq Flying(q)
  BY FlightReceive DEF Receive
<1>2. /\ m.dst \in Rank /\ \A t \in m.tasks : st[t] = "net"
      /\ pc[m.dst] # "pending"
  BY DEF TypeInv, WordType, Message, MsgInv, Receive, AdvancePc
<1>3. \A q \in Rank : received_tasks_origin[q] \subseteq received_tasks_origin'[q]
  BY <1>2 DEF Receive, ReceiveRequest, receipt_of_stealRequest, ReceiveLifeline,
     ReceiveSync, queue_source_place_of_remoteTask, count, TypeInv, CountType
<1>4. ASSUME NEW q \in Rank, pc[q] \in ParkPc
      PROVE  Pending(q)' = Pending(q) \/ received_tasks_origin'[q] # {}
  <2>1. CASE ReceiveRequest(m) \/ receipt_of_stealRequest(m)
    BY <2>1 DEF ReceiveRequest, receipt_of_stealRequest, work, Pending
  <2>2. CASE ReceiveLifeline(m)
    <3>1. CASE q = m.dst
      BY <1>2, <2>2, <3>1 DEF ReceiveLifeline, queue_source_place_of_remoteTask,
         TypeInv, CountType
    <3>2. CASE q # m.dst
      BY <1>2, <2>2, <3>2 DEF ReceiveLifeline, Unwrap, Pending
    <3> QED
      BY <3>1, <3>2
  <2>3. CASE ReceiveSync(m)
    <3>1. pc[m.dst] = "wait_task"
      BY <1>2, <2>3 DEF ReceiveSync, WordInv, HolderInv, WaitInv, HoldsMsg
    <3>2. q # m.dst
      BY <1>4, <3>1 DEF ParkPc, BarPc
    <3> QED
      BY <1>2, <2>3, <3>2 DEF ReceiveSync, Unwrap, Pending
  <2> QED
    BY <2>1, <2>2, <2>3 DEF Receive
<1> QED
  BY <1>1, <1>3, <1>4 DEF ParkInv

LEMMA ParkOther ==
  ASSUME TypeInv, FlightInv, ParkInv,
         LocalStep \/ (\E t \in Task : Spawn(t)) \/ UNCHANGED vars
  PROVE  ParkInv'
<1>1. \A q \in Rank : Flying(q)' = Flying(q)
  BY FlightOther
<1>2. CASE BarrierStart \/ Restart
  <2>1. \A q \in Rank : pc'[q] \in {"advance", "lambda"}
    BY <1>2 DEF BarrierStart, Restart
  <2> QED
    BY <2>1 DEF ParkInv, ParkPc, BarPc
<1>3. ASSUME UNCHANGED <<pc, loc, received_tasks_origin>>,
             \A q \in Rank : pc[q] \in ParkPc /\ Pending(q) = {} => Pending(q)' = {}
      PROVE  ParkInv'
  BY <1>1, <1>3 DEF ParkInv
<1>4. ASSUME NEW t \in Task, TaskStart(t) \/ TaskEnd(t) PROVE ParkInv'
  <2>1. \A q \in Rank : Pending(q) = {} => Pending(q)' = {}
    BY <1>4 DEF TaskStart, TaskEnd, Pending, TypeInv, TaskType
  <2> QED
    BY <1>3, <1>4, <2>1 DEF TaskStart, TaskEnd, count
<1>5. ASSUME NEW t \in Task, Spawn(t) PROVE ParkInv'
  <2>1. PICK p \in Rank : /\ Create(t, p)
                          /\ pc[p] = "lambda" \/ \E u \in Task : st[u] = "run" /\ place[u] = p
    BY <1>5, ChoiceAssumption DEF Spawn, Rank, TypeInv, TaskType
  <2>2. \A q \in Rank : pc[q] \in ParkPc /\ Pending(q) = {} => Pending(q)' = {}
    BY <2>1 DEF Create, Pending, TypeInv, TaskType, ParkPc, BarPc
  <2> QED
    BY <1>3, <2>1, <2>2 DEF Create, count
<1>6. CASE (\E q \in Rank : WorkerIdle(q)) \/ UNCHANGED vars
  BY <1>3, <1>6 DEF WorkerIdle, vars, work, count, Pending
<1> QED
  BY <1>2, <1>4, <1>5, <1>6 DEF LocalStep
-----------------------------------------------------------------------------
(* The inductive invariant, and what follows from it.                      *)

\* Which assertions hold, and what the queues say of the requests, depends on
\* whether cyclic steals are cancelled.
IInv == /\ TypeInv /\ WordInv /\ LoopInv /\ MsgInv /\ FlightInv /\ ThiefInv
        /\ BarrierInv /\ ParkInv
        /\ ~failed => RingInv
        /\ ~cyclic_steals_not_allowed => LifelineInv /\ ~failed

LEMMA InitInv == Init => IInv
<1> SUFFICES ASSUME Init PROVE IInv
  OBVIOUS
<1>1. TypeInv /\ WordInv /\ ~failed
  BY TypeInit, WordInit DEF Init
<1>2. \A r \in Rank : Stolen(r) = {} /\ Pending(r) = {} /\ Flying(r) = {}
  BY DEF Init, Stolen, Pending, Flying
<1>3. LoopInv /\ MsgInv /\ ThiefInv
  BY <1>2 DEF Init, LoopInv, LoopAt, HandPc, MsgInv, ThiefInv, Zero
<1>4. FlightInv
  <2>1. \A r \in Rank : asyncsInFlight[r] = 0 /\ pc[r] = "lambda"
    BY DEF Init
  <2> QED
    BY <1>2, <2>1, FS_EmptySet DEF FlightInv, AboutToShip
<1>5. LifelineInv /\ RingInv
  <2>1. \A v \in Rank : Window(v) = {}
    BY DEF Init, Window
  <2>2. \A v \in Rank : RingAt(v) /\ Ring(v)
    BY <2>1, NAssumption DEF Init, RingAt, Ring
  <2> QED
    BY <2>1, <2>2 DEF Init, LifelineInv, RingInv, OweAt, Asked, Queued, Answered, IsAnswer
<1>6. BarrierInv
  <2>1. InBarrier = {}
    BY DEF Init, InBarrier, BarPc
  <2> QED
    BY <2>1, FS_EmptySet DEF Init, BarrierInv
<1>7. ParkInv
  BY DEF Init, ParkInv, ParkPc, BarPc
<1> QED
  BY <1>1, <1>3, <1>4, <1>5, <1>6, <1>7 DEF IInv

LEMMA StepInv == IInv /\ [Next]_vars => IInv'
<1> SUFFICES ASSUME IInv, [Next]_vars PROVE IInv'
  OBVIOUS
<1> USE DEF IInv
<1>1. WordInv'
  BY WordStep
<1>2. ASSUME NEW r \in Rank, CommStep(r), ~failed PROVE IInv'
  <2>1. ~failed'
    BY <1>2, NoFailComm
  <2>2. TypeInv'
    BY <1>1, <1>2, <2>1, TypeComm DEF TypeInv, WordInv
  <2>3. LoopInv' /\ MsgInv' /\ FlightInv'
    BY <1>2, <2>1, LoopComm, MsgComm, FlightComm
  <2>4. RingInv' /\ ThiefInv'
    BY <1>2, RingComm, ThiefComm
  <2>5. BarrierInv' /\ ParkInv'
    BY <1>2, <2>1, BarrierComm, ParkComm
  <2>6. ~cyclic_steals_not_allowed' => LifelineInv'
    <3>1. cyclic_steals_not_allowed' = cyclic_steals_not_allowed
      BY <1>2, CommFrame DEF env
    <3> QED
      BY <1>2, <3>1, LifelineComm
  <2> QED
    BY <1>1, <2>1, <2>2, <2>3, <2>4, <2>5, <2>6
<1>3. ASSUME NEW m \in net, Receive(m), ~failed PROVE IInv'
  <2>1. TypeInv'
    BY <1>1, <1>3, TypeReceive DEF TypeInv, WordInv
  <2>2. LoopInv' /\ MsgInv' /\ FlightInv'
    BY <1>3, LoopReceive, MsgReceive, FlightReceive
  <2>3. ThiefInv' /\ (~failed' => RingInv')
    BY <1>3, RingReceive, ThiefReceive
  <2>4. BarrierInv' /\ ParkInv'
    BY <1>3, BarrierOther, ParkReceive
  <2>5. ~cyclic_steals_not_allowed' => LifelineInv' /\ ~failed'
    <3>1. cyclic_steals_not_allowed' = cyclic_steals_not_allowed
      BY <1>3 DEF Receive, env
    <3> QED
      BY <1>3, <3>1, LifelineReceive
  <2> QED
    BY <1>1, <2>1, <2>2, <2>3, <2>4, <2>5
<1>4. ASSUME LocalStep \/ (\E t \in Task : Spawn(t)) \/ UNCHANGED vars PROVE IInv'
  <2>1. UNCHANGED cyclic_steals_not_allowed
    BY <1>4 DEF LocalStep, BarrierStart, Restart, WorkerIdle, TaskStart, TaskEnd, Spawn,
       Create, vars, env
  <2>2. TypeInv'
    BY <1>1, <1>4, TypeOther DEF TypeInv, WordInv
  <2>3. LoopInv' /\ MsgInv' /\ FlightInv'
    BY <1>4, LoopOther, MsgOther, FlightOther
  <2>4. ThiefInv' /\ UNCHANGED <<net, lifeline, failed>>
    BY <1>4, ThiefOther
  <2>5. /\ LifelineInv => LifelineInv'
        /\ RingInv => RingInv'
    BY <2>4, LifelineFrame, RingFrame DEF lifeline, queue, RingInv
  <2>6. BarrierInv' /\ ParkInv'
    BY <1>4, BarrierOther, ParkOther
  <2> QED
    BY <1>1, <2>1, <2>2, <2>3, <2>4, <2>5, <2>6
<1> QED
  BY <1>2, <1>3, <1>4 DEF Next, Run, Stopped

\* The inductive invariant of distributed work stealing.
THEOREM StealInvariant == Spec => []IInv
BY InitInv, StepInv, PTL DEF Spec

\* Nothing writes the flag read at start-up, and failed is set to a comparison.
Flags == cyclic_steals_not_allowed \in Cancel /\ failed \in BOOLEAN

LEMMA FlagsAreTyped == Spec => []Flags
<1>1. Init => Flags
  BY DEF Init, Flags
<1>2. Flags /\ [Next]_vars => Flags'
  <2> SUFFICES ASSUME Flags, [Next]_vars PROVE Flags'
    OBVIOUS
  <2>1. ASSUME NEW r \in Rank, CommStep(r) PROVE Flags'
    <3>1. UNCHANGED cyclic_steals_not_allowed
      BY <2>1, CommFrame DEF env
    <3>2. failed' \in BOOLEAN
      <4>1. CASE ShipLifeline(r)
        BY <4>1 DEF ShipLifeline
      <4>2. CASE UNCHANGED failed
        BY <4>2 DEF Flags
      <4> QED
        BY <2>1, <4>1, <4>2, CommFrame
    <3> QED
      BY <3>1, <3>2 DEF Flags
  <2>2. ASSUME NEW m \in net, Receive(m) PROVE Flags'
    <3>1. UNCHANGED cyclic_steals_not_allowed
      BY <2>2 DEF Receive, env
    <3>2. failed' \in BOOLEAN
      BY <2>2 DEF Receive, ReceiveRequest, queue_thief, receipt_of_stealRequest,
         ReceiveLifeline, unmark_victimContacted, ReceiveSync, Flags
    <3> QED
      BY <3>1, <3>2 DEF Flags
  <2>3. ASSUME LocalStep \/ (\E t \in Task : Spawn(t)) \/ UNCHANGED vars PROVE Flags'
    BY <2>3 DEF LocalStep, BarrierStart, Restart, WorkerIdle, TaskStart, TaskEnd, Spawn,
       Create, vars, env, Flags
  <2> QED
    BY <2>1, <2>2, <2>3 DEF Next, Run, Stopped
<1> QED
  BY <1>1, <1>2, PTL DEF Spec

\* Every variable keeps its type: no in-flight counter goes below zero, the
\* barrier counts at most N places.
THEOREM StealTypes == Spec => []TypeOK
<1>1. IInv /\ Flags => TypeOK
  <2> SUFFICES ASSUME IInv, Flags PROVE TypeOK
    OBVIOUS
  <2>1. asyncsInFlight \in [Rank -> Nat]
    <3>1. \A r \in Rank : asyncsInFlight[r] \in Nat
      BY FS_CardinalityType DEF IInv, FlightInv, AboutToShip
    <3> QED
      BY <3>1 DEF IInv, TypeInv, CountType
  <2>2. cb_count \in 0 .. N
    BY BarrierSize DEF IInv, BarrierInv
  <2>3. cyclic_steals_not_allowed \in Cancel /\ failed \in BOOLEAN
    BY DEF Flags
  <2> QED
    BY <2>1, <2>2, <2>3 DEF IInv, TypeInv, WordType, TaskType, QueueType, CountType,
       PlaceType, Loc, TypeOK
<1> QED
  BY <1>1, StealInvariant, FlagsAreTyped, PTL

\* The in-flight counter of a rank is the number of its shipments that have not
\* been reported (INCREMENT_TASK_IN_FLIGHT_SELF, decrement_tasks_in_flight_count).
THEOREM ShipmentsAreCounted == Spec => []InFlightExact
<1>1. IInv => InFlightExact
  BY DEF IInv, FlightInv, AboutToShip, InFlightExact
<1> QED
  BY <1>1, StealInvariant, PTL

\* No HASSERT of the thief queue and the contacted victims fails.
THEOREM AssertionsHold ==
  ASSUME Cancel = {FALSE}
  PROVE  Spec => []NoHassert
<1>1. IInv /\ Flags => NoHassert
  BY DEF IInv, Flags, NoHassert
<1> QED
  BY <1>1, StealInvariant, FlagsAreTyped, PTL

\* Those of ship_asyncAny_to_remote_thief and pop_thief hold even if cyclic
\* steals are cancelled: a place that has stolen for its queue has a thief there.
THEOREM ShippingHasAThief ==
  Spec => [][\A r \in Rank : ShipLifeline(r) => ~failed']_vars
<1>1. IInv /\ [Next]_vars => [\A r \in Rank : ShipLifeline(r) => ~failed']_vars
  <2> SUFFICES ASSUME IInv, [Next]_vars, NEW r \in Rank, ShipLifeline(r),
                      ~UNCHANGED vars
               PROVE  ~failed'
    OBVIOUS
  <2>1. ~failed
    BY DEF Next, Stopped
  <2> QED
    BY <2>1, ShipHasThief DEF IInv
<1> QED
  BY <1>1, StealInvariant, PTL DEF Spec

\* thieves_waiting tells whether the thief queue has an entry, and the entries
\* are other places, each once (queue_thief, pop_thief).
THEOREM QueueIsSound ==
  ASSUME Cancel = {FALSE}
  PROVE  Spec => []QueueSound
<1>1. IInv /\ Flags => QueueSound
  <2> SUFFICES ASSUME IInv, Flags, NEW r \in Rank
               PROVE  /\ thieves_waiting[r] = (head[r] # tail[r])
                      /\ \A k \in DOMAIN Thieves(r) : Thieves(r)[k] \in Rank \ {r}
                      /\ \A j, k \in DOMAIN Thieves(r) :
                           Thieves(r)[j] = Thieves(r)[k] => j = k
    BY DEF QueueSound
  <2>1. /\ RingAt(r) /\ TypeInv /\ thieves_waiting[r] \in BOOLEAN
        /\ head[r] \in Int /\ tail[r] \in Int
    BY DEF IInv, Flags, LifelineInv, TypeInv, QueueType
  <2>2. \A j, k \in DOMAIN Thieves(r) : head[r] + j = head[r] + k => j = k
    <3>1. DOMAIN Thieves(r) = 1 .. tail[r] - head[r]
      BY <2>1, ThievesAreWindow
    <3> QED
      BY <2>1, <3>1
  <2> QED
    BY <2>1, <2>2, ThievesAreWindow DEF RingAt
<1> QED
  BY <1>1, StealInvariant, FlagsAreTyped, PTL

\* A place owes an answer exactly to those that count it as contacted, once
\* (mark_victimContacted, queue_thief, unmark_victimContacted).
THEOREM RequestsAreConserved == Spec => []RequestsConserved
<1>1. IInv => RequestsConserved
  <2> SUFFICES ASSUME IInv, ~cyclic_steals_not_allowed, NEW t \in Rank, NEW v \in Rank
               PROVE  Outstanding(t, v) = IF v \in contacted_victims[t] THEN 1 ELSE 0
    BY DEF RequestsConserved
  <2> DEFINE M == {m \in net : \/ m.kind = "steal" /\ m.src = t /\ m.dst = v
                               \/ m.kind = "lifeline" /\ m.src = v /\ m.dst = t}
             K == {k \in DOMAIN Thieves(v) : Thieves(v)[k] = t}
  <2>1. TypeInv /\ OweAt(t, v) /\ RingAt(v) /\ head[v] \in Int /\ tail[v] \in Int
    BY DEF IInv, LifelineInv, TypeInv, QueueType
  <2>2. M # {} <=> Asked(t, v) \/ Answered(t, v)
    BY DEF Asked, Answered, IsAnswer
  <2>3. \A m, n \in M : m = n
    <3>1. SUFFICES ASSUME NEW m \in M, NEW n \in M PROVE m = n
      OBVIOUS
    <3>2. CASE m.kind = "lifeline" /\ n.kind = "lifeline"
      BY <2>1, <3>2 DEF OweAt, IsAnswer
    <3>3. CASE m.kind = "steal" /\ n.kind = "steal"
      <4>1. m.tasks = {} /\ n.tasks = {}
        BY <3>3 DEF IInv, MsgInv
      <4>2. m \in Message /\ n \in Message
        BY <2>1 DEF TypeInv, WordType
      <4>3. m.src = t /\ m.dst = v /\ n.src = t /\ n.dst = v
        BY <3>3
      <4> QED
        BY <3>3, <4>1, <4>2, <4>3 DEF Message
    <3>4. CASE m.kind # n.kind
      BY <2>1, <3>4 DEF OweAt, Asked, Answered, IsAnswer
    <3> QED
      BY <3>2, <3>3, <3>4
  <2>4. K # {} <=> Queued(t, v)
    <3>1. ASSUME NEW k \in K PROVE Queued(t, v)
      BY <2>1, ThievesAreWindow DEF Queued
    <3>2. ASSUME NEW j \in Window(v), Entry(v, j) = t PROVE j - head[v] \in K
      <4>1. j - head[v] \in DOMAIN Thieves(v) /\ j \in Int
        BY <2>1, ThievesAreWindow DEF Window
      <4>2. Thieves(v)[j - head[v]] = Entry(v, head[v] + (j - head[v]))
        BY <2>1, <4>1, ThievesAreWindow
      <4>3. head[v] + (j - head[v]) = j
        BY <2>1, <4>1
      <4> QED
        BY <3>2, <4>1, <4>2, <4>3
    <3> QED
      BY <3>1, <3>2 DEF Queued
  <2>5. \A j, k \in K : j = k
    <3>1. SUFFICES ASSUME NEW j \in K, NEW k \in K PROVE j = k
      OBVIOUS
    <3>2. head[v] + j = head[v] + k
      BY <2>1, ThievesAreWindow DEF RingAt
    <3>3. DOMAIN Thieves(v) = 1 .. tail[v] - head[v]
      BY <2>1, ThievesAreWindow
    <3> QED
      BY <2>1, <3>2, <3>3
  <2>6. Outstanding(t, v) = Cardinality(M) + Cardinality(K)
    BY DEF Outstanding
  <2> HIDE DEF M, K
  <2>7. /\ Cardinality(M) = IF M = {} THEN 0 ELSE 1
        /\ Cardinality(K) = IF K = {} THEN 0 ELSE 1
    BY <2>3, <2>5, AtMostOne
  <2>8. /\ v \in contacted_victims[t] <=> M # {} \/ K # {}
        /\ M = {} \/ K = {}
    BY <2>1, <2>2, <2>4 DEF OweAt
  <2> QED
    BY <2>6, <2>7, <2>8
<1> QED
  BY <1>1, StealInvariant, PTL

\* When a rank has left the loop, all have entered the barrier, none has
\* anything in flight, and so nothing has reached any of them since.
LEMMA InvSafe == IInv => TerminationSafe
<1> SUFFICES ASSUME IInv, \E r \in Rank : pc[r] = "left"
             PROVE  /\ \A t \in Task : st[t] \in {"new", "done"}
                    /\ \A m \in net : m.tasks = {}
                    /\ \A r \in Rank : asyncsInFlight[r] = 0 /\ ~waitForTaskFromVictim[r]
  BY DEF TerminationSafe
<1> USE DEF IInv
<1>1. \A r \in Rank : pc[r] \in BarPc \cup {"left"}
  BY BarrierSize DEF BarrierInv, InBarrier
<1>2. \A r \in Rank : Flying(r) = {} /\ Stolen(r) = {}
  BY <1>1 DEF ParkInv, ParkPc, LoopInv, LoopAt, HandPc, BarPc
<1>3. \A m \in net : m.tasks = {}
  BY <1>2 DEF Flying, TypeInv, WordType, Message
<1>4. \A r \in Rank : received_tasks_origin[r] = {}
  BY <1>2 DEF Flying, TypeInv, CountType, Message, MsgInv
<1>5. \A r \in Rank : Pending(r) = {}
  BY <1>1, <1>4 DEF ParkInv, ParkPc
<1>6. ASSUME NEW t \in Task PROVE st[t] \in {"new", "done"}
  BY <1>2, <1>3, <1>5 DEF MsgInv, Stolen, Pending, TypeInv, TaskType, TaskState
<1>7. ASSUME NEW r \in Rank PROVE asyncsInFlight[r] = 0 /\ ~waitForTaskFromVictim[r]
  <2>1. Cardinality(Flying(r)) = 0 /\ AboutToShip(r) = 0
    BY <1>1, <1>2, FS_EmptySet DEF AboutToShip, BarPc
  <2> QED
    BY <1>1, <2>1 DEF FlightInv, WordInv, WaitInv, BarPc
<1> QED
  BY <1>3, <1>6, <1>7

\* No rank leaves the loop while a task is unfinished, on its way, or waited for.
THEOREM StealTerminationIsSafe == Spec => []TerminationSafe
BY InvSafe, StealInvariant, PTL
=============================================================================
