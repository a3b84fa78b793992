------------------------- MODULE DistWSRefine_proofs -------------------------
(***************************************************************************)
(* The four stealing protocols implement WorkStealing, for any number of   *)
(* ranks, tasks and finishes, when cyclic steals are not cancelled: each   *)
(* step of DistWS is one step of the abstract specification, or none.      *)
(***************************************************************************)
EXTENDS DistWSSteal_proofs

\* The tasks of a message are still those of its sender.
PlaceInv == \A m \in net : \A t \in m.tasks : place[t] = m.src

RInv == IInv /\ PlaceInv /\ ~cyclic_steals_not_allowed

Tasks == [t \in Task |-> Status(t)]
Waiting == {p \in Rank \X Rank : WaitsFor(p[1], p[2])}
Owed == {p \in Rank \X Rank : p[2] \in contacted_victims[p[1]]}
Left == {r \in Rank : pc[r] = "left"}

-----------------------------------------------------------------------------
LEMMA PlaceInit == Init => PlaceInv
BY DEF Init, PlaceInv

LEMMA PlaceStep == IInv /\ PlaceInv /\ [Next]_vars => PlaceInv'
<1> SUFFICES ASSUME IInv, PlaceInv, [Next]_vars PROVE PlaceInv'
  OBVIOUS
<1>0. /\ TypeInv /\ MsgInv /\ LoopInv
      /\ \A m \in net : m \in Message /\ m.tasks \subseteq Task
  BY DEF IInv, TypeInv, WordType, Message
<1>1. ASSUME NEW r \in Rank, CommStep(r), ~failed PROVE PlaceInv'
  <2>1. UNCHANGED place
    BY <1>1, CommFrame
  <2>2. CASE ShipSync(r) \/ ShipLifeline(r)
    <3>1. ~failed'
      BY <1>1, NoFailComm DEF IInv
    <3>2. PICK k \in {"sync", "lifeline"}, d \in Rank : Send(r, Msg(k, r, d, Stolen(r)))
      BY <1>0, <2>2, <3>1, ShipEffect
    <3>3. \A t \in Stolen(r) : place[t] = r
      BY DEF Stolen
    <3> QED
      BY <2>1, <3>2, <3>3 DEF PlaceInv, Send, Msg
  <2>3. CASE Attempt(r)
    <3>1. \A m \in net' : m \in net \/ m.tasks = {}
      BY <1>0, <2>3, AttemptEffect DEF Msg
    <3> QED
      BY <2>1, <3>1 DEF PlaceInv
  <2>4. CASE UNCHANGED net
    BY <2>1, <2>4 DEF PlaceInv
  <2> QED
    BY <1>1, <2>2, <2>3, <2>4, CommFrame
<1>2. ASSUME NEW m \in net, Receive(m) PROVE PlaceInv'
  <2>1. CASE ReceiveRequest(m) \/ receipt_of_stealRequest(m)
    <3>1. UNCHANGED place /\ \A n \in net' : n \in net \/ n.tasks = {}
      BY <2>1 DEF ReceiveRequest, receipt_of_stealRequest, work, Msg
    <3> QED
      BY <3>1 DEF PlaceInv
  <2>2. CASE ReceiveLifeline(m) \/ ReceiveSync(m)
    <3>1. /\ net' = net \ {m}
          /\ place' = [t \in Task |-> IF t \in m.tasks THEN m.dst ELSE place[t]]
      BY <2>2 DEF ReceiveLifeline, ReceiveSync, Unwrap
    <3>2. ASSUME NEW n \in net', NEW t \in n.tasks PROVE place'[t] = n.src
      <4>1. n \in net /\ t \in Task /\ t \notin m.tasks
        BY <1>0, <3>1, <3>2 DEF MsgInv
      <4> QED
        BY <3>1, <4>1 DEF PlaceInv
    <3> QED
      BY <3>2 DEF PlaceInv
  <2> QED
    BY <1>2, <2>1, <2>2 DEF Receive
<1>3. ASSUME LocalStep \/ UNCHANGED vars PROVE PlaceInv'
  <2>1. UNCHANGED <<net, place>>
    BY <1>3 DEF LocalStep, BarrierStart, Restart, WorkerIdle, TaskStart, TaskEnd, vars, work
  <2> QED
    BY <2>1 DEF PlaceInv
<1>4. ASSUME NEW u \in Task, Spawn(u) PROVE PlaceInv'
  <2>1. PICK r : Create(u, r)
    BY <1>4 DEF Spawn
  <2>2. /\ UNCHANGED net /\ st[u] = "new"
        /\ \A t \in Task : t # u => place'[t] = place[t]
    BY <1>0, <2>1 DEF Create, TypeInv, TaskType
  <2>3. \A m \in net : u \notin m.tasks
    BY <1>0, <2>2 DEF MsgInv
  <2> QED
    BY <1>0, <2>2, <2>3 DEF PlaceInv
<1> QED
  BY <1>1, <1>2, <1>3, <1>4 DEF Next, Run, Stopped

LEMMA RefineInv ==
  ASSUME Cancel = {FALSE}
  PROVE  Spec => []RInv
<1>1. Init => IInv /\ PlaceInv
  BY InitInv, PlaceInit
<1>2. IInv /\ PlaceInv /\ [Next]_vars => (IInv /\ PlaceInv)'
  BY StepInv, PlaceStep
<1>3. IInv /\ PlaceInv /\ Flags => RInv
  BY DEF Flags, RInv
<1> QED
  BY <1>1, <1>2, <1>3, FlagsAreTyped, PTL DEF Spec

-----------------------------------------------------------------------------
(* Sets of pairs of ranks.                                                 *)

LEMMA PairsEqual ==
  ASSUME NEW A \in SUBSET (Rank \X Rank), NEW B \in SUBSET (Rank \X Rank),
         \A x, y \in Rank : <<x, y>> \in B <=> <<x, y>> \in A
  PROVE  B = A
OBVIOUS

LEMMA PairAdded ==
  ASSUME NEW A \in SUBSET (Rank \X Rank), NEW B \in SUBSET (Rank \X Rank),
         NEW a \in Rank, NEW b \in Rank,
         \A x, y \in Rank : <<x, y>> \in B <=> <<x, y>> \in A \/ (x = a /\ y = b)
  PROVE  B = A \cup {<<a, b>>}
OBVIOUS

LEMMA PairRemoved ==
  ASSUME NEW A \in SUBSET (Rank \X Rank), NEW B \in SUBSET (Rank \X Rank),
         NEW a \in Rank, NEW b \in Rank,
         \A x, y \in Rank : <<x, y>> \in B <=> <<x, y>> \in A /\ ~(x = a /\ y = b)
  PROVE  B = A \ {<<a, b>>}
OBVIOUS

LEMMA PairSets ==
  /\ Waiting \in SUBSET (Rank \X Rank) /\ Waiting' \in SUBSET (Rank \X Rank)
  /\ Owed \in SUBSET (Rank \X Rank) /\ Owed' \in SUBSET (Rank \X Rank)
  /\ \A t, v \in Rank :
       /\ <<t, v>> \in Waiting <=> WaitsFor(t, v)
       /\ <<t, v>> \in Waiting' <=> WaitsFor(t, v)'
       /\ <<t, v>> \in Owed <=> v \in contacted_victims[t]
       /\ <<t, v>> \in Owed' <=> v \in contacted_victims'[t]
BY DEF Waiting, Owed

\* Who waits, in terms of DistWS_proofs.
SentFrom(t, v) == \E m \in net : HoldsMsg(m, t) /\ m.src = v

LEMMA WaitsMeans ==
  \A t, v : WaitsFor(t, v) <=> HoldsWord(v, t) \/ HoldsFree(v, t) \/ SentFrom(t, v)
BY DEF WaitsFor, HoldsWord, HoldsFree, HoldsMsg, SentFrom

LEMMA WaitsMeansNext ==
  \A t, v : WaitsFor(t, v)' <=>
              HoldsWord(v, t)' \/ HoldsFree(v, t)' \/ SentFrom(t, v)'
BY DEF WaitsFor, HoldsWord, HoldsFree, HoldsMsg, SentFrom

LEMMA WaitingSame ==
  ASSUME \A v, t \in Rank : WaitsFor(t, v)' <=> WaitsFor(t, v)
  PROVE  Waiting' = Waiting
BY PairsEqual, PairSets

LEMMA OwedSame ==
  ASSUME UNCHANGED contacted_victims
  PROVE  Owed' = Owed
BY DEF Owed

-----------------------------------------------------------------------------
(* Steps that map to none.                                                 *)

\* The tasks in hand of a place, and on their way, are open.
LEMMA StutterStep ==
  ASSUME UNCHANGED <<place, contacted_victims>>,
         \A t \in Task : Status(t)' = Status(t),
         Waiting' = Waiting, Left' = Left
  PROVE  [Stealing!Next]_Stealing!vars
<1>1. Tasks' = Tasks /\ Owed' = Owed
  BY OwedSame DEF Tasks
<1> QED
  BY <1>1 DEF Stealing!vars, Tasks, Waiting, Owed, Left

LEMMA StatusSame ==
  ASSUME UNCHANGED st
  PROVE  \A t \in Task : Status(t)' = Status(t)
BY DEF Status

\* What a step in DistWS_proofs' frame does to those who wait.
LEMMA WaitingFrame ==
  ASSUME NEW r \in Rank, WordFrame(r)
  PROVE  Waiting' = Waiting
<1>1. \A v, t \in Rank : /\ HoldsWord(v, t)' <=> HoldsWord(v, t)
                         /\ HoldsFree(v, t)' <=> HoldsFree(v, t)
  BY DEF WordFrame, HoldsWord, HoldsFree
<1>2. \A v, t \in Rank : SentFrom(t, v)' <=> SentFrom(t, v)
  BY DEF WordFrame, SentFrom, HoldsMsg
<1> QED
  BY <1>1, <1>2, WaitsMeans, WaitsMeansNext, WaitingSame

LEMMA LeftSame ==
  ASSUME TypeInv, NEW r \in Rank, CommStep(r), ~cbarrier_test(r)
  PROVE  Left' = Left
<1> DEFINE Stays == pc[r] # "left" /\ pc'[r] # "left" /\ \A q \in Rank \ {r} : pc'[q] = pc[q]
<1>0. pc \in [Rank -> Pc]
  BY DEF TypeInv, WordType
<1>1. SUFFICES Stays
  BY DEF Left
<1> USE <1>0 DEF Goto
<1>2. CASE EndLambda(r)
  BY <1>2 DEF EndLambda, Step
<1>3. CASE \E o \in Rank : ReportTo(r, o)
  BY <1>3 DEF ReportTo
<1>4. CASE Feed(r)
  BY <1>4 DEF Feed, Choose
<1>5. CASE Serve(r)
  BY <1>5 DEF Serve
<1>6. CASE \E t \in Task : StealTask(r, t)
  BY <1>6 DEF StealTask
<1>7. CASE EndSteal(r)
  BY <1>7 DEF EndSteal
<1>8. CASE ShipSync(r)
  BY <1>8 DEF ShipSync, Step
<1>9. CASE ShipLifeline(r)
  BY <1>9 DEF ShipLifeline, Step
<1>10. CASE Renew(r)
  BY <1>10 DEF Renew, Step
<1>11. CASE publish_local_load_info(r)
  BY <1>11 DEF publish_local_load_info
<1>12. CASE MarkIdle(r)
  BY <1>12 DEF MarkIdle, Choose, SearchPc
<1>13. CASE Invalidate(r)
  BY <1>13 DEF Invalidate, SearchPc
<1>14. CASE Release(r)
  BY <1>14 DEF Release, Step, SearchPc
<1>15. CASE Probe(r)
  BY <1>15 DEF Probe
<1>16. CASE EndProbe(r)
  BY <1>16 DEF EndProbe, Step
<1>17. CASE RequestSucceeds(r)
  BY <1>17 DEF RequestSucceeds, Step
<1>18. CASE RequestFails(r)
  BY <1>18 DEF RequestFails
<1>19. CASE EndWait(r)
  BY <1>19 DEF EndWait, Step
<1>20. CASE Attempt(r)
  BY <1>20 DEF Attempt
<1>21. CASE EndAck(r)
  BY <1>21 DEF EndAck, Step
<1>22. CASE EndAttempt(r)
  BY <1>22 DEF EndAttempt, Step
<1>23. CASE CheckPending(r)
  BY <1>23 DEF CheckPending, Step
<1>24. CASE ReadInFlight(r)
  BY <1>24 DEF ReadInFlight
<1>25. CASE cbarrier_inc(r)
  BY <1>25 DEF cbarrier_inc, Step
<1>26. CASE Detect(r)
  BY <1>26 DEF Detect, Step
<1>27. CASE cbarrier_dec(r)
  BY <1>27 DEF cbarrier_dec, Step
<1> QED
  BY <1>2, <1>3, <1>4, <1>5, <1>6, <1>7, <1>8, <1>9, <1>10, <1>11, <1>12, <1>13, <1>14, <1>15, <1>16, <1>17, <1>18, <1>19, <1>20, <1>21, <1>22, <1>23, <1>24, <1>25, <1>26, <1>27
     DEF CommStep

\* Tasks change their hands, not their status, on the way to a thief.
LEMMA ShipMaps ==
  ASSUME RInv, NEW r \in Rank, ShipSync(r) \/ ShipLifeline(r), ~failed'
  PROVE  \A t \in Task : Status(t)' = Status(t)
<1>1. \E k, d : Send(r, Msg(k, r, d, Stolen(r)))
  BY ShipEffect DEF RInv, IInv
<1> QED
  BY <1>1 DEF Send, Stolen, Status

\* The shipment takes the place of the word it answers.
LEMMA ShipSyncWaits ==
  ASSUME RInv, NEW r \in Rank, ShipSync(r)
  PROVE  Waiting' = Waiting
<1> DEFINE v == loc[r].victim  m == Msg("sync", r, v, Stolen(r))
<1> USE DEF RInv, IInv
<1>1. v \in Rank /\ HoldsWord(r, v) /\ VictimAt(r)
  BY RankType DEF ShipSync, Step, VictimAt, HoldsWord, WordInv, LocalInv, WordType
<1>2. /\ \A u, t \in Rank : HoldsWord(u, t)' <=> HoldsWord(u, t) /\ u # r
      /\ \A u, t \in Rank : HoldsFree(u, t)' <=> HoldsFree(u, t)
      /\ net' = net \cup {m} /\ \A t : HoldsMsg(m, t) <=> t = v
      /\ m.src = r
  BY <1>1, RankType DEF ShipSync, Step, Goto, Send, HoldsWord, HoldsFree, HoldsMsg,
     Msg, WordInv, WordType, word
<1> HIDE DEF m
<1>3. \A t, u \in Rank : SentFrom(t, u)' <=> SentFrom(t, u) \/ (t = v /\ u = r)
  BY <1>2 DEF SentFrom, HoldsMsg
<1>4. \A t \in Rank : HoldsWord(r, t) => t = v
  BY <1>1 DEF HoldsWord
<1>5. \A u, t \in Rank : WaitsFor(t, u)' <=> WaitsFor(t, u)
  BY <1>1, <1>2, <1>3, <1>4, WaitsMeans, WaitsMeansNext
<1> QED
  BY <1>5, WaitingSame

\* A place that closes its word has the thief in its hands.
LEMMA InvalidateWaits ==
  ASSUME RInv, NEW r \in Rank, Invalidate(r)
  PROVE  Waiting' = Waiting
<1> USE DEF RInv, IInv
<1>1. /\ \A u, t \in Rank : HoldsWord(u, t)' <=> HoldsWord(u, t) /\ u # r
      /\ \A u, t \in Rank : HoldsFree(u, t)' <=>
           HoldsFree(u, t) \/ (u = r /\ HoldsWord(r, t))
      /\ UNCHANGED net
  BY RankType DEF Invalidate, Goto, SearchPc, HoldsWord, HoldsFree, WordInv,
     WordType, Loc
<1>2. \A u, t \in Rank : SentFrom(t, u)' <=> SentFrom(t, u)
  BY <1>1 DEF SentFrom, HoldsMsg
<1>3. \A u, t \in Rank : WaitsFor(t, u)' <=> WaitsFor(t, u)
  BY <1>1, <1>2, WaitsMeans, WaitsMeansNext
<1> QED
  BY <1>3, WaitingSame

\* A request by word.
LEMMA RequestMaps ==
  ASSUME RInv, NEW r \in Rank, RequestSucceeds(r)
  PROVE  Stealing!Next
<1> DEFINE v == loc[r].victim
<1> USE DEF RInv, IInv
<1>1. v \in Rank \ {r} /\ pc[v] # "renew" /\ ~waitForTaskFromVictim[r]
  BY RankType DEF RequestSucceeds, Step, VictimAt, MarkAt, WordInv, LocalInv, WaitInv
<1>2. /\ \A u, t \in Rank : HoldsWord(u, t)' <=>
           HoldsWord(u, t) \/ (u = v /\ t = r)
      /\ \A u, t \in Rank : HoldsFree(u, t)' <=> HoldsFree(u, t)
      /\ UNCHANGED <<net, st, place, contacted_victims>>
  BY <1>1, RankType DEF RequestSucceeds, Step, Goto, HoldsWord, HoldsFree,
     WordInv, WordType, work, lifeline
<1>3. \A u, t \in Rank : SentFrom(t, u)' <=> SentFrom(t, u)
  BY <1>2 DEF SentFrom, HoldsMsg
<1>4. \A u, t \in Rank : WaitsFor(t, u)' <=> WaitsFor(t, u) \/ (t = r /\ u = v)
  BY <1>2, <1>3, WaitsMeans, WaitsMeansNext
<1>5. Waiting' = Waiting \cup {<<r, v>>}
  BY <1>1, <1>4, PairSets, PairAdded
<1>6. \A u \in Rank : ~WaitsFor(r, u)
  BY <1>1, WaitsMeans DEF SentFrom, WordInv, HolderInv
<1>7. \A u \in Rank : <<r, u>> \notin Waiting
  BY <1>6, PairSets
<1>8. Tasks' = Tasks /\ Owed' = Owed
  BY <1>2, StatusSame, OwedSame DEF Tasks
<1>9. pc[r] = "request" /\ ~cbarrier_test(r) /\ CommStep(r)
  BY DEF RequestSucceeds, Step, cbarrier_test, CommStep
<1>10. Left' = Left
  BY <1>9, LeftSame
<1> HIDE DEF v
<1>11. Stealing!Wait(r, v)
  BY <1>1, <1>2, <1>5, <1>7, <1>8, <1>10 DEF Stealing!Wait, Waiting, Tasks, Owed, Left
<1> QED
  BY <1>1, <1>11 DEF Stealing!Next

\* The thief is let go: nothing else named it.
LEMMA ReleaseMaps ==
  ASSUME RInv, NEW r \in Rank, Release(r)
  PROVE  Stealing!Next
<1> DEFINE v == loc[r].victim
<1> USE DEF RInv, IInv
<1>1. v \in Rank /\ HoldsFree(r, v)
  BY DEF Release, Step, VictimAt, HoldsFree, WordInv, LocalInv
<1>2. /\ \A u, t \in Rank : HoldsWord(u, t)' <=> HoldsWord(u, t)
      /\ \A u, t \in Rank : HoldsFree(u, t)' <=> HoldsFree(u, t) /\ u # r
      /\ UNCHANGED <<net, st, place, contacted_victims>>
  BY <1>1, RankType DEF Release, Step, Goto, SearchPc, HoldsWord, HoldsFree,
     WordInv, WordType, work, lifeline
<1>3. \A u, t \in Rank : SentFrom(t, u)' <=> SentFrom(t, u)
  BY <1>2 DEF SentFrom, HoldsMsg
<1>4. /\ \A t \in Rank : HoldsFree(r, t) => t = v
      /\ ~HoldsWord(r, v) /\ ~SentFrom(v, r)
  BY <1>1 DEF HoldsFree, SentFrom, WordInv, HolderInv
<1>5. \A t, u \in Rank : WaitsFor(t, u)' <=> WaitsFor(t, u) /\ ~(t = v /\ u = r)
  BY <1>1, <1>2, <1>3, <1>4, WaitsMeans, WaitsMeansNext
<1>6. Waiting' = Waiting \ {<<v, r>>}
  BY <1>1, <1>5, PairSets, PairRemoved
<1>7. <<v, r>> \in Waiting
  BY <1>1, WaitsMeans, PairSets
<1>8. Tasks' = Tasks /\ Owed' = Owed
  BY <1>2, StatusSame, OwedSame DEF Tasks
<1>9. pc[r] = "release" /\ ~cbarrier_test(r) /\ CommStep(r)
  BY DEF Release, Step, cbarrier_test, CommStep
<1>10. Left' = Left
  BY <1>9, LeftSame
<1> HIDE DEF v
<1>11. Stealing!Refuse(v, r)
  BY <1>2, <1>6, <1>7, <1>8, <1>10 DEF Stealing!Refuse, Waiting, Tasks, Owed, Left
<1>12. \E p \in Waiting : Stealing!Refuse(p[1], p[2])
  BY <1>7, <1>11
<1> QED
  BY <1>12 DEF Stealing!Next, Waiting

\* A lifeline is set, or the victim is passed over.
LEMMA AttemptMaps ==
  ASSUME RInv, NEW r \in Rank, Attempt(r)
  PROVE  [Stealing!Next]_Stealing!vars
<1> USE DEF RInv, IInv
<1>1. CommStep(r) /\ pc[r] = "attempt" /\ ~cbarrier_test(r) /\ ~RequestSucceeds(r)
      /\ ~ShipSync(r) /\ ~Invalidate(r) /\ ~Release(r) /\ UNCHANGED <<st, place>>
  BY DEF CommStep, Attempt, cbarrier_test, RequestSucceeds, ShipSync, Invalidate,
     Release, Step, work
<1>2. Waiting' = Waiting
  BY <1>1, FrameComm, WaitingFrame
<1>3. Left' = Left
  BY <1>1, LeftSame
<1>4. Tasks' = Tasks /\ \A t \in Task : Status(t)' = Status(t)
  BY <1>1, StatusSame DEF Tasks
<1>5. CASE UNCHANGED contacted_victims
  BY <1>1, <1>2, <1>3, <1>4, <1>5, StutterStep
<1>6. ASSUME NEW v \in Rank \ {r}, v \notin contacted_victims[r],
             contacted_victims' = [contacted_victims EXCEPT ![r] = @ \cup {v}]
      PROVE  [Stealing!Next]_Stealing!vars
  <2>1. \A t, u \in Rank : u \in contacted_victims'[t] <=>
          u \in contacted_victims[t] \/ (t = r /\ u = v)
    BY <1>6 DEF TypeInv, QueueType
  <2>2. Owed' = Owed \cup {<<r, v>>} /\ <<r, v>> \notin Owed
    BY <1>6, <2>1, PairSets, PairAdded
  <2>3. Stealing!Queue(r, v)
    BY <1>1, <1>2, <1>3, <1>4, <2>2 DEF Stealing!Queue, Waiting, Tasks, Owed, Left
  <2> QED
    BY <2>3 DEF Stealing!Next
<1> QED
  BY <1>5, <1>6, AttemptEffect

\* Whoever sees the barrier achieved leaves a scope in which nothing is left.
LEMMA LeaveMaps ==
  ASSUME RInv, RInv', NEW r \in Rank, cbarrier_test(r)
  PROVE  [Stealing!Next]_Stealing!vars
<1> USE DEF RInv, IInv
<1>1. /\ CommStep(r) /\ pc[r] \in {"inc_test", "cb_advance"} /\ ~RequestSucceeds(r)
      /\ ~ShipSync(r) /\ ~Invalidate(r) /\ ~Release(r)
      /\ UNCHANGED <<st, place, contacted_victims, waitForTaskFromVictim>>
  BY DEF CommStep, cbarrier_test, RequestSucceeds, ShipSync, Invalidate, Release, Step,
     work, word, lifeline
<1>2. Waiting' = Waiting
  BY <1>1, FrameComm, WaitingFrame
<1>3. pc' = [pc EXCEPT ![r] = IF cb_count = N THEN "left" ELSE "detect"]
  BY DEF cbarrier_test, Goto
<1>4. \A t \in Task : Status(t)' = Status(t)
  BY <1>1, StatusSame
<1>5. CASE cb_count # N
  <2>1. Left' = Left
    BY <1>1, <1>3, <1>5 DEF Left, TypeInv, WordType
  <2> QED
    BY <1>1, <1>2, <1>4, <2>1, StutterStep
<1>6. CASE cb_count = N
  <2>1. Left' = Left \cup {r} /\ pc'[r] = "left"
    BY <1>3, <1>6 DEF Left, TypeInv, WordType
  <2>2. TerminationSafe'
    <3>1. IInv'
      BY DEF RInv
    <3> QED
      BY <3>1, InvSafe, PTL
  <2>3. /\ \A t \in Task : st[t] \in {"new", "done"}
        /\ \A t \in Rank : ~waitForTaskFromVictim[t]
    BY <1>1, <2>1, <2>2 DEF TerminationSafe
  <2>4. \A t, v \in Rank : ~WaitsFor(t, v)
    BY <2>3, WaitsMeans DEF SentFrom, WordInv, HolderInv
  <2>5. Waiting = {}
    BY <2>4 DEF Waiting
  <2>6. \A t \in Task : Tasks[t] \in {"none", "closed"}
    BY <2>3 DEF Tasks, Status
  <2>7. Tasks' = Tasks /\ Owed' = Owed
    BY <1>1, <1>4, OwedSame DEF Tasks
  <2>8. Stealing!Leave(r)
    BY <1>1, <1>2, <2>1, <2>5, <2>6, <2>7 DEF Stealing!Leave, Waiting, Tasks, Owed, Left
  <2> QED
    BY <2>8 DEF Stealing!Next
<1> QED
  BY <1>5, <1>6

LEMMA CommMaps ==
  ASSUME RInv, RInv', NEW r \in Rank, CommStep(r)
  PROVE  [Stealing!Next]_Stealing!vars
<1> USE DEF RInv, IInv
<1>1. ~failed' /\ UNCHANGED place
  BY CommFrame DEF IInv
<1>2. CASE ShipSync(r) \/ ShipLifeline(r)
  <2>1. \A t \in Task : Status(t)' = Status(t)
    BY <1>1, <1>2, ShipMaps
  <2>2. ~cbarrier_test(r) /\ UNCHANGED contacted_victims
    BY <1>2 DEF ShipSync, ShipLifeline, cbarrier_test, Step, lifeline
  <2>3. Left' = Left
    BY <2>2, LeftSame
  <2>4. ShipLifeline(r) /\ ~ShipSync(r) => WordFrame(r)
    <3>1. ShipLifeline(r) => ~RequestSucceeds(r) /\ ~Invalidate(r) /\ ~Release(r)
      BY DEF ShipLifeline, RequestSucceeds, Invalidate, Release, Step
    <3> QED
      BY <3>1, FrameComm
  <2>5. Waiting' = Waiting
    BY <1>2, <2>4, ShipSyncWaits, WaitingFrame
  <2> QED
    BY <1>1, <2>1, <2>2, <2>3, <2>5, StutterStep
<1>3. CASE RequestSucceeds(r)
  BY <1>3, RequestMaps
<1>4. CASE Release(r)
  BY <1>4, ReleaseMaps
<1>5. CASE Attempt(r)
  BY <1>5, AttemptMaps
<1>6. CASE cbarrier_test(r)
  BY <1>6, LeaveMaps
<1>7. CASE ~(\/ ShipSync(r) \/ ShipLifeline(r) \/ RequestSucceeds(r) \/ Release(r)
             \/ Attempt(r) \/ cbarrier_test(r))
  <2>1. UNCHANGED contacted_victims
    BY <1>7, CommFrame
  <2>2. Left' = Left
    BY <1>7, LeftSame
  <2>3. Waiting' = Waiting
    BY <1>7, InvalidateWaits, FrameComm, WaitingFrame
  <2>4. \A t \in Task : Status(t)' = Status(t)
    <3>1. CASE UNCHANGED st
      BY <3>1, StatusSame
    <3>2. ASSUME NEW u \in Task, StealTask(r, u)
          PROVE  \A t \in Task : Status(t)' = Status(t)
      BY <3>2 DEF StealTask, AsyncAny, Status, TypeInv, TaskType
    <3> QED
      BY <1>7, <3>1, <3>2, CommFrame
  <2> QED
    BY <1>1, <2>1, <2>2, <2>3, <2>4, StutterStep
<1> QED
  BY <1>2, <1>3, <1>4, <1>5, <1>6, <1>7

-----------------------------------------------------------------------------
(* Arrivals.                                                               *)

\* A shipment gives its tasks to a thief that is owed them.
LEMMA GiveMaps ==
  ASSUME RInv, NEW m \in net, UNCHANGED pc, Unwrap(m), m.kind \in {"sync", "lifeline"},
         m.dst \in Rank, m.src \in Rank,
         \/ /\ <<m.dst, m.src>> \in Waiting
            /\ Waiting' = Waiting \ {<<m.dst, m.src>>} /\ Owed' = Owed
         \/ /\ <<m.dst, m.src>> \in Owed
            /\ Owed' = Owed \ {<<m.dst, m.src>>} /\ Waiting' = Waiting
  PROVE  Stealing!Next
<1> USE DEF RInv, IInv
<1>1. /\ m.tasks \in SUBSET Task /\ m.tasks # {}
      /\ \A u \in m.tasks : st[u] = "net" /\ place[u] = m.src
  BY DEF MsgInv, PlaceInv, TypeInv, WordType, Message
<1>2. \A u \in m.tasks : Tasks[u] = "open"
  BY <1>1 DEF Tasks, Status
<1>3. Tasks' = Tasks
  <2>1. \A u \in Task : Status(u)' = Status(u)
    BY <1>1 DEF Unwrap, Status
  <2> QED
    BY <2>1 DEF Tasks
<1>4. /\ place' = [u \in Task |-> IF u \in m.tasks THEN m.dst ELSE place[u]]
      /\ Left' = Left
  BY DEF Unwrap, Left
<1>5. Stealing!Give(m.dst, m.src, m.tasks)
  BY <1>1, <1>2, <1>3, <1>4 DEF Stealing!Give, Waiting, Tasks, Owed, Left
<1>6. <<m.dst, m.src>> \in Waiting \cup Owed
  OBVIOUS
<1>7. \E p \in Waiting \cup Owed, T \in SUBSET Task : Stealing!Give(p[1], p[2], T)
  BY <1>1, <1>5, <1>6
<1> QED
  BY <1>7 DEF Stealing!Next, Waiting, Owed

LEMMA ReceiveMaps ==
  ASSUME RInv, RInv', NEW m \in net, Receive(m)
  PROVE  [Stealing!Next]_Stealing!vars
<1> USE DEF RInv, IInv
<1>1. /\ m \in Message /\ m.dst \in Rank /\ m.src \in Rank
      /\ UNCHANGED <<pc, loc, req_thread>>
  BY DEF TypeInv, WordType, Message, Receive, ReceiveRequest, receipt_of_stealRequest,
     ReceiveLifeline, ReceiveSync, word
<1>2. /\ \A v, t \in Rank : /\ HoldsWord(v, t)' <=> HoldsWord(v, t)
                            /\ HoldsFree(v, t)' <=> HoldsFree(v, t)
      /\ Left' = Left
  BY <1>1 DEF HoldsWord, HoldsFree, Left
<1>3. CASE m.kind # "sync"
  <2>1. \A n : n.kind = "sync" => (n \in net' <=> n \in net)
    BY <1>3 DEF Receive, ReceiveRequest, receipt_of_stealRequest, ReceiveLifeline,
       ReceiveSync, Unwrap, Msg
  <2>2. \A v, t \in Rank : SentFrom(t, v)' <=> SentFrom(t, v)
    BY <2>1 DEF SentFrom, HoldsMsg
  <2>3. Waiting' = Waiting
    BY <1>2, <2>2, WaitsMeans, WaitsMeansNext, WaitingSame
  <2>4. CASE ReceiveLifeline(m)
    <3>1. /\ Unwrap(m) /\ m.kind = "lifeline" /\ m.src \in contacted_victims[m.dst]
          /\ contacted_victims' = [contacted_victims EXCEPT ![m.dst] = @ \ {m.src}]
      BY <2>4 DEF ReceiveLifeline, unmark_victimContacted
    <3>2. \A t, u \in Rank : u \in contacted_victims'[t] <=>
            u \in contacted_victims[t] /\ ~(t = m.dst /\ u = m.src)
      BY <1>1, <3>1 DEF TypeInv, QueueType
    <3>3. Owed' = Owed \ {<<m.dst, m.src>>} /\ <<m.dst, m.src>> \in Owed
      BY <1>1, <3>1, <3>2, PairSets, PairRemoved
    <3> QED
      BY <1>1, <2>3, <3>1, <3>3, GiveMaps
  <2>5. CASE ReceiveRequest(m) \/ receipt_of_stealRequest(m)
    <3>1. UNCHANGED <<st, place>>
      BY <2>5 DEF ReceiveRequest, receipt_of_stealRequest, work
    <3>2. UNCHANGED contacted_victims
      BY <2>5 DEF ReceiveRequest, receipt_of_stealRequest, queue_thief, TypeInv, QueueType
    <3> QED
      BY <1>2, <2>3, <3>1, <3>2, StatusSame, StutterStep
  <2> QED
    BY <1>3, <2>4, <2>5 DEF Receive, ReceiveSync
<1>4. CASE m.kind = "sync"
  <2>1. ReceiveSync(m) /\ Unwrap(m) /\ net' = net \ {m} /\ Owed' = Owed
    BY <1>4, OwedSame DEF Receive, ReceiveRequest, receipt_of_stealRequest,
       ReceiveLifeline, ReceiveSync, Unwrap, lifeline
  <2>2. HoldsMsg(m, m.dst) /\ \A t : HoldsMsg(m, t) => t = m.dst
    BY <1>4 DEF HoldsMsg
  <2>3. \A n \in net : HoldsMsg(n, m.dst) => n = m
    BY <1>1, <2>2 DEF WordInv, HolderInv
  <2>4. \A t, v \in Rank : SentFrom(t, v)' <=> SentFrom(t, v) /\ t # m.dst
    BY <2>1, <2>2, <2>3 DEF SentFrom, HoldsMsg
  <2>5. \A v \in Rank : ~HoldsWord(v, m.dst) /\ ~HoldsFree(v, m.dst)
    BY <1>1, <2>2 DEF WordInv, HolderInv
  <2>6. \A v \in Rank : SentFrom(m.dst, v) <=> v = m.src
    BY <2>2, <2>3 DEF SentFrom
  <2>7. \A t, v \in Rank : WaitsFor(t, v)' <=>
          WaitsFor(t, v) /\ ~(t = m.dst /\ v = m.src)
    BY <1>1, <1>2, <2>4, <2>5, <2>6, WaitsMeans, WaitsMeansNext
  <2>8. <<m.dst, m.src>> \in Waiting /\ Waiting' = Waiting \ {<<m.dst, m.src>>}
    BY <1>1, <2>6, <2>7, WaitsMeans, PairSets, PairRemoved
  <2> QED
    BY <1>1, <1>4, <2>1, <2>8, GiveMaps
<1> QED
  BY <1>3, <1>4

-----------------------------------------------------------------------------
(* The program, the computation workers and the barriers.                  *)

\* While a task can be created nobody has left.
LEMMA NobodyLeft ==
  ASSUME RInv, (\E r \in Rank : pc[r] = "lambda") \/ (\E t \in Task : st[t] = "run")
  PROVE  Left = {}
<1> SUFFICES ASSUME NEW q \in Rank, pc[q] = "left" PROVE FALSE
  BY DEF Left
<1>1. \A t \in Task : st[t] \in {"new", "done"}
  BY InvSafe DEF RInv, TerminationSafe
<1>2. \A r \in Rank : pc[r] \in BarPc \cup {"left"}
  BY BarrierSize DEF RInv, IInv, BarrierInv, InBarrier
<1> QED
  BY <1>1, <1>2 DEF BarPc

LEMMA SpawnMaps ==
  ASSUME RInv, NEW u \in Task, Spawn(u)
  PROVE  Stealing!Next
<1> USE DEF RInv, IInv
<1>0. Root \subseteq Rank
  BY ChoiceAssumption DEF Rank
<1>1. PICK r \in Rank : Create(u, r)
  BY <1>0 DEF Spawn, TypeInv, TaskType
<1>2. Left = {}
  BY <1>0, NobodyLeft DEF Spawn
<1>3. /\ st[u] = "new" /\ st' = [st EXCEPT ![u] = "any"]
      /\ place' = [place EXCEPT ![u] = r]
      /\ UNCHANGED <<pc, loc, net, req_thread, contacted_victims>>
  BY <1>1 DEF Create, word, lifeline
<1>4. /\ Tasks[u] = "none" /\ Tasks' = [Tasks EXCEPT ![u] = "open"]
      /\ Waiting' = Waiting /\ Owed' = Owed /\ Left' = Left
  BY <1>3 DEF Tasks, Status, TypeInv, TaskType, Waiting, WaitsFor, Owed, Left
<1>5. Stealing!Create(u, r)
  BY <1>2, <1>3, <1>4 DEF Stealing!Create, Waiting, Tasks, Owed, Left
<1> QED
  BY <1>5 DEF Stealing!Next

LEMMA OtherMaps ==
  ASSUME RInv, LocalStep \/ UNCHANGED vars
  PROVE  [Stealing!Next]_Stealing!vars
<1> USE DEF RInv, IInv
<1>1. /\ UNCHANGED <<loc, net, req_thread, contacted_victims, place>>
      /\ Owed' = Owed
  BY DEF LocalStep, BarrierStart, Restart, WorkerIdle, TaskStart, TaskEnd, vars, work,
     word, lifeline, Owed
<1>2. ASSUME UNCHANGED pc PROVE Waiting' = Waiting /\ Left' = Left
  BY <1>1, <1>2 DEF Waiting, WaitsFor, Left
<1>3. CASE UNCHANGED <<pc, st>>
  BY <1>1, <1>2, <1>3, StatusSame, StutterStep
<1>4. ASSUME NEW p \in {"start", "advance", "left", "lambda"},
             NEW q \in {"start", "advance", "left", "lambda"},
             pc = [r \in Rank |-> p], pc' = [r \in Rank |-> q]
      PROVE  Waiting' = Waiting
  <2>1. \A v, t \in Rank : WaitsFor(t, v)' <=> WaitsFor(t, v)
    BY <1>1, <1>4 DEF WaitsFor
  <2> QED
    BY <2>1, WaitingSame
<1>5. CASE BarrierStart
  <2>1. pc = [r \in Rank |-> "start"] /\ pc' = [r \in Rank |-> "advance"] /\ UNCHANGED st
    BY <1>5 DEF BarrierStart, TypeInv, WordType, work
  <2>2. Left' = Left
    BY <2>1 DEF Left
  <2> QED
    BY <1>1, <1>4, <2>1, <2>2, StatusSame, StutterStep
<1>6. CASE Restart
  <2>1. pc = [r \in Rank |-> "left"] /\ pc' = [r \in Rank |-> "lambda"] /\ UNCHANGED st
    BY <1>6 DEF Restart, TypeInv, WordType, work
  <2>2. Left = Rank /\ Left' = {}
    BY <2>1 DEF Left
  <2>3. Tasks' = Tasks /\ Waiting' = Waiting
    BY <1>4, <2>1, StatusSame DEF Tasks
  <2>4. Stealing!Reopen
    BY <1>1, <2>2, <2>3 DEF Stealing!Reopen, Waiting, Tasks, Owed, Left
  <2> QED
    BY <2>4 DEF Stealing!Next
<1>7. ASSUME NEW t \in Task, TaskStart(t) PROVE [Stealing!Next]_Stealing!vars
  <2>1. /\ st[t] \in {"any", "async"} /\ st' = [st EXCEPT ![t] = "run"] /\ UNCHANGED pc
    BY <1>7 DEF TaskStart
  <2>2. Tasks[t] = "open" /\ Tasks' = [Tasks EXCEPT ![t] = "running"]
    BY <2>1 DEF Tasks, Status, TypeInv, TaskType
  <2>3. Stealing!Start(t)
    BY <1>1, <1>2, <2>1, <2>2 DEF Stealing!Start, Waiting, Tasks, Owed, Left
  <2> QED
    BY <2>3 DEF Stealing!Next
<1>8. ASSUME NEW t \in Task, TaskEnd(t) PROVE [Stealing!Next]_Stealing!vars
  <2>1. st[t] = "run" /\ st' = [st EXCEPT ![t] = "done"] /\ UNCHANGED pc
    BY <1>8 DEF TaskEnd
  <2>2. Tasks[t] = "running" /\ Tasks' = [Tasks EXCEPT ![t] = "closed"]
    BY <2>1 DEF Tasks, Status, TypeInv, TaskType
  <2>3. Stealing!Finish(t)
    BY <1>1, <1>2, <2>1, <2>2 DEF Stealing!Finish, Waiting, Tasks, Owed, Left
  <2> QED
    BY <2>3 DEF Stealing!Next
<1>9. CASE \E r \in Rank : WorkerIdle(r)
  BY <1>3, <1>9 DEF WorkerIdle
<1>10. CASE UNCHANGED vars
  BY <1>3, <1>10 DEF vars, work
<1> QED
  BY <1>5, <1>6, <1>7, <1>8, <1>9, <1>10 DEF LocalStep

-----------------------------------------------------------------------------
LEMMA RefineInit == Init => Stealing!Init
<1> SUFFICES ASSUME Init PROVE Stealing!Init
  OBVIOUS
<1>1. Tasks = [t \in Task |-> "none"]
  BY DEF Init, Tasks, Status
<1>2. place \in [Task -> Rank]
  BY NAssumption DEF Init, Rank
<1>3. \A t, v \in Rank : ~WaitsFor(t, v)
  BY RankType DEF Init, WaitsFor
<1>4. Waiting = {} /\ Owed = {} /\ Left = {}
  BY <1>3 DEF Init, Waiting, Owed, Left
<1> QED
  BY <1>1, <1>2, <1>4 DEF Stealing!Init, Waiting, Tasks, Owed, Left

LEMMA RefineStep == RInv /\ RInv' /\ [Next]_vars => [Stealing!Next]_Stealing!vars
<1> SUFFICES ASSUME RInv, RInv', [Next]_vars PROVE [Stealing!Next]_Stealing!vars
  OBVIOUS
<1>1. ASSUME NEW r \in Rank, CommStep(r) PROVE [Stealing!Next]_Stealing!vars
  BY <1>1, CommMaps
<1>2. ASSUME NEW m \in net, Receive(m) PROVE [Stealing!Next]_Stealing!vars
  BY <1>2, ReceiveMaps
<1>3. ASSUME NEW u \in Task, Spawn(u) PROVE [Stealing!Next]_Stealing!vars
  BY <1>3, SpawnMaps
<1>4. ASSUME LocalStep \/ UNCHANGED vars PROVE [Stealing!Next]_Stealing!vars
  BY <1>4, OtherMaps
<1> QED
  BY <1>1, <1>2, <1>3, <1>4 DEF Next, Run, Stopped

\* The four stealing protocols, with their request words, thief queues,
\* shipments and barrier, implement the abstract stealing of tasks.
THEOREM StealingIsImplemented ==
  ASSUME Cancel = {FALSE}
  PROVE  Spec => ImplementsStealing
BY RefineInit, RefineStep, RefineInv, PTL
   DEF Spec, ImplementsStealing, Stealing!Spec
=============================================================================
