---------------------------- MODULE DistWS_proofs ----------------------------
(***************************************************************************)
(* The request word of the waiting protocols, for any number of ranks and  *)
(* tasks and whether or not cyclic steals are cancelled: a thief that      *)
(* waits is known to exactly one place or message that will let it go, and *)
(* a place that searches accepts no request.                               *)
(***************************************************************************)
EXTENDS DistWS, FiniteSetTheorems, TLAPS

SyncPc == {"invalidate", "release", "probe", "request", "wait_task", "renew"}
ClosedPc == {"release", "probe", "request", "wait_task", "attempt", "wait_ack"}

Loc == [i : Nat, victim : -2 .. N-1, found : BOOLEAN]

\* The types of what the request word goes through.
WordType ==
  /\ protocol \in {"baseline", "successonly", "successonly_glb", "glb"}
  /\ pc \in [Rank -> Pc]
  /\ loc \in [Rank -> Loc]
  /\ net \subseteq Message
  /\ req_thread \in [Rank -> Rank \cup {REQ_AVAILABLE, REQ_UNAVAILABLE}]
  /\ waitForTaskFromVictim \in [Rank -> BOOLEAN]
  /\ out_of_work \in [Rank -> BOOLEAN]

\* Without the waiting protocols no word is ever available.
NoWordAt(r) ==
  ~Sync => req_thread[r] = REQ_UNAVAILABLE /\ pc[r] \notin SyncPc

\* A place marked as out of work has no word available, but for a baseline
\* place that serves, and so unmarks itself next; a place that searches has
\* none either.
MarkAt(r) ==
  /\ Sync /\ out_of_work[r] =>
       \/ req_thread[r] = REQ_UNAVAILABLE \/ pc[r] = "invalidate"
       \/ pc[r] = "serve" /\ protocol = "baseline"
  /\ pc[r] \in ClosedPc => req_thread[r] = REQ_UNAVAILABLE

\* Whom a place is dealing with.
VictimAt(r) ==
  /\ loc[r].victim >= 0 =>
       pc[r] \in {"steal", "ship", "publish", "release", "request"}
  /\ pc[r] \in {"steal", "ship"} /\ loc[r].victim >= 0 =>
       req_thread[r] = loc[r].victim
  /\ pc[r] \in {"release", "request"} => loc[r].victim \in Rank
  /\ pc[r] = "request" => loc[r].victim # r
  /\ pc[r] = "renew" => req_thread[r] \in Rank

LocalInv == \A r \in Rank : NoWordAt(r) /\ MarkAt(r) /\ VictimAt(r)

HoldsWord(v, t) == req_thread[v] = t /\ pc[v] # "renew"
HoldsMsg(m, t) == m.kind = "sync" /\ m.dst = t
HoldsFree(v, t) == pc[v] = "release" /\ loc[v].victim = t

\* Whoever holds a thief holds one that waits, and alone.
HolderInv ==
  \A t \in Rank :
    /\ \A v \in Rank : HoldsWord(v, t) \/ HoldsFree(v, t) => waitForTaskFromVictim[t]
    /\ \A m \in net : HoldsMsg(m, t) => waitForTaskFromVictim[t]
    /\ \A v, w \in Rank : HoldsWord(v, t) /\ HoldsWord(w, t) => v = w
    /\ \A m, n \in net : HoldsMsg(m, t) /\ HoldsMsg(n, t) => m = n
    /\ \A v, w \in Rank : HoldsFree(v, t) /\ HoldsFree(w, t) => v = w
    /\ \A v, w \in Rank : ~(HoldsWord(v, t) /\ HoldsFree(w, t))
    /\ \A v \in Rank, m \in net : ~(HoldsWord(v, t) /\ HoldsMsg(m, t))
    /\ \A v \in Rank, m \in net : ~(HoldsFree(v, t) /\ HoldsMsg(m, t))

\* A thief that waits is held, and only in the waiting loop.
WaitInv ==
  \A t \in Rank : waitForTaskFromVictim[t] =>
    /\ pc[t] = "wait_task"
    /\ \/ \E v \in Rank : HoldsWord(v, t) \/ HoldsFree(v, t)
       \/ \E m \in net : HoldsMsg(m, t)

WordInv == WordType /\ LocalInv /\ HolderInv /\ WaitInv

-----------------------------------------------------------------------------
LEMMA RankType ==
  /\ \A r \in Rank : r \in Int /\ r >= 0 /\ r =< N-1
  /\ REQ_AVAILABLE = -1 /\ REQ_UNAVAILABLE = -2
  /\ REQ_AVAILABLE \notin Rank /\ REQ_UNAVAILABLE \notin Rank
BY NAssumption DEF Rank, REQ_AVAILABLE, REQ_UNAVAILABLE

LEMMA LocType == Zero \in Loc
BY NAssumption DEF Loc, Zero

LEMMA WordRange ==
  Rank \cup {REQ_AVAILABLE, REQ_UNAVAILABLE} \subseteq -2 .. N-1
BY NAssumption DEF Rank, REQ_AVAILABLE, REQ_UNAVAILABLE

LEMMA WordInit == Init => WordInv
<1> SUFFICES ASSUME Init PROVE WordInv
  OBVIOUS
<1>1. WordType
  BY NAssumption, ChoiceAssumption, RankType, LocType DEF Init, WordType, Pc
<1>2. LocalInv /\ WaitInv
  BY RankType DEF Init, LocalInv, NoWordAt, SyncPc, MarkAt, ClosedPc, VictimAt, Zero,
     WaitInv
<1>3. HolderInv
  BY RankType DEF Init, HolderInv, HoldsWord, HoldsMsg, HoldsFree
<1> QED
  BY <1>1, <1>2, <1>3 DEF WordInv

\* Every step of a communication worker keeps the types.
LEMMA WordTypeComm ==
  ASSUME WordInv, NEW r \in Rank, CommStep(r)
  PROVE  WordType'
<1> USE LocType, WordRange, RankType DEF WordInv, WordType, Loc, Goto, Pc, AdvancePc, BarPc, word, lifeline,
                        mine, env
<1>1. CASE EndLambda(r)
  BY <1>1 DEF EndLambda, Step
<1>2. CASE \E o \in Rank : ReportTo(r, o)
  BY <1>2 DEF ReportTo
<1>3. CASE Feed(r)
  <2>1. pc' \in [Rank -> Pc]
    BY <1>3 DEF Feed
  <2>2. req_thread' \in [Rank -> Rank \cup {REQ_AVAILABLE, REQ_UNAVAILABLE}]
    <3>1. \/ UNCHANGED req_thread
          \/ req_thread' = [req_thread EXCEPT ![r] = REQ_AVAILABLE]
      BY <1>3 DEF Feed, renewed_as_victim
    <3> QED
      BY <3>1
  <2>3. out_of_work' \in [Rank -> BOOLEAN]
    <3>1. \/ UNCHANGED out_of_work
          \/ out_of_work' = [out_of_work EXCEPT ![r] = FALSE]
      BY <1>3 DEF Feed
    <3> QED
      BY <3>1
  <2> QED
    BY <1>3, <2>1, <2>2, <2>3 DEF Feed
<1>4. CASE Serve(r)
  <2>1. pc' \in [Rank -> Pc] /\ out_of_work' \in [Rank -> BOOLEAN]
    BY <1>4 DEF Serve
  <2>2. loc' \in [Rank -> Loc]
    <3>1. CASE UNCHANGED loc
      BY <3>1
    <3>2. CASE loc' = [loc EXCEPT ![r].victim = req_thread[r]]
      BY <3>2
    <3> QED
      BY <1>4, <3>1, <3>2 DEF Serve
  <2> QED
    BY <1>4, <2>1, <2>2 DEF Serve
<1>5. CASE \E t \in Task : StealTask(r, t)
  BY <1>5 DEF StealTask
<1>6. CASE EndSteal(r)
  BY <1>6 DEF EndSteal
<1>7. CASE ShipSync(r)
  <2>1. loc[r].victim \in Rank
    BY <1>7 DEF ShipSync, LocalInv, VictimAt, Step
  <2>2. pc' \in [Rank -> Pc] /\ loc' \in [Rank -> Loc]
    BY <1>7 DEF ShipSync, Step, Send
  <2>3. net' \subseteq Message
    BY <1>7, <2>1 DEF ShipSync, Send, Msg, Message, Stolen
  <2> QED
    BY <1>7, <2>2, <2>3 DEF ShipSync
<1>8. CASE ShipLifeline(r)
  <2>1. pc' \in [Rank -> Pc] /\ loc' \in [Rank -> Loc]
    <3>1. pc' \in [Rank -> Pc]
      BY <1>8 DEF ShipLifeline, Step
    <3>2. loc' = [loc EXCEPT ![r] = Zero] \/ UNCHANGED loc
      BY <1>8 DEF ShipLifeline, Send
    <3>3. loc' \in [Rank -> Loc]
      <4>1. loc \in [Rank -> Loc] /\ Zero \in Loc
        BY LocType
      <4> HIDE DEF Loc
      <4> QED
        BY <3>2, <4>1
    <3> QED
      BY <3>1, <3>3
  <2>2. net' \subseteq Message
    <3>1. \/ UNCHANGED net
          \/ \E d \in Rank : net' = net \cup {Msg("lifeline", r, d, Stolen(r))}
      BY <1>8 DEF ShipLifeline, Send
    <3> QED
      BY <3>1 DEF Msg, Message, Stolen
  <2> QED
    BY <1>8, <2>1, <2>2 DEF ShipLifeline
<1>9. CASE Renew(r)
  BY <1>9 DEF Renew, Step
<1>10. CASE publish_local_load_info(r)
  BY <1>10 DEF publish_local_load_info
<1>11. CASE MarkIdle(r)
  <2>1. pc' \in [Rank -> Pc]
    BY <1>11 DEF MarkIdle, SearchPc
  <2>2. out_of_work' \in [Rank -> BOOLEAN]
    <3>1. \/ UNCHANGED out_of_work
          \/ out_of_work' = [out_of_work EXCEPT ![r] = TRUE]
      BY <1>11 DEF MarkIdle
    <3> QED
      BY <3>1
  <2> QED
    BY <1>11, <2>1, <2>2 DEF MarkIdle
<1>12. CASE Invalidate(r)
  BY <1>12 DEF Invalidate, SearchPc
<1>13. CASE Release(r)
  BY <1>13 DEF Release, Step, SearchPc
<1>14. CASE Probe(r)
  <2>1. PICK v \in Rank \ {r} :
          \/ /\ loc' = [loc EXCEPT ![r].victim = v]
             /\ pc' = [pc EXCEPT ![r] = "request"]
          \/ loc' = [loc EXCEPT ![r].i = @ + 1] /\ UNCHANGED pc
    BY <1>14 DEF Probe
  <2>2. pc' \in [Rank -> Pc]
    BY <2>1
  <2>3. loc' \in [Rank -> Loc]
    BY <2>1
  <2> QED
    BY <1>14, <2>2, <2>3 DEF Probe
<1>15. CASE EndProbe(r)
  BY <1>15 DEF EndProbe, Step
<1>16. CASE RequestSucceeds(r)
  BY <1>16 DEF RequestSucceeds, Step
<1>17. CASE RequestFails(r)
  BY <1>17 DEF RequestFails
<1>18. CASE EndWait(r)
  BY <1>18 DEF EndWait, Step
<1>19. CASE Attempt(r)
  <2>1. PICK v \in Victims(r, loc[r].i) :
          \/ loc' = [loc EXCEPT ![r].i = @ + 1] /\ UNCHANGED <<pc, net>>
          \/ /\ loc' = [loc EXCEPT ![r].found = TRUE]
             /\ net' = net \cup {Msg("steal", r, v, {})}
             /\ pc' = [pc EXCEPT ![r] = "wait_ack"]
    BY <1>19 DEF Attempt
  <2>2. v \in Rank
    BY NAssumption, <2>1 DEF Victims, Rank
  <2>3. pc' \in [Rank -> Pc]
    BY <2>1
  <2>4. loc' \in [Rank -> Loc]
    <3>1. \/ loc' = [loc EXCEPT ![r].i = @ + 1]
          \/ loc' = [loc EXCEPT ![r].found = TRUE]
      BY <2>1
    <3>2. CASE loc' = [loc EXCEPT ![r].i = @ + 1]
      BY <3>2
    <3>3. CASE loc' = [loc EXCEPT ![r].found = TRUE]
      BY <3>3
    <3> QED
      BY <3>1, <3>2, <3>3
  <2>5. net' \subseteq Message
    BY <2>1, <2>2 DEF Msg, Message
  <2> QED
    BY <1>19, <2>3, <2>4, <2>5 DEF Attempt
<1>20. CASE EndAck(r)
  BY <1>20 DEF EndAck, Step
<1>21. CASE EndAttempt(r)
  BY <1>21 DEF EndAttempt, Step
<1>22. CASE CheckPending(r)
  BY <1>22 DEF CheckPending, Step
<1>23. CASE ReadInFlight(r)
  <2>1. pc' \in [Rank -> Pc]
    BY <1>23 DEF ReadInFlight
  <2>2. loc' \in [Rank -> Loc]
    BY <1>23 DEF ReadInFlight
  <2> QED
    BY <1>23, <2>1, <2>2 DEF ReadInFlight
<1>24. CASE cbarrier_inc(r)
  BY <1>24 DEF cbarrier_inc, Step
<1>25. CASE cbarrier_test(r)
  BY <1>25 DEF cbarrier_test
<1>26. CASE Detect(r)
  BY <1>26 DEF Detect, Step
<1>27. CASE cbarrier_dec(r)
  BY <1>27 DEF cbarrier_dec, Step
<1> QED
  BY <1>1, <1>2, <1>3, <1>4, <1>5, <1>6, <1>7, <1>8, <1>9, <1>10, <1>11, <1>12, <1>13, <1>14, <1>15, <1>16, <1>17, <1>18, <1>19, <1>20, <1>21, <1>22, <1>23, <1>24, <1>25, <1>26, <1>27 DEF CommStep

\* ... and what a place knows of its own word.
LEMMA LocalComm ==
  ASSUME WordInv, NEW r \in Rank, CommStep(r), NEW q \in Rank
  PROVE  (NoWordAt(q) /\ MarkAt(q) /\ VictimAt(q))'
<1>0. NoWordAt(q) /\ MarkAt(q) /\ VictimAt(q) /\ NoWordAt(r) /\ MarkAt(r) /\ VictimAt(r)
  BY DEF WordInv, LocalInv
<1> USE <1>0, RankType DEF WordInv, WordType, NoWordAt, MarkAt, VictimAt, 
                        SyncPc, ClosedPc, Goto, Sync, Zero, 
                        word, lifeline, mine, env
<1>1. CASE EndLambda(r)
  BY <1>1 DEF EndLambda, Step
<1>2. CASE \E o \in Rank : ReportTo(r, o)
  BY <1>2 DEF ReportTo
<1>3. CASE Feed(r)
  BY <1>3 DEF Feed, Choose, renewed_as_victim
<1>4. CASE Serve(r)
  <2>1. CASE q # r
    BY <1>4, <2>1 DEF Serve
  <2>2. CASE q = r /\ Requested(r)
    BY <1>4, <2>2 DEF Serve, Requested, Loc
  <2>3. CASE q = r /\ ~Requested(r)
    <3>1. UNCHANGED <<loc, req_thread>> /\ loc[r].victim < 0
      BY <1>4, <2>3 DEF Serve, Loc
    <3>2. pc'[r] \in {"steal", "publish"}
      BY <1>4 DEF Serve
    <3>3. out_of_work'[r] => out_of_work[r] /\ protocol # "baseline"
      BY <1>4, <2>3 DEF Serve
    <3>4. UNCHANGED protocol /\ pc[r] \in {"serve", "ship_advance"}
      BY <1>4 DEF Serve
    <3> QED
      BY <2>3, <3>1, <3>2, <3>3, <3>4
  <2> QED
    BY <2>1, <2>2, <2>3
<1>5. CASE \E t \in Task : StealTask(r, t)
  BY <1>5 DEF StealTask
<1>6. CASE EndSteal(r)
  BY <1>6 DEF EndSteal
<1>7. CASE ShipSync(r)
  BY <1>7 DEF ShipSync, Step, Send, Msg, Message, Stolen
<1>8. CASE ShipLifeline(r)
  BY <1>8 DEF ShipLifeline, Step, Send, Msg, Message, Stolen
<1>9. CASE Renew(r)
  BY <1>9 DEF Renew, Step
<1>10. CASE publish_local_load_info(r)
  BY <1>10 DEF publish_local_load_info
<1>11. CASE MarkIdle(r)
  BY <1>11 DEF MarkIdle, Choose, SearchPc
<1>12. CASE Invalidate(r)
  BY <1>12 DEF Invalidate, SearchPc
<1>13. CASE Release(r)
  BY <1>13 DEF Release, Step, SearchPc
<1>14. CASE Probe(r)
  <2>1. PICK v \in Rank \ {r} :
          \/ /\ loc' = [loc EXCEPT ![r].victim = v]
             /\ pc' = [pc EXCEPT ![r] = "request"]
          \/ loc' = [loc EXCEPT ![r].i = @ + 1] /\ UNCHANGED pc
    BY <1>14 DEF Probe
  <2> QED
    BY <1>14, <2>1 DEF Probe, Loc
<1>15. CASE EndProbe(r)
  BY <1>15 DEF EndProbe, Step
<1>16. CASE RequestSucceeds(r)
  BY <1>16 DEF RequestSucceeds, Step
<1>17. CASE RequestFails(r)
  BY <1>17 DEF RequestFails
<1>18. CASE EndWait(r)
  BY <1>18 DEF EndWait, Step
<1>19. CASE Attempt(r)
  <2>1. \/ loc' = [loc EXCEPT ![r].i = @ + 1] /\ UNCHANGED pc
        \/ /\ loc' = [loc EXCEPT ![r].found = TRUE]
           /\ pc' = [pc EXCEPT ![r] = "wait_ack"]
    BY <1>19 DEF Attempt
  <2> QED
    BY <1>19, <2>1 DEF Attempt, Loc
<1>20. CASE EndAck(r)
  BY <1>20 DEF EndAck, Step
<1>21. CASE EndAttempt(r)
  BY <1>21 DEF EndAttempt, Step
<1>22. CASE CheckPending(r)
  BY <1>22 DEF CheckPending, Step
<1>23. CASE ReadInFlight(r)
  <2>1. /\ loc' = [loc EXCEPT ![r].i = @ + 1] \/ loc' = [loc EXCEPT ![r] = Zero]
        /\ UNCHANGED pc \/ pc' = [pc EXCEPT ![r] = "inc"]
                        \/ pc' = [pc EXCEPT ![r] = "advance"]
    BY <1>23 DEF ReadInFlight
  <2> QED
    BY <1>23, <2>1 DEF ReadInFlight, Loc
<1>24. CASE cbarrier_inc(r)
  BY <1>24 DEF cbarrier_inc, Step
<1>25. CASE cbarrier_test(r)
  BY <1>25 DEF cbarrier_test
<1>26. CASE Detect(r)
  BY <1>26 DEF Detect, Step
<1>27. CASE cbarrier_dec(r)
  BY <1>27 DEF cbarrier_dec, Step
<1> QED
  BY <1>1, <1>2, <1>3, <1>4, <1>5, <1>6, <1>7, <1>8, <1>9, <1>10, <1>11, <1>12, <1>13, <1>14, <1>15, <1>16, <1>17, <1>18, <1>19, <1>20, <1>21, <1>22, <1>23, <1>24, <1>25, <1>26, <1>27 DEF CommStep

\* Steps that leave the holders and the wait flag as they are.
LEMMA HolderFrame ==
  ASSUME HolderInv, WaitInv, UNCHANGED waitForTaskFromVictim,
         \A v, t \in Rank : /\ HoldsWord(v, t)' <=> HoldsWord(v, t)
                            /\ HoldsFree(v, t)' <=> HoldsFree(v, t),
         \A m : m.kind = "sync" => (m \in net' <=> m \in net),
         \A t \in Rank : pc[t] = "wait_task" /\ waitForTaskFromVictim[t] =>
                           pc'[t] = "wait_task"
  PROVE  HolderInv' /\ WaitInv'
<1>1. \A m, t : HoldsMsg(m, t)' <=> HoldsMsg(m, t)
  BY DEF HoldsMsg
<1>2. \A t \in Rank, m \in net' : HoldsMsg(m, t) => m \in net
  BY DEF HoldsMsg
<1>3. \A t \in Rank, m \in net : HoldsMsg(m, t) => m \in net'
  BY DEF HoldsMsg
<1>4. HolderInv'
  BY <1>1, <1>2 DEF HolderInv
<1>5. WaitInv'
  BY <1>1, <1>3 DEF WaitInv
<1> QED
  BY <1>4, <1>5

\* ... as most steps of a communication worker do.
WordFrame(r) ==
  /\ UNCHANGED waitForTaskFromVictim
  /\ \A v \in Rank \ {r} : /\ req_thread'[v] = req_thread[v]
                           /\ pc'[v] = pc[v] /\ loc'[v] = loc[v]
  /\ pc[r] # "release" /\ pc'[r] \notin {"release", "renew"}
  /\ \/ req_thread'[r] = req_thread[r] /\ pc[r] # "renew"
     \/ /\ req_thread'[r] \notin Rank
        /\ req_thread[r] \notin Rank \/ pc[r] = "renew"
  /\ \A m : m.kind = "sync" => (m \in net' <=> m \in net)
  /\ pc[r] = "wait_task" => ~waitForTaskFromVictim[r]

LEMMA FrameComm ==
  ASSUME WordInv, NEW r \in Rank, CommStep(r),
         ~RequestSucceeds(r), ~ShipSync(r), ~Invalidate(r), ~Release(r)
  PROVE  WordFrame(r)
<1>0. MarkAt(r)
  BY DEF WordInv, LocalInv
<1> USE <1>0, RankType DEF WordInv, WordType, MarkAt, ClosedPc, WordFrame, Goto,
                           Loc, word, lifeline, mine, env
<1>1. CASE EndLambda(r)
  BY <1>1 DEF EndLambda, Step
<1>2. CASE \E o \in Rank : ReportTo(r, o)
  BY <1>2 DEF ReportTo
<1>3. CASE Feed(r)
  BY <1>3 DEF Feed, Choose, renewed_as_victim
<1>4. CASE Serve(r)
  BY <1>4 DEF Serve, Requested
<1>5. CASE \E t \in Task : StealTask(r, t)
  BY <1>5 DEF StealTask
<1>6. CASE EndSteal(r)
  BY <1>6 DEF EndSteal
<1>7. CASE ShipLifeline(r)
  BY <1>7 DEF ShipLifeline, Step, Send, Msg, Message, Stolen
<1>8. CASE Renew(r)
  BY <1>8 DEF Renew, Step
<1>9. CASE publish_local_load_info(r)
  BY <1>9 DEF publish_local_load_info
<1>10. CASE MarkIdle(r)
  BY <1>10 DEF MarkIdle, Choose, SearchPc
<1>11. CASE Probe(r)
  BY <1>11 DEF Probe
<1>12. CASE EndProbe(r)
  BY <1>12 DEF EndProbe, Step
<1>13. CASE RequestFails(r)
  BY <1>13 DEF RequestFails
<1>14. CASE EndWait(r)
  BY <1>14 DEF EndWait, Step
<1>15. CASE Attempt(r)
  BY <1>15 DEF Attempt, Victims, Msg, Message
<1>16. CASE EndAck(r)
  BY <1>16 DEF EndAck, Step
<1>17. CASE EndAttempt(r)
  BY <1>17 DEF EndAttempt, Step
<1>18. CASE CheckPending(r)
  BY <1>18 DEF CheckPending, Step
<1>19. CASE ReadInFlight(r)
  BY <1>19 DEF ReadInFlight
<1>20. CASE cbarrier_inc(r)
  BY <1>20 DEF cbarrier_inc, Step
<1>21. CASE cbarrier_test(r)
  BY <1>21 DEF cbarrier_test
<1>22. CASE Detect(r)
  BY <1>22 DEF Detect, Step
<1>23. CASE cbarrier_dec(r)
  BY <1>23 DEF cbarrier_dec, Step
<1> QED
  BY <1>1, <1>2, <1>3, <1>4, <1>5, <1>6, <1>7, <1>8, <1>9, <1>10, <1>11, <1>12, <1>13, <1>14, <1>15, <1>16, <1>17, <1>18, <1>19, <1>20, <1>21, <1>22, <1>23 DEF CommStep
LEMMA HolderComm ==
  ASSUME WordInv, NEW r \in Rank, CommStep(r)
  PROVE  HolderInv' /\ WaitInv'
<1>0. /\ HolderInv /\ WaitInv /\ MarkAt(r) /\ VictimAt(r)
  BY DEF WordInv, LocalInv
<1>1. CASE RequestSucceeds(r)
  <2> DEFINE v == loc[r].victim
  <2>1. v \in Rank \ {r} /\ pc[v] # "renew" /\ ~waitForTaskFromVictim[r]
    BY <1>0, <1>1, RankType DEF RequestSucceeds, Step, VictimAt, WordInv, LocalInv, WaitInv
  <2>2. /\ \A u, t \in Rank : HoldsWord(u, t)' <=>
             HoldsWord(u, t) \/ (u = v /\ t = r)
        /\ \A u, t \in Rank : HoldsFree(u, t)' <=> HoldsFree(u, t)
        /\ UNCHANGED net
        /\ \A t \in Rank : waitForTaskFromVictim'[t] <=> waitForTaskFromVictim[t] \/ t = r
        /\ \A t \in Rank \ {r} : pc'[t] = pc[t]
        /\ pc'[r] = "wait_task"
    BY <1>1, <2>1, RankType DEF RequestSucceeds, Step, Goto, HoldsWord, HoldsFree,
       WordInv, WordType
  <2>3. HolderInv'
    BY <1>0, <2>1, <2>2 DEF HolderInv, HoldsMsg
  <2>4. WaitInv'
    BY <1>0, <2>1, <2>2 DEF WaitInv, HoldsMsg
  <2> QED
    BY <2>3, <2>4
<1>2. CASE ShipSync(r)
  <2> DEFINE v == loc[r].victim  m == Msg("sync", r, v, Stolen(r))
  <2>1. v \in Rank /\ HoldsWord(r, v)
    BY <1>0, <1>2, RankType DEF ShipSync, Step, VictimAt, HoldsWord, WordInv, WordType
  <2>2. /\ \A u, t \in Rank : HoldsWord(u, t)' <=> HoldsWord(u, t) /\ u # r
        /\ \A u, t \in Rank : HoldsFree(u, t)' <=> HoldsFree(u, t)
        /\ net' = net \cup {m} /\ \A t : HoldsMsg(m, t) <=> t = v
        /\ UNCHANGED waitForTaskFromVictim
        /\ \A t \in Rank : pc[t] = "wait_task" => pc'[t] = "wait_task"
    BY <1>2, <2>1, RankType DEF ShipSync, Step, Goto, Send, HoldsWord, HoldsFree, HoldsMsg,
       Msg, WordInv, WordType, word, lifeline
  <2> HIDE DEF m
  <2>3. \A x, t : HoldsMsg(x, t)' <=> HoldsMsg(x, t)
    BY DEF HoldsMsg
  <2>4. HolderInv'
    BY <1>0, <2>1, <2>2, <2>3 DEF HolderInv
  <2>5. \A t \in Rank : HoldsWord(r, t) => t = v
    BY <2>1 DEF HoldsWord
  <2>6. WaitInv'
    BY <1>0, <2>1, <2>2, <2>3, <2>5 DEF WaitInv
  <2> QED
    BY <2>4, <2>6
<1>3. CASE Invalidate(r)
  <2> DEFINE v == req_thread[r]
  <2>1. /\ \A u, t \in Rank : HoldsWord(u, t)' <=> HoldsWord(u, t) /\ u # r
        /\ \A u, t \in Rank : HoldsFree(u, t)' <=>
             HoldsFree(u, t) \/ (u = r /\ HoldsWord(r, t))
        /\ UNCHANGED <<net, waitForTaskFromVictim>>
        /\ \A t \in Rank : pc[t] = "wait_task" => pc'[t] = "wait_task"
    BY <1>3, RankType DEF Invalidate, Goto, SearchPc, HoldsWord, HoldsFree, WordInv,
       WordType, Loc
  <2>2. HolderInv'
    BY <1>0, <2>1 DEF HolderInv, HoldsMsg
  <2>3. WaitInv'
    BY <1>0, <2>1 DEF WaitInv, HoldsMsg
  <2> QED
    BY <2>2, <2>3
<1>4. CASE Release(r)
  <2> DEFINE v == loc[r].victim
  <2>1. v \in Rank /\ HoldsFree(r, v) /\ v # r
    BY <1>0, <1>4 DEF Release, Step, VictimAt, HoldsFree, HolderInv, WaitInv
  <2>2. /\ \A u, t \in Rank : HoldsWord(u, t)' <=> HoldsWord(u, t)
        /\ \A u, t \in Rank : HoldsFree(u, t)' <=> HoldsFree(u, t) /\ u # r
        /\ UNCHANGED net
        /\ \A t \in Rank : waitForTaskFromVictim'[t] <=>
             waitForTaskFromVictim[t] /\ t # v
        /\ \A t \in Rank : pc[t] = "wait_task" => pc'[t] = "wait_task"
    BY <1>4, <2>1, RankType DEF Release, Step, Goto, SearchPc, HoldsWord, HoldsFree,
       WordInv, WordType
  <2>3. HolderInv'
    BY <1>0, <2>1, <2>2 DEF HolderInv, HoldsMsg
  <2>4. \A t \in Rank : HoldsFree(r, t) => t = v
    BY DEF HoldsFree
  <2>5. WaitInv'
    BY <1>0, <2>1, <2>2, <2>4 DEF WaitInv, HoldsMsg
  <2> QED
    BY <2>3, <2>5
<1>5. CASE ~RequestSucceeds(r) /\ ~ShipSync(r) /\ ~Invalidate(r) /\ ~Release(r)
  <2>1. WordFrame(r)
    BY <1>5, FrameComm
  <2>2. \A v, t \in Rank : /\ HoldsWord(v, t)' <=> HoldsWord(v, t)
                           /\ HoldsFree(v, t)' <=> HoldsFree(v, t)
    BY <2>1 DEF WordFrame, HoldsWord, HoldsFree
  <2>3. \A t \in Rank : pc[t] = "wait_task" /\ waitForTaskFromVictim[t] =>
                          pc'[t] = "wait_task"
    BY <2>1 DEF WordFrame
  <2> QED
    BY <1>0, <2>1, <2>2, <2>3, HolderFrame DEF WordFrame
<1> QED
  BY <1>1, <1>2, <1>3, <1>4, <1>5
\* A message that arrives changes the word of nobody; the tasks of a thief that
\* waits let it go.
LEMMA WordReceive ==
  ASSUME WordInv, NEW m \in net, Receive(m)
  PROVE  WordInv'
<1> USE RankType
<1>1. /\ m \in Message /\ m.dst \in Rank
      /\ UNCHANGED <<protocol, pc, loc, req_thread>>
  BY DEF WordInv, WordType, Message, Receive, ReceiveRequest, receipt_of_stealRequest,
     ReceiveLifeline, ReceiveSync, env, word
<1>2. WordType'
  <2>1. net' \subseteq Message
    <3>1. \/ net' = net \ {m}
          \/ net' = (net \ {m}) \cup {Msg("ack", m.dst, m.src, {})}
      BY DEF Receive, ReceiveRequest, receipt_of_stealRequest, ReceiveLifeline,
         ReceiveSync, Unwrap
    <3> QED
      BY <1>1, <3>1 DEF WordInv, WordType, Msg, Message
  <2>2. waitForTaskFromVictim' \in [Rank -> BOOLEAN]
    BY <1>1 DEF WordInv, WordType, Receive, ReceiveRequest, receipt_of_stealRequest,
       ReceiveLifeline, ReceiveSync, word
  <2>3. out_of_work' \in [Rank -> BOOLEAN]
    BY <1>1 DEF WordInv, WordType, Receive, ReceiveRequest, receipt_of_stealRequest,
       ReceiveLifeline, ReceiveSync, queue_source_place_of_remoteTask, mine
  <2> QED
    BY <1>1, <2>1, <2>2, <2>3 DEF WordInv, WordType
<1>3. LocalInv'
  <2>1. \A q \in Rank : out_of_work'[q] => out_of_work[q]
    BY <1>1 DEF WordInv, WordType, Receive, ReceiveRequest, receipt_of_stealRequest,
       ReceiveLifeline, ReceiveSync, queue_source_place_of_remoteTask, mine
  <2> QED
    BY <1>1, <2>1 DEF WordInv, LocalInv, NoWordAt, MarkAt, VictimAt, Sync
<1>4. /\ \A v, t \in Rank : /\ HoldsWord(v, t)' <=> HoldsWord(v, t)
                            /\ HoldsFree(v, t)' <=> HoldsFree(v, t)
      /\ \A n, t : HoldsMsg(n, t)' <=> HoldsMsg(n, t)
  BY <1>1 DEF HoldsWord, HoldsFree, HoldsMsg
<1>5. CASE m.kind # "sync"
  <2>1. UNCHANGED waitForTaskFromVictim
    BY <1>5 DEF Receive, ReceiveRequest, receipt_of_stealRequest, ReceiveLifeline,
       ReceiveSync, word
  <2>2. \A n : n.kind = "sync" => (n \in net' <=> n \in net)
    BY <1>5 DEF Receive, ReceiveRequest, receipt_of_stealRequest, ReceiveLifeline,
       ReceiveSync, Unwrap, Msg
  <2>3. HolderInv' /\ WaitInv'
    BY <1>1, <1>4, <2>1, <2>2, HolderFrame DEF WordInv
  <2> QED
    BY <1>2, <1>3, <2>3 DEF WordInv
<1>6. CASE m.kind = "sync"
  <2>1. /\ net' = net \ {m}
        /\ waitForTaskFromVictim' = [waitForTaskFromVictim EXCEPT ![m.dst] = FALSE]
    BY <1>6 DEF Receive, ReceiveRequest, receipt_of_stealRequest, ReceiveLifeline,
       ReceiveSync, Unwrap
  <2>2. HoldsMsg(m, m.dst) /\ \A t : HoldsMsg(m, t) => t = m.dst
    BY <1>6 DEF HoldsMsg
  <2>3. \A t \in Rank : waitForTaskFromVictim'[t] <=>
          waitForTaskFromVictim[t] /\ t # m.dst
    BY <1>1, <2>1 DEF WordInv, WordType
  <2>4. HolderInv'
    BY <1>1, <1>4, <2>1, <2>2, <2>3 DEF WordInv, HolderInv
  <2>5. WaitInv'
    BY <1>1, <1>4, <2>1, <2>2, <2>3 DEF WordInv, WaitInv
  <2> QED
    BY <1>2, <1>3, <2>4, <2>5 DEF WordInv
<1> QED
  BY <1>5, <1>6

\* The program, the computation workers and the barriers leave it all alone.
LEMMA WordOther ==
  ASSUME WordInv, LocalStep \/ (\E t \in Task : Spawn(t)) \/ UNCHANGED vars
  PROVE  WordInv'
<1>1. /\ UNCHANGED <<protocol, loc, net, req_thread, waitForTaskFromVictim, out_of_work>>
      /\ \/ UNCHANGED pc
         \/ \E p, q \in {"start", "advance", "left", "lambda"} :
              pc = [r \in Rank |-> p] /\ pc' = [r \in Rank |-> q]
  BY DEF LocalStep, BarrierStart, Restart, WorkerIdle, TaskStart, TaskEnd, Spawn, Create,
     WordInv, WordType, vars, env, work, word, lifeline, mine
<1>2. CASE UNCHANGED pc
  BY <1>1, <1>2 DEF WordInv, WordType, LocalInv, NoWordAt, MarkAt, VictimAt, Sync,
     HolderInv, WaitInv, HoldsWord, HoldsMsg, HoldsFree
<1>3. CASE \E p, q \in {"start", "advance", "left", "lambda"} :
             pc = [r \in Rank |-> p] /\ pc' = [r \in Rank |-> q]
  <2>1. WordType'
    BY <1>1, <1>3 DEF WordInv, WordType, Pc, AdvancePc
  <2>2. LocalInv'
    BY <1>1, <1>3 DEF WordInv, LocalInv, NoWordAt, MarkAt, VictimAt, Sync, SyncPc,
       ClosedPc
  <2>3. /\ \A v, t \in Rank : /\ HoldsWord(v, t)' <=> HoldsWord(v, t)
                              /\ HoldsFree(v, t)' <=> HoldsFree(v, t)
        /\ \A t \in Rank : pc[t] # "wait_task"
    BY <1>1, <1>3 DEF HoldsWord, HoldsFree
  <2> QED
    BY <1>1, <2>1, <2>2, <2>3, HolderFrame DEF WordInv
<1> QED
  BY <1>1, <1>2, <1>3

LEMMA WordStep == WordInv /\ [Next]_vars => WordInv'
<1> SUFFICES ASSUME WordInv, [Next]_vars PROVE WordInv'
  OBVIOUS
<1>1. ASSUME NEW r \in Rank, CommStep(r) PROVE WordInv'
  BY <1>1, WordTypeComm, LocalComm, HolderComm DEF WordInv, LocalInv
<1> QED
  BY <1>1, WordReceive, WordOther DEF Next, Run, Stopped
\* The word, the wait flag and the messages agree in every reachable state.
THEOREM WordInvariant == Spec => []WordInv
BY WordInit, WordStep, PTL DEF Spec

LEMMA AtMostOne ==
  ASSUME NEW S, \A x, y \in S : x = y
  PROVE  Cardinality(S) = IF S = {} THEN 0 ELSE 1
<1>1. CASE S = {}
  BY <1>1, FS_EmptySet
<1>2. ASSUME NEW x \in S PROVE Cardinality(S) = 1
  <2>1. S = {x}
    OBVIOUS
  <2> QED
    BY <2>1, FS_Singleton
<1> QED
  BY <1>1, <1>2

LEMMA InvKnown == WordInv => WaitingThiefIsKnown
<1> SUFFICES ASSUME WordInv, NEW t \in Rank
             PROVE  Holders(t) = IF waitForTaskFromVictim[t] THEN 1 ELSE 0
  BY DEF WaitingThiefIsKnown
<1> DEFINE W == {v \in Rank : req_thread[v] = t /\ pc[v] # "renew"}
           M == {m \in net : m.kind = "sync" /\ m.dst = t}
           F == {v \in Rank : pc[v] = "release" /\ loc[v].victim = t}
<1>1. /\ \A v, w \in W : v = w
      /\ \A m, n \in M : m = n
      /\ \A v, w \in F : v = w
      /\ W = {} \/ M = {}
      /\ W = {} \/ F = {}
      /\ M = {} \/ F = {}
      /\ waitForTaskFromVictim[t] <=> W # {} \/ M # {} \/ F # {}
  BY DEF WordInv, HolderInv, WaitInv, HoldsWord, HoldsMsg, HoldsFree
<1>2. Holders(t) = Cardinality(W) + Cardinality(M) + Cardinality(F)
  BY DEF Holders
<1> HIDE DEF W, M, F
<1>3. /\ Cardinality(W) = IF W = {} THEN 0 ELSE 1
      /\ Cardinality(M) = IF M = {} THEN 0 ELSE 1
      /\ Cardinality(F) = IF F = {} THEN 0 ELSE 1
  BY <1>1, AtMostOne
<1> QED
  BY <1>1, <1>2, <1>3

\* A thief that waits is known to exactly one place or message that lets it go
\* (attempt_synchronous_steal, ship_asyncAny_to_remote_thief, mark_myPlace_asIdle).
THEOREM ThiefIsKnown == Spec => []WaitingThiefIsKnown
BY WordInvariant, InvKnown, PTL

\* A place that searches or waits accepts no request word.
THEOREM SearcherIsClosed == Spec => []SearcherAcceptsNone
<1>1. WordInv => SearcherAcceptsNone
  BY DEF WordInv, LocalInv, MarkAt, ClosedPc, SearcherAcceptsNone
<1> QED
  BY <1>1, WordInvariant, PTL
=============================================================================
