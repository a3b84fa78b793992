---------------------------- MODULE Dddf_proofs ----------------------------
(***************************************************************************)
(* A distributed data-driven future is put once on each rank, and a put    *)
(* that starts away from home arrives with its datum, for every number of  *)
(* ranks and waiters.                                                      *)
(*                                                                         *)
(* The argument.  Each rank other than the putter is put from one rank     *)
(* only: the home from the putter, the others from the home (Uses).  A     *)
(* link is used once, because the request that opens it is sent once       *)
(* (RequestInv), and on it the copy comes before the task that puts        *)
(* (DeqInv, StageInv).  So a future is put exactly where the put started   *)
(* or a link has delivered (PutInv), and the copy's event tells that the   *)
(* datum is there (DataInv).                                               *)
(***************************************************************************)
EXTENDS Dddf, TLAPS

\* The communication tasks of a link, and of a request.
Comm == [op : {"copy", "after", "at"}, dst : Rank]
Entry(o, d) == [op |-> o, dst |-> d]
In(s, e) == \E i \in 1 .. Len(s) : s[i] = e

\* The link from s to d leads to a rank that has not put the future itself:
\* from the putter to the home, or from the home to a rank that has asked.
Uses(s, d) ==
  /\ d # putter
  /\ \/ s = putter /\ d = Home /\ ppc = "done"
     \/ s = Home /\ d # Home /\ val[Home] # "null" /\ callback[d] = "done"

LinkInv == \A s, d \in Rank : rput[s][d] # "none" => Uses(s, d)

\* How far a link is: its copy is started before its task is sent.
StageAt(s, d) ==
  /\ In(deq[s], Entry("copy", d)) =>
       rput[s][d] \in {"after", "pushed"} /\ event[s][d] = "idle"
  /\ rput[s][d] \in {"after", "pushed"} /\ event[s][d] = "idle" =>
       In(deq[s], Entry("copy", d))
  /\ In(deq[s], Entry("after", d)) =>
       rput[s][d] = "pushed" /\ home_put[s][d] = "none"
  /\ event[s][d] # "idle" => rput[s][d] \in {"after", "pushed"}
  /\ home_put[s][d] # "none" => rput[s][d] = "pushed" /\ event[s][d] # "idle"
  /\ home_put[s][d] \in {"task", "done"} => event[s][d] = "done"

StageInv == \A s, d \in Rank : StageAt(s, d)

\* A deque holds each task once, and the copy of a link before its task.
Unique(q) == \A i, j \in 1 .. Len(q) : q[i] = q[j] => i = j
Ordered(q) == \A d \in Rank : \A i, j \in 1 .. Len(q) :
                q[i] = Entry("copy", d) /\ q[j] = Entry("after", d) => i < j
DeqInv == \A r \in Rank : Unique(deq[r]) /\ Ordered(deq[r])

\* A rank's request: one waiter that has set the flag, then one task in the
\* deque, then the callback at home.
RequestAt(r) ==
  /\ \A d \in Rank : In(deq[r], Entry("at", d)) =>
       d = Home /\ r # Home /\ putRequestedFromHome[r] /\ callback[r] = "none"
  /\ callback[r] # "none" => r # Home /\ putRequestedFromHome[r]

WaiterAt(w) ==
  /\ wpc[w] \in {"get", "request", "send"} => where[w] # Home
  /\ wpc[w] = "send" =>
       /\ putRequestedFromHome[where[w]] /\ callback[where[w]] = "none"
       /\ ~In(deq[where[w]], Entry("at", Home))

RequestInv ==
  /\ \A r \in Rank : RequestAt(r)
  /\ \A w \in Waiter : WaiterAt(w)
  /\ \A v, w \in Waiter :
       wpc[v] = "send" /\ wpc[w] = "send" /\ where[v] = where[w] => v = w

\* Where the future is put, and from where.
PutInv ==
  /\ putter = NONE <=> ppc = "none"
  /\ \A r \in Rank : val[r] # "null" <=>
       r = putter \/ \E s \in Rank : home_put[s][r] = "done"
  /\ \A r \in Rank : initiator[r] # NONE =>
       \/ r = putter /\ ppc # "initiator"
       \/ \E s \in Rank : home_put[s][r] = "done"
  /\ \A s, d \in Rank : home_put[s][d] = "done" => initiator[d] = s

\* Where the datum is, if the put does not start at home.
DataInv ==
  /\ ppc \in {"flag", "done"} => datum[putter] = "data"
  /\ putter # Home =>
       /\ \A s, d \in Rank : event[s][d] = "done" => datum[d] = "data"
       /\ \A r \in Rank : val[r] # "garbage"

IInv == /\ TypeOK /\ LinkInv /\ StageInv /\ DeqInv /\ RequestInv /\ PutInv
        /\ DataInv /\ ~failed

-----------------------------------------------------------------------------
(* Sequences.                                                              *)

LEMMA InAppend ==
  ASSUME NEW S, NEW q \in Seq(S), NEW x \in S, NEW e
  PROVE  In(Append(q, x), e) <=> In(q, e) \/ e = x
<1>1. /\ Len(Append(q, x)) = Len(q) + 1 /\ Append(q, x)[Len(q) + 1] = x
      /\ \A i \in 1 .. Len(q) : Append(q, x)[i] = q[i]
      /\ Len(q) \in Nat
  OBVIOUS
<1> QED
  BY <1>1 DEF In

LEMMA TailIs ==
  ASSUME NEW S, NEW q \in Seq(S), q # <<>>
  PROVE  /\ Len(q) \in Nat \ {0} /\ Len(Tail(q)) = Len(q) - 1 /\ Head(q) = q[1]
         /\ \A i \in 1 .. Len(q) - 1 : Tail(q)[i] = q[i + 1]
OBVIOUS

LEMMA InTail ==
  ASSUME NEW S, NEW q \in Seq(S), q # <<>>, Unique(q), NEW e
  PROVE  In(Tail(q), e) <=> In(q, e) /\ e # Head(q)
<1> DEFINE n == Len(q)  t == Tail(q)
<1>1. /\ n \in Nat \ {0} /\ Len(t) = n - 1 /\ Head(q) = q[1]
      /\ \A i \in 1 .. n - 1 : t[i] = q[i + 1]
  BY TailIs
<1> HIDE DEF n, t
<1>2. ASSUME NEW i \in 1 .. n - 1, t[i] = e
      PROVE  In(q, e) /\ e # Head(q)
  <2>1. i + 1 \in 1 .. n /\ i + 1 # 1 /\ 1 \in 1 .. n
    BY <1>1
  <2> QED
    BY <1>1, <1>2, <2>1 DEF In, Unique, n
<1>3. ASSUME NEW i \in 1 .. n, q[i] = e, e # Head(q)
      PROVE  In(t, e)
  <2>1. i - 1 \in 1 .. n - 1 /\ (i - 1) + 1 = i
    BY <1>1, <1>3
  <2> QED
    BY <1>1, <1>3, <2>1 DEF In
<1> QED
  BY <1>1, <1>2, <1>3 DEF In, n, t

LEMMA AppendKeeps ==
  ASSUME NEW S, NEW q \in Seq(S), NEW x \in S, Unique(q), Ordered(q), ~In(q, x),
         \A d \in Rank : x = Entry("copy", d) => ~In(q, Entry("after", d))
  PROVE  Unique(Append(q, x)) /\ Ordered(Append(q, x))
<1> DEFINE n == Len(q)  a == Append(q, x)
<1>1. /\ Len(a) = n + 1 /\ a[n + 1] = x /\ n \in Nat
      /\ \A i \in 1 .. n : a[i] = q[i]
  OBVIOUS
<1>2. \A i \in 1 .. n : q[i] # x
  BY DEF In
<1> HIDE DEF a
<1>3. \A i \in 1 .. n + 1 : i \in 1 .. n \/ i = n + 1
  BY <1>1
<1>4. Unique(a)
  BY <1>1, <1>2, <1>3 DEF Unique
<1>5. Ordered(a)
  <2> SUFFICES ASSUME NEW d \in Rank, NEW i \in 1 .. n + 1, NEW j \in 1 .. n + 1,
                      a[i] = Entry("copy", d), a[j] = Entry("after", d)
               PROVE  i < j
    BY <1>1 DEF Ordered
  <2>1. CASE i \in 1 .. n /\ j \in 1 .. n
    BY <1>1, <2>1 DEF Ordered
  <2>2. CASE i = n + 1
    <3>1. j # n + 1
      BY <2>2 DEF Entry
    <3> QED
      BY <1>1, <1>3, <2>2, <3>1 DEF In
  <2>3. CASE i \in 1 .. n /\ j = n + 1
    BY <1>1, <2>3
  <2> QED
    BY <1>3, <2>1, <2>2, <2>3
<1> QED
  BY <1>4, <1>5 DEF a

LEMMA TailKeeps ==
  ASSUME NEW S, NEW q \in Seq(S), q # <<>>, Unique(q), Ordered(q)
  PROVE  Unique(Tail(q)) /\ Ordered(Tail(q))
<1> DEFINE n == Len(q)  t == Tail(q)
<1>1. /\ n \in Nat \ {0} /\ Len(t) = n - 1
      /\ \A i \in 1 .. n - 1 : t[i] = q[i + 1]
  BY TailIs
<1> HIDE DEF n, t
<1>2. \A i \in 1 .. n - 1 : i + 1 \in 1 .. n
  BY <1>1
<1>3. Unique(t)
  BY <1>1, <1>2 DEF Unique, n
<1>4. Ordered(t)
  BY <1>1, <1>2, SMTT(20) DEF Ordered, n
<1> QED
  BY <1>3, <1>4 DEF t

\* When a link's task is next, its copy has been taken.
LEMMA CopyWasFirst ==
  ASSUME NEW S, NEW q \in Seq(S), q # <<>>, Ordered(q), NEW d \in Rank,
         Head(q) = Entry("after", d)
  PROVE  ~In(q, Entry("copy", d))
BY TailIs DEF Ordered, In

-----------------------------------------------------------------------------
(* One case per action, for the lemmas below.                              *)

LEMMA StepCases ==
  ASSUME [Next]_vars
  PROVE  \/ \E p \in Rank : LocalPut(p)
         \/ MarkInitiator \/ CopyDatum \/ MarkAvailable
         \/ \E s, d \in Rank : \/ PushRemote(s, d) \/ CopyArrives(s, d)
                               \/ ReceivePut(s, d) \/ DDF_PUT_home(s, d)
         \/ \E r \in Rank : ExecComm(r) \/ DDF_PUT_callback(r) \/ PutBack(r)
         \/ \E w \in Waiter : \/ CheckGet(w) \/ CasRequest(w) \/ SendRequest(w)
                              \/ RunWaiter(w) \/ \E r \in Rank : Await(w, r)
         \/ UNCHANGED vars
BY DEF Next, Putting, Remote, Request, Awaiting

\* The tables of links.
LEMMA TableUpdate ==
  ASSUME NEW V, NEW f \in [Rank -> [Rank -> V]], NEW a \in Rank, NEW b \in Rank, NEW v \in V,
         NEW h, h = [f EXCEPT ![a][b] = v]
  PROVE  /\ h \in [Rank -> [Rank -> V]]
         /\ \A s, d \in Rank : h[s][d] = IF s = a /\ d = b THEN v ELSE f[s][d]
<1> DEFINE g == [f[a] EXCEPT ![b] = v]
<1>1. f[a] \in [Rank -> V] /\ g \in [Rank -> V]
  OBVIOUS
<1>2. /\ g[b] = v
      /\ \A d \in Rank : d # b => g[d] = f[a][d]
  BY <1>1
<1>3. h = [f EXCEPT ![a] = g]
  OBVIOUS
<1> HIDE DEF g
<1>4. h \in [Rank -> [Rank -> V]]
  BY <1>1, <1>3
<1> QED
  BY <1>2, <1>3, <1>4

RputStage == {"none", "copy", "after", "pushed"}
EventStage == {"idle", "started", "done"}
PutStage == {"none", "after", "task", "done"}

LEMMA TableType ==
  ASSUME TypeOK
  PROVE  /\ rput \in [Rank -> [Rank -> RputStage]]
         /\ event \in [Rank -> [Rank -> EventStage]]
         /\ home_put \in [Rank -> [Rank -> PutStage]]
BY DEF TypeOK, RputStage, EventStage, PutStage

LEMMA RputUpdate ==
  ASSUME TypeOK, NEW a \in Rank, NEW b \in Rank, NEW v \in RputStage,
         rput' = [rput EXCEPT ![a][b] = v]
  PROVE  /\ rput' \in [Rank -> [Rank -> RputStage]]
         /\ \A s, d \in Rank : rput'[s][d] = IF s = a /\ d = b THEN v ELSE rput[s][d]
<1>1. rput \in [Rank -> [Rank -> RputStage]]
  BY TableType
<1> QED
  BY <1>1, TableUpdate

LEMMA EventUpdate ==
  ASSUME TypeOK, NEW a \in Rank, NEW b \in Rank, NEW v \in EventStage,
         event' = [event EXCEPT ![a][b] = v]
  PROVE  /\ event' \in [Rank -> [Rank -> EventStage]]
         /\ \A s, d \in Rank : event'[s][d] = IF s = a /\ d = b THEN v ELSE event[s][d]
<1>1. event \in [Rank -> [Rank -> EventStage]]
  BY TableType
<1> QED
  BY <1>1, TableUpdate

LEMMA PutUpdate ==
  ASSUME TypeOK, NEW a \in Rank, NEW b \in Rank, NEW v \in PutStage,
         home_put' = [home_put EXCEPT ![a][b] = v]
  PROVE  /\ home_put' \in [Rank -> [Rank -> PutStage]]
         /\ \A s, d \in Rank : home_put'[s][d] = IF s = a /\ d = b THEN v ELSE home_put[s][d]
<1>1. home_put \in [Rank -> [Rank -> PutStage]]
  BY TableType
<1> QED
  BY <1>1, TableUpdate

LEMMA HeadType ==
  ASSUME TypeOK, NEW r \in Rank, deq[r] # <<>>
  PROVE  Head(deq[r]) \in Comm /\ Tail(deq[r]) \in Seq(Comm)
<1>1. deq[r] \in Seq(Comm)
  BY DEF TypeOK, Comm
<1> HIDE DEF Comm
<1> QED
  BY <1>1

LEMMA TypeStep == TypeOK /\ [Next]_vars => TypeOK'
<1> SUFFICES ASSUME TypeOK, [Next]_vars PROVE TypeOK'
  OBVIOUS
<1> USE DEF cells, putting, sending, waiting
<1>1. ASSUME NEW p \in Rank, LocalPut(p) PROVE TypeOK'
  BY <1>1 DEF TypeOK, LocalPut, DdfPut, Value
<1>2. CASE MarkInitiator
  <2>1. putter \in Rank \cup {NONE} /\ initiator' \in [Rank -> Rank \cup {NONE}]
    BY <1>2 DEF TypeOK, MarkInitiator
  <2> QED
    BY <1>2, <2>1 DEF TypeOK, MarkInitiator
<1>3. CASE CopyDatum
  BY <1>3 DEF TypeOK, CopyDatum, Value
<1>4. CASE MarkAvailable
  <2>1. putRequestedFromHome' \in [Rank -> BOOLEAN]
    BY <1>4 DEF TypeOK, MarkAvailable
  <2>2. rput' \in [Rank -> [Rank -> {"none", "copy", "after", "pushed"}]]
    BY <1>4 DEF TypeOK, MarkAvailable
  <2> QED
    BY <1>4, <2>1, <2>2 DEF TypeOK, MarkAvailable
<1>5. ASSUME NEW s \in Rank, NEW d \in Rank, PushRemote(s, d) PROVE TypeOK'
  <2>1. Entry(rput[s][d], d) \in Comm
    BY <1>5 DEF PushRemote, Entry, Comm
  <2>2. deq' \in [Rank -> Seq(Comm)]
    BY <1>5, <2>1 DEF TypeOK, PushRemote, PushComm, Entry, Comm
  <2>3. rput' \in [Rank -> [Rank -> {"none", "copy", "after", "pushed"}]]
    BY <1>5 DEF TypeOK, PushRemote
  <2> QED
    BY <1>5, <2>2, <2>3 DEF TypeOK, PushRemote, Comm
<1>6. ASSUME NEW s \in Rank, NEW d \in Rank, CopyArrives(s, d) PROVE TypeOK'
  BY <1>6 DEF TypeOK, CopyArrives
<1>7. ASSUME NEW s \in Rank, NEW d \in Rank, ReceivePut(s, d) PROVE TypeOK'
  BY <1>7 DEF TypeOK, ReceivePut
<1>8. ASSUME NEW s \in Rank, NEW d \in Rank, DDF_PUT_home(s, d) PROVE TypeOK'
  <2>1. val' \in [Rank -> Value] /\ initiator' \in [Rank -> Rank \cup {NONE}]
    BY <1>8 DEF TypeOK, DDF_PUT_home, DdfPut
  <2>2. failed' \in BOOLEAN /\ home_put' \in [Rank -> [Rank -> {"none", "after", "task", "done"}]]
    BY <1>8 DEF TypeOK, DDF_PUT_home, DdfPut
  <2> QED
    BY <1>8, <2>1, <2>2 DEF TypeOK, DDF_PUT_home
<1>9. ASSUME NEW r \in Rank, ExecComm(r) PROVE TypeOK'
  <2>1. deq[r] # <<>>
    BY <1>9 DEF ExecComm
  <2>2. deq' \in [Rank -> Seq(Comm)]
    BY <1>9, <2>1, HeadType DEF ExecComm, TypeOK, Comm
  <2>3. /\ event' \in [Rank -> [Rank -> {"idle", "started", "done"}]]
        /\ home_put' \in [Rank -> [Rank -> {"none", "after", "task", "done"}]]
    <3>1. Head(deq[r]).dst \in Rank
      BY <2>1, HeadType DEF Comm
    <3>2. PICK d \in Rank : /\ \/ event' = [event EXCEPT ![r][d] = "started"]
                               \/ UNCHANGED event
                            /\ \/ home_put' = [home_put EXCEPT ![r][d] = "after"]
                               \/ UNCHANGED home_put
      BY <1>9, <3>1 DEF ExecComm
    <3>3. "started" \in EventStage /\ "after" \in PutStage
      BY DEF EventStage, PutStage
    <3>4. event' \in [Rank -> [Rank -> EventStage]]
      BY <3>2, <3>3, TableType, EventUpdate
    <3>5. home_put' \in [Rank -> [Rank -> PutStage]]
      BY <3>2, <3>3, TableType, PutUpdate
    <3> QED
      BY <3>4, <3>5 DEF EventStage, PutStage
  <2>4. callback' \in [Rank -> {"none", "net", "await", "done"}]
    BY <1>9 DEF ExecComm, TypeOK
  <2> QED
    BY <1>9, <2>2, <2>3, <2>4 DEF ExecComm, TypeOK, Comm
<1>10. ASSUME NEW r \in Rank, DDF_PUT_callback(r) \/ PutBack(r) PROVE TypeOK'
  <2>1. rput' \in [Rank -> [Rank -> {"none", "copy", "after", "pushed"}]]
    <3>1. rput' = [rput EXCEPT ![Home][r] = "copy"] \/ UNCHANGED rput
      BY <1>10 DEF DDF_PUT_callback, PutBack, sending
    <3> QED
      <4>1. "copy" \in RputStage /\ Home \in Rank
        BY HomeAssumption DEF RputStage
      <4>2. rput' \in [Rank -> [Rank -> RputStage]]
        BY <3>1, <4>1, TableType, RputUpdate
      <4> QED
        BY <4>2 DEF RputStage
  <2> QED
    BY <1>10, <2>1 DEF TypeOK, DDF_PUT_callback, PutBack
<1>11. ASSUME NEW w \in Waiter, CheckGet(w) \/ CasRequest(w) \/ RunWaiter(w) PROVE TypeOK'
  <2>1. wpc' \in [Waiter -> {"new", "get", "request", "send", "wait", "ran"}]
    BY <1>11 DEF TypeOK, CheckGet, CasRequest, RunWaiter, StepWaiter
  <2>2. putRequestedFromHome' \in [Rank -> BOOLEAN]
    BY <1>11 DEF TypeOK, CheckGet, CasRequest, RunWaiter
  <2> QED
    BY <1>11, <2>1, <2>2 DEF TypeOK, CheckGet, CasRequest, RunWaiter, StepWaiter
<1>12. ASSUME NEW w \in Waiter, SendRequest(w) PROVE TypeOK'
  <2>1. where[w] \in Rank /\ Entry("at", Home) \in Comm
    BY HomeAssumption DEF TypeOK, Entry, Comm
  <2>2. deq' \in [Rank -> Seq(Comm)]
    BY <1>12, <2>1 DEF TypeOK, SendRequest, PushComm, Entry, Comm
  <2>3. wpc' \in [Waiter -> {"new", "get", "request", "send", "wait", "ran"}]
    BY <1>12 DEF TypeOK, SendRequest, StepWaiter
  <2>4. putRequestedFromHome' \in [Rank -> BOOLEAN]
    BY <1>12, <2>1 DEF TypeOK, SendRequest
  <2> QED
    BY <1>12, <2>2, <2>3, <2>4 DEF TypeOK, SendRequest, StepWaiter, Comm
<1>13. ASSUME NEW w \in Waiter, NEW r \in Rank, Await(w, r) PROVE TypeOK'
  BY <1>13 DEF TypeOK, Await
<1>14. CASE UNCHANGED vars
  BY <1>14 DEF TypeOK, vars
<1> QED
  BY <1>1, <1>2, <1>3, <1>4, <1>5, <1>6, <1>7, <1>8, <1>9, <1>10, <1>11, <1>12,
     <1>13, <1>14, StepCases

-----------------------------------------------------------------------------
(* What the invariant says of a state.                                     *)

\* A link in use has a putter, and is the only one to its rank.
LEMMA LinkUse ==
  ASSUME TypeOK, LinkInv, StageInv, PutInv,
         NEW s \in Rank, NEW d \in Rank, rput[s][d] # "none"
  PROVE  /\ putter \in Rank /\ d # putter
         /\ \A t \in Rank : rput[t][d] # "none" => t = s
         /\ s = putter \/ s = Home
<1>1. \A t, e \in Rank : home_put[t][e] = "done" => rput[t][e] # "none"
  BY DEF StageInv, StageAt
<1>2. Uses(s, d)
  BY DEF LinkInv
<1>3. putter # NONE
  <2>1. SUFFICES ASSUME putter = NONE PROVE FALSE
    OBVIOUS
  <2>2. NONE \notin Rank
    BY NAssumption DEF NONE, Rank
  <2>3. PICK t \in Rank : home_put[t][Home] = "done"
    BY <1>2, <2>1, <2>2, HomeAssumption DEF Uses, PutInv
  <2> QED
    BY <1>1, <2>1, <2>2, <2>3, HomeAssumption DEF LinkInv, Uses
<1>4. \A t \in Rank : rput[t][d] # "none" => t = s
  BY <1>2 DEF LinkInv, Uses
<1> QED
  BY <1>2, <1>3, <1>4 DEF TypeOK, Uses

\* A home that has been put from elsewhere was put by the putter, with the datum.
LEMMA HomeWasPut ==
  ASSUME TypeOK, LinkInv, StageInv, PutInv, putter # Home, val[Home] # "null"
  PROVE  /\ putter \in Rank /\ ppc = "done" /\ home_put[putter][Home] = "done"
         /\ initiator[Home] = putter /\ event[putter][Home] = "done"
<1>1. PICK t \in Rank : home_put[t][Home] = "done"
  BY HomeAssumption DEF PutInv
<1>2. rput[t][Home] # "none" /\ event[t][Home] = "done"
  BY <1>1, HomeAssumption DEF StageInv, StageAt
<1>3. t = putter /\ ppc = "done"
  BY <1>2, HomeAssumption DEF LinkInv, Uses
<1> QED
  BY <1>1, <1>2, <1>3, HomeAssumption DEF PutInv

\* A put that arrives finds a rank that has not been put.
LEMMA TargetIsNull ==
  ASSUME TypeOK, LinkInv, StageInv, PutInv,
         NEW s \in Rank, NEW d \in Rank, home_put[s][d] = "task"
  PROVE  val[d] = "null" /\ initiator[d] = NONE /\ d # putter
<1>1. rput[s][d] # "none"
  BY DEF StageInv, StageAt
<1>2. d # putter /\ \A t \in Rank : rput[t][d] # "none" => t = s
  BY <1>1, LinkUse
<1>3. \A t \in Rank : home_put[t][d] # "done"
  BY <1>2 DEF StageInv, StageAt
<1> QED
  BY <1>2, <1>3 DEF PutInv

\* Nobody has put: nothing is under way.
LEMMA NothingYet ==
  ASSUME TypeOK, LinkInv, StageInv, PutInv, putter = NONE
  PROVE  /\ \A s, d \in Rank : /\ rput[s][d] = "none" /\ event[s][d] = "idle"
                               /\ home_put[s][d] = "none"
         /\ \A r \in Rank : val[r] = "null"
<1>1. NONE \notin Rank
  BY NAssumption DEF NONE, Rank
<1>2. \A s, d \in Rank : rput[s][d] = "none"
  BY <1>1, LinkUse
<1>3. \A s, d \in Rank : event[s][d] = "idle" /\ home_put[s][d] = "none"
  BY <1>2 DEF StageInv, StageAt
<1>4. \A r \in Rank : val[r] = "null"
  BY <1>1, <1>3 DEF PutInv
<1> QED
  BY <1>2, <1>3, <1>4

-----------------------------------------------------------------------------
(* The links.                                                              *)

LEMMA HeadIsIn ==
  ASSUME TypeOK, NEW r \in Rank, deq[r] # <<>>
  PROVE  /\ Head(deq[r]) = Entry(Head(deq[r]).op, Head(deq[r]).dst)
         /\ Head(deq[r]).dst \in Rank /\ Head(deq[r]).op \in {"copy", "after", "at"}
         /\ In(deq[r], Head(deq[r]))
<1>1. Head(deq[r]) \in Comm
  BY HeadType
<1>2. deq[r] \in Seq(Comm)
  BY DEF TypeOK, Comm
<1>3. In(deq[r], Head(deq[r]))
  BY <1>2, TailIs DEF In
<1> QED
  BY <1>1, <1>3 DEF Comm, Entry

\* A request that leaves the deque is the first of its rank.
LEMMA RequestIsNew ==
  ASSUME TypeOK, RequestInv, NEW r \in Rank, deq[r] # <<>>, Head(deq[r]).op = "at"
  PROVE  callback[r] = "none" /\ r # Home /\ putRequestedFromHome[r]
<1>1. In(deq[r], Entry("at", Head(deq[r]).dst)) /\ Head(deq[r]).dst \in Rank
  BY HeadIsIn
<1> QED
  BY <1>1 DEF RequestInv, RequestAt

\* What never goes back.
LEMMA Monotone ==
  ASSUME TypeOK, PutInv, RequestInv, [Next]_vars
  PROVE  /\ \A r \in Rank : val[r] # "null" => val'[r] # "null"
         /\ \A r \in Rank : callback[r] = "done" => callback'[r] = "done"
         /\ ppc = "done" => ppc' = "done"
         /\ putter # NONE => putter' = putter
<1> USE DEF cells, putting, sending, waiting
<1>1. ASSUME NEW p \in Rank, LocalPut(p) PROVE
        /\ \A r \in Rank : val[r] # "null" => val'[r] # "null"
        /\ putter = NONE /\ ppc = "none" /\ UNCHANGED callback
  BY <1>1 DEF LocalPut, DdfPut, TypeOK, PutInv
<1>2. ASSUME MarkInitiator \/ CopyDatum \/ MarkAvailable PROVE
        UNCHANGED <<val, callback, putter>> /\ ppc # "done"
  BY <1>2 DEF MarkInitiator, CopyDatum, MarkAvailable
<1>3. ASSUME NEW s \in Rank, NEW d \in Rank,
             PushRemote(s, d) \/ CopyArrives(s, d) \/ ReceivePut(s, d)
      PROVE  UNCHANGED <<val, callback, putter, ppc>>
  BY <1>3 DEF PushRemote, CopyArrives, ReceivePut
<1>4. ASSUME NEW s \in Rank, NEW d \in Rank, DDF_PUT_home(s, d) PROVE
        /\ \A r \in Rank : val[r] # "null" => val'[r] # "null"
        /\ UNCHANGED <<callback, putter, ppc>>
  BY <1>4 DEF DDF_PUT_home, DdfPut, TypeOK, Value
<1>5. ASSUME NEW r \in Rank, ExecComm(r) PROVE
        /\ UNCHANGED <<val, putter, ppc>>
        /\ \A d \in Rank : callback[d] = "done" => callback'[d] = "done"
  <2>1. UNCHANGED <<val, putter, ppc>>
    BY <1>5 DEF ExecComm
  <2>2. CASE UNCHANGED callback
    BY <2>1, <2>2
  <2>3. CASE Head(deq[r]).op = "at" /\ callback' = [callback EXCEPT ![r] = "net"]
    <3>1. callback[r] = "none"
      BY <1>5, <2>3, RequestIsNew DEF ExecComm
    <3> QED
      BY <2>1, <2>3, <3>1 DEF TypeOK
  <2> QED
    BY <1>5, <2>1, <2>2, <2>3 DEF ExecComm
<1>6. ASSUME NEW r \in Rank, DDF_PUT_callback(r) \/ PutBack(r) PROVE
        /\ UNCHANGED <<val, putter, ppc>>
        /\ \A d \in Rank : callback[d] = "done" => callback'[d] = "done"
  BY <1>6 DEF DDF_PUT_callback, PutBack, TypeOK
<1>7. ASSUME NEW w \in Waiter, \/ CheckGet(w) \/ CasRequest(w) \/ SendRequest(w)
                               \/ RunWaiter(w) \/ \E r \in Rank : Await(w, r)
      PROVE  UNCHANGED <<val, callback, putter, ppc>>
  BY <1>7 DEF CheckGet, CasRequest, SendRequest, RunWaiter, Await
<1>8. ASSUME UNCHANGED vars PROVE UNCHANGED <<val, callback, putter, ppc>>
  BY <1>8 DEF vars
<1> QED
  BY <1>1, <1>2, <1>3, <1>4, <1>5, <1>6, <1>7, <1>8, StepCases

LEMMA LinkStep ==
  ASSUME TypeOK, LinkInv, StageInv, PutInv, RequestInv, [Next]_vars
  PROVE  LinkInv'
<1> USE DEF cells, putting, sending, waiting
<1>1. ASSUME NEW s \in Rank, NEW d \in Rank, rput[s][d] # "none" PROVE Uses(s, d)'
  <2>1. putter' = putter /\ Uses(s, d)
    BY <1>1, LinkUse, Monotone, NAssumption DEF LinkInv, NONE, Rank
  <2> QED
    BY <2>1, Monotone, HomeAssumption DEF Uses
<1>2. SUFFICES ASSUME NEW s \in Rank, NEW d \in Rank,
                      rput[s][d] = "none", rput'[s][d] # "none"
               PROVE  Uses(s, d)'
  BY <1>1 DEF LinkInv
<1>3. CASE MarkAvailable
  <2>1. putter # Home /\ rput' = [rput EXCEPT ![putter][Home] = "copy"]
    BY <1>2, <1>3 DEF MarkAvailable
  <2>2. putter \in Rank
    BY <1>3 DEF MarkAvailable, TypeOK, PutInv
  <2>3. s = putter /\ d = Home
    <3>1. "copy" \in RputStage
      BY DEF RputStage
    <3> QED
      BY <1>2, <2>1, <2>2, <3>1, RputUpdate, HomeAssumption
  <2> QED
    BY <1>3, <2>1, <2>3 DEF MarkAvailable, Uses
<1>4. ASSUME NEW a \in Rank, NEW b \in Rank, PushRemote(a, b) PROVE FALSE
  BY <1>2, <1>4 DEF PushRemote, TypeOK
<1>5. ASSUME NEW r \in Rank, PutBack(r) PROVE Uses(s, d)'
  <2>1. /\ rput' = [rput EXCEPT ![Home][r] = "copy"] /\ initiator[Home] # r
        /\ val[Home] # "null" /\ callback[r] = "await" /\ callback'[r] = "done"
        /\ UNCHANGED <<val, putter>>
    BY <1>2, <1>5 DEF PutBack, TypeOK
  <2>2. s = Home /\ d = r
    <3>1. "copy" \in RputStage
      BY DEF RputStage
    <3> QED
      BY <1>2, <2>1, <3>1, RputUpdate, HomeAssumption
  <2>3. r # Home
    BY <2>1 DEF RequestInv, RequestAt
  <2>4. r # putter
    BY <2>1, <2>3, HomeWasPut
  <2> QED
    BY <2>1, <2>2, <2>3, <2>4 DEF Uses
<1>6. CASE UNCHANGED rput
  BY <1>2, <1>6
<1>7. \/ UNCHANGED rput \/ MarkAvailable
      \/ \E a, b \in Rank : PushRemote(a, b)
      \/ \E r \in Rank : PutBack(r)
  BY StepCases DEF LocalPut, MarkInitiator, CopyDatum, CopyArrives, ReceivePut,
     DDF_PUT_home, ExecComm, DDF_PUT_callback, CheckGet, CasRequest, SendRequest,
     RunWaiter, Await, vars
<1> QED
  BY <1>3, <1>4, <1>5, <1>6, <1>7

-----------------------------------------------------------------------------
(* The deques.                                                             *)

LEMMA EntryEq ==
  ASSUME NEW o, NEW d, NEW p, NEW e, Entry(o, d) = Entry(p, e)
  PROVE  o = p /\ d = e
<1>1. Entry(o, d).op = Entry(p, e).op /\ Entry(o, d).dst = Entry(p, e).dst
  OBVIOUS
<1> QED
  BY <1>1 DEF Entry

LEMMA Pushed ==
  ASSUME TypeOK, NEW r \in Rank, NEW x \in Comm, PushComm(r, x)
  PROVE  /\ \A e : In(deq'[r], e) <=> In(deq[r], e) \/ e = x
         /\ \A q \in Rank : q # r => deq'[q] = deq[q]
         /\ deq'[r] = Append(deq[r], x) /\ deq[r] \in Seq(Comm)
<1>1. deq[r] \in Seq(Comm) /\ deq'[r] = Append(deq[r], x)
  BY DEF TypeOK, Comm, PushComm
<1>2. \A q \in Rank : q # r => deq'[q] = deq[q]
  BY DEF TypeOK, PushComm
<1> QED
  BY <1>1, <1>2, InAppend

LEMMA Popped ==
  ASSUME TypeOK, DeqInv, NEW r \in Rank, ExecComm(r)
  PROVE  /\ \A e : In(deq'[r], e) <=> In(deq[r], e) /\ e # Head(deq[r])
         /\ \A q \in Rank : q # r => deq'[q] = deq[q]
         /\ deq'[r] = Tail(deq[r]) /\ deq[r] \in Seq(Comm) /\ deq[r] # <<>>
<1>1. deq[r] \in Seq(Comm) /\ deq[r] # <<>> /\ deq'[r] = Tail(deq[r])
  BY DEF TypeOK, Comm, ExecComm
<1>2. \A q \in Rank : q # r => deq'[q] = deq[q]
  BY DEF TypeOK, ExecComm
<1>3. Unique(deq[r])
  BY DEF DeqInv
<1> QED
  BY <1>1, <1>2, <1>3, InTail

\* What PushRemote adds to the deque.
LEMMA RemoteEntry ==
  ASSUME TypeOK, NEW s \in Rank, NEW d \in Rank, PushRemote(s, d)
  PROVE  /\ Entry(rput[s][d], d) \in Comm /\ PushComm(s, Entry(rput[s][d], d))
         /\ rput[s][d] \in {"copy", "after"}
         /\ \A t, e \in Rank : rput'[t][e] =
              IF t = s /\ e = d
              THEN IF rput[s][d] = "copy" THEN "after" ELSE "pushed"
              ELSE rput[t][e]
<1>1. rput[s][d] \in {"copy", "after"}
  BY DEF PushRemote
<1> DEFINE v == IF rput[s][d] = "copy" THEN "after" ELSE "pushed"
<1>2. rput' = [rput EXCEPT ![s][d] = v] /\ v \in RputStage
  BY DEF PushRemote, RputStage
<1> HIDE DEF v
<1>3. \A t, e \in Rank : rput'[t][e] = IF t = s /\ e = d THEN v ELSE rput[t][e]
  BY <1>2, RputUpdate, ZenonT(40)
<1> QED
  BY <1>1, <1>3 DEF v, PushRemote, Entry, Comm

LEMMA RequestEntry ==
  ASSUME TypeOK, NEW w \in Waiter, SendRequest(w)
  PROVE  /\ where[w] \in Rank /\ Entry("at", Home) \in Comm
         /\ PushComm(where[w], Entry("at", Home))
BY HomeAssumption DEF TypeOK, SendRequest, Entry, Comm

LEMMA DeqCases ==
  ASSUME [Next]_vars
  PROVE  \/ UNCHANGED deq
         \/ \E s, d \in Rank : PushRemote(s, d)
         \/ \E r \in Rank : ExecComm(r)
         \/ \E w \in Waiter : SendRequest(w)
BY StepCases DEF LocalPut, MarkInitiator, CopyDatum, MarkAvailable, CopyArrives,
   ReceivePut, DDF_PUT_home, DDF_PUT_callback, PutBack, CheckGet, CasRequest,
   RunWaiter, Await, vars

LEMMA DeqStep ==
  ASSUME TypeOK, StageInv, DeqInv, RequestInv, [Next]_vars
  PROVE  DeqInv'
<1>1. CASE UNCHANGED deq
  BY <1>1 DEF DeqInv
<1>2. ASSUME NEW s \in Rank, NEW d \in Rank, PushRemote(s, d) PROVE DeqInv'
  <2> DEFINE x == Entry(rput[s][d], d)
  <2>1. ~In(deq[s], x)
    BY <1>2, RemoteEntry DEF StageInv, StageAt
  <2>2. \A e \in Rank : x = Entry("copy", e) => ~In(deq[s], Entry("after", e))
    BY <1>2, EntryEq DEF StageInv, StageAt
  <2>3. Unique(Append(deq[s], x)) /\ Ordered(Append(deq[s], x))
    BY <1>2, <2>1, <2>2, RemoteEntry, Pushed, AppendKeeps DEF DeqInv
  <2>4. deq'[s] = Append(deq[s], x) /\ \A q \in Rank : q # s => deq'[q] = deq[q]
    BY <1>2, RemoteEntry, Pushed
  <2> QED
    BY <2>3, <2>4 DEF DeqInv
<1>3. ASSUME NEW r \in Rank, ExecComm(r) PROVE DeqInv'
  <2>1. Unique(Tail(deq[r])) /\ Ordered(Tail(deq[r]))
    BY <1>3, Popped, TailKeeps DEF DeqInv
  <2> QED
    BY <1>3, <2>1, Popped DEF DeqInv
<1>4. ASSUME NEW w \in Waiter, SendRequest(w) PROVE DeqInv'
  <2> DEFINE r == where[w]  x == Entry("at", Home)
  <2>1. ~In(deq[r], x)
    BY <1>4 DEF RequestInv, WaiterAt, SendRequest
  <2>2. \A e \in Rank : x # Entry("copy", e)
    BY EntryEq
  <2>3. Unique(Append(deq[r], x)) /\ Ordered(Append(deq[r], x))
    BY <1>4, <2>1, <2>2, RequestEntry, Pushed, AppendKeeps DEF DeqInv
  <2>4. deq'[r] = Append(deq[r], x) /\ \A q \in Rank : q # r => deq'[q] = deq[q]
    BY <1>4, RequestEntry, Pushed
  <2> QED
    BY <2>3, <2>4 DEF DeqInv
<1> QED
  BY <1>1, <1>2, <1>3, <1>4, DeqCases

LEMMA StageStep ==
  ASSUME TypeOK, LinkInv, StageInv, DeqInv, RequestInv, PutInv, [Next]_vars
  PROVE  StageInv'
<1> USE DEF cells, putting, sending, waiting
<1>1. CASE UNCHANGED <<rput, event, home_put, deq>>
  BY <1>1 DEF StageInv, StageAt
\* A link is opened.
<1>2. ASSUME NEW s \in Rank, NEW d \in Rank, rput[s][d] = "none",
             rput' = [rput EXCEPT ![s][d] = "copy"],
             UNCHANGED <<event, home_put, deq>>
      PROVE  StageInv'
  <2>1. "copy" \in RputStage
    BY DEF RputStage
  <2>2. \A t, e \in Rank : rput'[t][e] = IF t = s /\ e = d THEN "copy" ELSE rput[t][e]
    BY <1>2, <2>1, RputUpdate, ZenonT(40)
  <2>3. StageAt(s, d)'
    BY <1>2, <2>2 DEF StageInv, StageAt
  <2> QED
    BY <1>2, <2>2, <2>3 DEF StageInv, StageAt
<1>3. CASE MarkAvailable
  <2>1. CASE UNCHANGED rput
    BY <1>1, <1>3, <2>1 DEF MarkAvailable
  <2>2. CASE putter # Home /\ rput' = [rput EXCEPT ![putter][Home] = "copy"]
    <3>1. putter \in Rank /\ Home \in Rank
      BY <1>3, HomeAssumption DEF MarkAvailable, TypeOK, PutInv
    <3>2. rput[putter][Home] = "none"
      BY <1>3, <2>2, <3>1 DEF MarkAvailable, LinkInv, Uses
    <3> QED
      BY <1>2, <1>3, <2>2, <3>1, <3>2 DEF MarkAvailable
  <2> QED
    BY <1>3, <2>1, <2>2 DEF MarkAvailable
<1>4. ASSUME NEW r \in Rank, PutBack(r) PROVE StageInv'
  <2>1. CASE UNCHANGED rput
    BY <1>1, <1>4, <2>1 DEF PutBack
  <2>2. CASE rput' = [rput EXCEPT ![Home][r] = "copy"]
    <3>1. r # Home /\ callback[r] = "await"
      BY <1>4 DEF PutBack, RequestInv, RequestAt
    <3>2. rput[Home][r] = "none"
      BY <3>1, HomeAssumption DEF LinkInv, Uses
    <3> QED
      BY <1>2, <1>4, <2>2, <3>2, HomeAssumption DEF PutBack
  <2> QED
    BY <1>4, <2>1, <2>2 DEF PutBack
<1>5. ASSUME NEW s \in Rank, NEW d \in Rank, PushRemote(s, d) PROVE StageInv'
  <2> DEFINE x == Entry(rput[s][d], d)
  <2>1. UNCHANGED <<event, home_put>>
    BY <1>5 DEF PushRemote
  <2>2. /\ \A e : In(deq'[s], e) <=> In(deq[s], e) \/ e = x
        /\ \A q \in Rank : q # s => deq'[q] = deq[q]
    BY <1>5, RemoteEntry, Pushed, SMTT(20)
  <2>3. ASSUME NEW t \in Rank, NEW e \in Rank, ~(t = s /\ e = d) PROVE StageAt(t, e)'
    <3>1. rput'[t][e] = rput[t][e]
      BY <1>5, <2>3, RemoteEntry
    <3>2. /\ In(deq'[t], Entry("copy", e)) <=> In(deq[t], Entry("copy", e))
          /\ In(deq'[t], Entry("after", e)) <=> In(deq[t], Entry("after", e))
      BY <2>2, <2>3, EntryEq
    <3> QED
      BY <2>1, <3>1, <3>2 DEF StageInv, StageAt
  <2>4. StageAt(s, d)'
    <3>1. rput'[s][d] = IF rput[s][d] = "copy" THEN "after" ELSE "pushed"
      BY <1>5, RemoteEntry
    <3>2. CASE rput[s][d] = "copy"
      <4>1. /\ In(deq'[s], Entry("copy", d))
            /\ In(deq'[s], Entry("after", d)) <=> In(deq[s], Entry("after", d))
        BY <2>2, <3>2, EntryEq
      <4> QED
        BY <2>1, <3>1, <3>2, <4>1 DEF StageInv, StageAt
    <3>3. CASE rput[s][d] = "after"
      <4>1. In(deq'[s], Entry("copy", d)) <=> In(deq[s], Entry("copy", d))
        BY <2>2, <3>3, EntryEq
      <4> QED
        BY <2>1, <3>1, <3>3, <4>1 DEF StageInv, StageAt
    <3> QED
      BY <1>5, <3>2, <3>3, RemoteEntry
  <2> QED
    BY <2>3, <2>4 DEF StageInv
<1>6. ASSUME NEW w \in Waiter, SendRequest(w) PROVE StageInv'
  <2>1. UNCHANGED <<rput, event, home_put>>
    BY <1>6 DEF SendRequest
  <2>2. \A t, e \in Rank :
          /\ In(deq'[t], Entry("copy", e)) <=> In(deq[t], Entry("copy", e))
          /\ In(deq'[t], Entry("after", e)) <=> In(deq[t], Entry("after", e))
    BY <1>6, RequestEntry, Pushed, EntryEq, SMTT(20)
  <2> QED
    BY <2>1, <2>2 DEF StageInv, StageAt
<1>7. ASSUME NEW r \in Rank, ExecComm(r) PROVE StageInv'
  <2> DEFINE h == Head(deq[r])
  <2>1. /\ \A e : In(deq'[r], e) <=> In(deq[r], e) /\ e # h
        /\ \A q \in Rank : q # r => deq'[q] = deq[q]
        /\ deq[r] # <<>> /\ deq[r] \in Seq(Comm)
    BY <1>7, Popped
  <2>2. PICK d \in Rank : h.dst = d /\ h = Entry(h.op, d) /\ In(deq[r], h)
    BY <2>1, HeadIsIn
  <2>3. UNCHANGED rput
    BY <1>7 DEF ExecComm
  <2>7. h.op \in {"copy", "after", "at"}
    BY <2>1, HeadIsIn
  <2> HIDE DEF h
  <2>4. CASE h.op = "copy"
    <3>1. event' = [event EXCEPT ![r][d] = "started"] /\ UNCHANGED home_put
      BY <1>7, <2>2, <2>4 DEF ExecComm, h
    <3>2. \A t, e \in Rank : event'[t][e] = IF t = r /\ e = d THEN "started" ELSE event[t][e]
      <4>1. "started" \in EventStage
        BY DEF EventStage
      <4> QED
        BY <3>1, <4>1, EventUpdate, ZenonT(40)
    <3>3. rput[r][d] \in {"after", "pushed"} /\ home_put[r][d] = "none"
      BY <2>2, <2>4 DEF StageInv, StageAt
    <3>4. StageAt(r, d)'
      <4>1. ~In(deq'[r], Entry("copy", d))
        BY <2>1, <2>2, <2>4
      <4>2. In(deq'[r], Entry("after", d)) => In(deq[r], Entry("after", d))
        BY <2>1
      <4> QED
        BY <2>2, <2>3, <3>1, <3>2, <3>3, <4>1, <4>2 DEF StageInv, StageAt
    <3>5. ASSUME NEW t \in Rank, NEW e \in Rank, ~(t = r /\ e = d) PROVE StageAt(t, e)'
      <4>1. /\ In(deq'[t], Entry("copy", e)) <=> In(deq[t], Entry("copy", e))
            /\ In(deq'[t], Entry("after", e)) <=> In(deq[t], Entry("after", e))
        BY <2>1, <2>2, <2>4, <3>5, EntryEq
      <4>2. event'[t][e] = event[t][e]
        BY <3>2, <3>5
      <4> QED
        BY <2>3, <3>1, <4>1, <4>2 DEF StageInv, StageAt
    <3> QED
      BY <3>4, <3>5 DEF StageInv
  <2>5. CASE h.op = "after"
    <3>1. home_put' = [home_put EXCEPT ![r][d] = "after"] /\ UNCHANGED event
      BY <1>7, <2>2, <2>5 DEF ExecComm, h
    <3>2. \A t, e \in Rank : home_put'[t][e] = IF t = r /\ e = d THEN "after" ELSE home_put[t][e]
      <4>1. "after" \in PutStage
        BY DEF PutStage
      <4> QED
        BY <3>1, <4>1, PutUpdate, ZenonT(40)
    <3>3. /\ rput[r][d] = "pushed" /\ home_put[r][d] = "none"
          /\ event[r][d] # "idle" /\ ~In(deq[r], Entry("copy", d))
      <4>1. ~In(deq[r], Entry("copy", d))
        BY <2>1, <2>2, <2>5, CopyWasFirst DEF DeqInv, h
      <4> QED
        BY <2>2, <2>5, <4>1 DEF StageInv, StageAt
    <3>4. StageAt(r, d)'
      <4>1. ~In(deq'[r], Entry("after", d)) /\ ~In(deq'[r], Entry("copy", d))
        BY <2>1, <2>2, <2>5, <3>3
      <4> QED
        BY <2>2, <2>3, <3>1, <3>2, <3>3, <4>1 DEF StageAt
    <3>5. ASSUME NEW t \in Rank, NEW e \in Rank, ~(t = r /\ e = d) PROVE StageAt(t, e)'
      <4>1. /\ In(deq'[t], Entry("copy", e)) <=> In(deq[t], Entry("copy", e))
            /\ In(deq'[t], Entry("after", e)) <=> In(deq[t], Entry("after", e))
        BY <2>1, <2>2, <2>5, <3>5, EntryEq
      <4>2. home_put'[t][e] = home_put[t][e]
        BY <3>2, <3>5
      <4> QED
        BY <2>3, <3>1, <4>1, <4>2 DEF StageInv, StageAt
    <3> QED
      BY <3>4, <3>5 DEF StageInv
  <2>6. CASE h.op = "at"
    <3>1. UNCHANGED <<event, home_put>>
      BY <1>7, <2>6 DEF ExecComm, h
    <3>2. \A t, e \in Rank :
            /\ In(deq'[t], Entry("copy", e)) <=> In(deq[t], Entry("copy", e))
            /\ In(deq'[t], Entry("after", e)) <=> In(deq[t], Entry("after", e))
      BY <2>1, <2>2, <2>6, EntryEq
    <3> QED
      BY <2>3, <3>1, <3>2 DEF StageInv, StageAt
  <2> QED
    BY <2>4, <2>5, <2>6, <2>7
<1>8. ASSUME NEW s \in Rank, NEW d \in Rank, CopyArrives(s, d) PROVE StageInv'
  <2>1. "done" \in EventStage
    BY DEF EventStage
  <2>2. \A t, e \in Rank : event'[t][e] = IF t = s /\ e = d THEN "done" ELSE event[t][e]
    BY <1>8, <2>1, EventUpdate, ZenonT(40) DEF CopyArrives
  <2>3. UNCHANGED <<rput, home_put, deq>> /\ event[s][d] = "started"
    BY <1>8 DEF CopyArrives
  <2> QED
    BY <2>2, <2>3 DEF StageInv, StageAt
<1>9. ASSUME NEW s \in Rank, NEW d \in Rank, NEW v \in {"task", "done"},
             home_put[s][d] \in {"after", "task"},
             home_put' = [home_put EXCEPT ![s][d] = v], event[s][d] = "done",
             UNCHANGED <<rput, event, deq>>
      PROVE  StageInv'
  <2>1. v \in PutStage
    BY DEF PutStage
  <2>2. \A t, e \in Rank : home_put'[t][e] = IF t = s /\ e = d THEN v ELSE home_put[t][e]
    BY <1>9, <2>1, PutUpdate
  <2> QED
    BY <1>9, <2>2 DEF StageInv, StageAt
<1>10. ASSUME NEW s \in Rank, NEW d \in Rank, ReceivePut(s, d) PROVE StageInv'
  <2>1. event[s][d] = "done"
    BY <1>10 DEF ReceivePut, StageInv, StageAt, TypeOK
  <2> QED
    BY <1>9, <1>10, <2>1 DEF ReceivePut
<1>11. ASSUME NEW s \in Rank, NEW d \in Rank, DDF_PUT_home(s, d) PROVE StageInv'
  <2>1. event[s][d] = "done"
    BY <1>11 DEF DDF_PUT_home, StageInv, StageAt
  <2> QED
    BY <1>9, <1>11, <2>1 DEF DDF_PUT_home
<1> QED
  BY <1>1, <1>3, <1>4, <1>5, <1>6, <1>7, <1>8, <1>10, <1>11, StepCases
     DEF LocalPut, MarkInitiator, CopyDatum, DDF_PUT_callback, CheckGet, CasRequest,
     RunWaiter, Await, vars

-----------------------------------------------------------------------------
(* The requests.                                                           *)

LEMMA RequestStep ==
  ASSUME TypeOK, StageInv, DeqInv, RequestInv, PutInv, [Next]_vars
  PROVE  RequestInv'
<1> USE DEF cells, putting, sending, waiting
\* Requests and waiters stay as they are.
<1>1. ASSUME UNCHANGED <<callback, where, wpc>>,
             \A r \in Rank : putRequestedFromHome[r] => putRequestedFromHome'[r],
             \A r, d \in Rank : In(deq'[r], Entry("at", d)) => In(deq[r], Entry("at", d))
      PROVE  RequestInv'
  <2>1. \A w \in Waiter : where[w] \in Rank
    BY DEF TypeOK
  <2>2. ASSUME NEW r \in Rank PROVE RequestAt(r)'
    BY <1>1 DEF RequestInv, RequestAt
  <2>3. ASSUME NEW w \in Waiter PROVE WaiterAt(w)'
    BY <1>1, <2>1, HomeAssumption DEF RequestInv, WaiterAt
  <2> QED
    BY <1>1, <2>2, <2>3 DEF RequestInv
<1>2. CASE UNCHANGED <<putRequestedFromHome, callback, deq, where, wpc>>
  BY <1>1, <1>2
<1>3. CASE MarkAvailable
  BY <1>1, <1>3 DEF MarkAvailable, TypeOK
<1>4. ASSUME NEW s \in Rank, NEW d \in Rank, PushRemote(s, d) PROVE RequestInv'
  <2>1. UNCHANGED <<putRequestedFromHome, callback, where, wpc>>
    BY <1>4 DEF PushRemote
  <2>2. \A r, e \in Rank : In(deq'[r], Entry("at", e)) => In(deq[r], Entry("at", e))
    <3> DEFINE x == Entry(rput[s][d], d)
    <3>1. /\ \A e : In(deq'[s], e) <=> In(deq[s], e) \/ e = x
          /\ \A q \in Rank : q # s => deq'[q] = deq[q]
      BY <1>4, RemoteEntry, Pushed, SMTT(20)
    <3>2. \A e \in Rank : x # Entry("at", e)
      BY <1>4, RemoteEntry, EntryEq
    <3> QED
      BY <3>1, <3>2
  <2> QED
    BY <1>1, <2>1, <2>2
<1>5. ASSUME NEW r \in Rank, ExecComm(r) PROVE RequestInv'
  <2>1. /\ \A e : In(deq'[r], e) <=> In(deq[r], e) /\ e # Head(deq[r])
        /\ \A q \in Rank : q # r => deq'[q] = deq[q]
        /\ deq[r] # <<>>
    BY <1>5, Popped
  <2>2. \A q, e \in Rank : In(deq'[q], Entry("at", e)) => In(deq[q], Entry("at", e))
    BY <2>1
  <2>3. UNCHANGED <<putRequestedFromHome, where, wpc>>
    BY <1>5 DEF ExecComm
  <2>4. CASE UNCHANGED callback
    BY <1>1, <2>2, <2>3, <2>4
  <2>5. CASE Head(deq[r]).op = "at" /\ callback' = [callback EXCEPT ![r] = "net"]
    <3>1. /\ Head(deq[r]).dst = Home /\ Head(deq[r]) = Entry("at", Home)
          /\ In(deq[r], Entry("at", Home))
      BY <2>1, <2>5, HeadIsIn DEF RequestInv, RequestAt
    <3>2. r # Home /\ putRequestedFromHome[r]
      BY <2>1, <2>5, RequestIsNew
    <3>3. \A d \in Rank : ~In(deq'[r], Entry("at", d))
      BY <2>1, <2>2, <3>1 DEF RequestInv, RequestAt
    <3>4. \A q \in Rank : q # r => callback'[q] = callback[q] /\ deq'[q] = deq[q]
      BY <2>1, <2>5 DEF TypeOK
    <3>5. ASSUME NEW q \in Rank PROVE RequestAt(q)'
      BY <2>3, <3>2, <3>3, <3>4 DEF RequestInv, RequestAt
    <3>6. ASSUME NEW w \in Waiter PROVE WaiterAt(w)'
      <4>1. where[w] \in Rank
        BY DEF TypeOK
      <4>2. wpc[w] = "send" => where[w] # r
        BY <3>1 DEF RequestInv, WaiterAt
      <4> QED
        BY <2>3, <3>4, <4>1, <4>2 DEF RequestInv, WaiterAt
    <3> QED
      BY <2>3, <3>5, <3>6 DEF RequestInv
  <2> QED
    BY <1>5, <2>4, <2>5 DEF ExecComm
<1>6. ASSUME NEW r \in Rank, DDF_PUT_callback(r) \/ PutBack(r) PROVE RequestInv'
  <2>1. /\ UNCHANGED <<putRequestedFromHome, deq, where, wpc>>
        /\ callback[r] # "none"
        /\ \A q \in Rank : q # r => callback'[q] = callback[q]
    BY <1>6 DEF DDF_PUT_callback, PutBack, TypeOK
  <2>2. ASSUME NEW q \in Rank PROVE RequestAt(q)'
    BY <2>1 DEF RequestInv, RequestAt
  <2>3. ASSUME NEW w \in Waiter PROVE WaiterAt(w)'
    <3>1. where[w] \in Rank
      BY DEF TypeOK
    <3> QED
      BY <2>1, <3>1 DEF RequestInv, WaiterAt
  <2> QED
    BY <2>1, <2>2, <2>3 DEF RequestInv
\* A waiter moves without a request.
<1>7. ASSUME NEW w \in Waiter, UNCHANGED <<callback, deq>>,
             \A v \in Waiter \ {w} : wpc'[v] = wpc[v] /\ where'[v] = where[v],
             UNCHANGED putRequestedFromHome,
             wpc'[w] # "send",
             wpc'[w] \in {"get", "request"} => where'[w] # Home
      PROVE  RequestInv'
  <2>1. ASSUME NEW r \in Rank PROVE RequestAt(r)'
    BY <1>7 DEF RequestInv, RequestAt
  <2>2. ASSUME NEW v \in Waiter PROVE WaiterAt(v)'
    BY <1>7 DEF RequestInv, WaiterAt
  <2> QED
    BY <1>7, <2>1, <2>2 DEF RequestInv
<1>8. ASSUME NEW w \in Waiter, CheckGet(w) \/ RunWaiter(w) \/ \E r \in Rank : Await(w, r)
      PROVE  RequestInv'
  <2>1. \A v \in Waiter \ {w} : wpc'[v] = wpc[v] /\ where'[v] = where[v]
    BY <1>8 DEF CheckGet, RunWaiter, Await, StepWaiter, TypeOK
  <2>2. UNCHANGED <<putRequestedFromHome, callback, deq>>
    BY <1>8 DEF CheckGet, RunWaiter, Await
  <2>3. wpc'[w] # "send" /\ (wpc'[w] \in {"get", "request"} => where'[w] # Home)
    BY <1>8 DEF CheckGet, RunWaiter, Await, StepWaiter, TypeOK, RequestInv, WaiterAt
  <2> QED
    BY <1>7, <2>1, <2>2, <2>3
<1>9. ASSUME NEW w \in Waiter, CasRequest(w) PROVE RequestInv'
  <2> DEFINE r == where[w]
  <2>1. /\ UNCHANGED <<callback, deq, where>> /\ r \in Rank /\ r # Home
        /\ \A v \in Waiter \ {w} : wpc'[v] = wpc[v]
        /\ putRequestedFromHome' = [putRequestedFromHome EXCEPT ![r] = TRUE]
    BY <1>9 DEF CasRequest, StepWaiter, TypeOK, RequestInv, WaiterAt
  <2>2. /\ putRequestedFromHome'[r]
        /\ \A q \in Rank : putRequestedFromHome[q] => putRequestedFromHome'[q]
    BY <2>1 DEF TypeOK
  <2>3. wpc'[w] = IF putRequestedFromHome[r] THEN "wait" ELSE "send"
    BY <1>9 DEF CasRequest, StepWaiter, TypeOK
  <2>4. ASSUME NEW q \in Rank PROVE RequestAt(q)'
    BY <2>1, <2>2 DEF RequestInv, RequestAt
  <2>5. ~putRequestedFromHome[r] =>
          /\ callback[r] = "none" /\ ~In(deq[r], Entry("at", Home))
          /\ \A v \in Waiter : wpc[v] = "send" => where[v] # r
    BY <2>1, HomeAssumption DEF RequestInv, RequestAt, WaiterAt
  <2>6. ASSUME NEW v \in Waiter PROVE WaiterAt(v)'
    <3>1. where[v] \in Rank
      BY DEF TypeOK
    <3> QED
      BY <2>1, <2>2, <2>3, <2>5, <3>1 DEF RequestInv, WaiterAt
  <2>7. ASSUME NEW u \in Waiter, NEW v \in Waiter,
               wpc'[u] = "send", wpc'[v] = "send", where[u] = where[v]
        PROVE  u = v
    BY <2>1, <2>3, <2>5, <2>7 DEF RequestInv
  <2> QED
    BY <2>1, <2>4, <2>6, <2>7 DEF RequestInv
<1>10. ASSUME NEW w \in Waiter, SendRequest(w) PROVE RequestInv'
  <2> DEFINE r == where[w]
  <2>1. /\ UNCHANGED <<callback, where>> /\ r \in Rank /\ r # Home
        /\ callback[r] = "none" /\ wpc[w] = "send"
        /\ wpc'[w] = "wait" /\ \A v \in Waiter \ {w} : wpc'[v] = wpc[v]
        /\ putRequestedFromHome' = [putRequestedFromHome EXCEPT ![r] = TRUE]
    BY <1>10 DEF SendRequest, StepWaiter, TypeOK, RequestInv, WaiterAt
  <2>2. /\ putRequestedFromHome'[r]
        /\ \A q \in Rank : putRequestedFromHome[q] => putRequestedFromHome'[q]
    BY <2>1 DEF TypeOK
  <2>3. /\ \A e : In(deq'[r], e) <=> In(deq[r], e) \/ e = Entry("at", Home)
        /\ \A q \in Rank : q # r => deq'[q] = deq[q]
    BY <1>10, RequestEntry, Pushed
  <2>4. ASSUME NEW q \in Rank PROVE RequestAt(q)'
    <3>1. CASE q = r
      <4>1. \A d \in Rank : In(deq'[r], Entry("at", d)) => d = Home
        BY <2>1, <2>3, EntryEq DEF RequestInv, RequestAt
      <4> QED
        BY <2>1, <2>2, <3>1, <4>1 DEF RequestAt
    <3>2. CASE q # r
      BY <2>1, <2>2, <2>3, <3>2 DEF RequestInv, RequestAt
    <3> QED
      BY <3>1, <3>2
  <2>5. ASSUME NEW v \in Waiter PROVE WaiterAt(v)'
    <3>1. where[v] \in Rank
      BY DEF TypeOK
    <3>2. v # w /\ wpc[v] = "send" => where[v] # r
      BY <2>1 DEF RequestInv
    <3> QED
      BY <2>1, <2>2, <2>3, <3>1, <3>2 DEF RequestInv, WaiterAt
  <2> QED
    BY <2>1, <2>4, <2>5 DEF RequestInv
<1> QED
  BY <1>2, <1>3, <1>4, <1>5, <1>6, <1>8, <1>9, <1>10, StepCases
     DEF LocalPut, MarkInitiator, CopyDatum, CopyArrives, ReceivePut, DDF_PUT_home, vars

-----------------------------------------------------------------------------
(* The puts and the datum.                                                 *)

\* What ends at "done" in a table of links.
LEMMA DeliveredSame ==
  ASSUME TypeOK, NEW s \in Rank, NEW d \in Rank, NEW v \in PutStage, v # "done",
         home_put[s][d] \in {"none", "after"},
         home_put' = [home_put EXCEPT ![s][d] = v]
  PROVE  \A t, e \in Rank : home_put'[t][e] = "done" <=> home_put[t][e] = "done"
<1>1. home_put \in [Rank -> [Rank -> PutStage]]
  BY DEF TypeOK, PutStage
<1> HIDE DEF PutStage
<1>2. ASSUME NEW t \in Rank, NEW e \in Rank
      PROVE  home_put'[t][e] = "done" <=> home_put[t][e] = "done"
  <2>1. CASE t = s /\ e = d
    <3>1. home_put'[t][e] = v
      BY <1>1, <2>1
    <3> QED
      BY <2>1, <3>1
  <2>2. CASE t # s
    <3>1. home_put'[t] = home_put[t]
      BY <1>1, <2>2
    <3> QED
      BY <3>1
  <2>3. CASE t = s /\ e # d
    <3>1. home_put'[t][e] = home_put[t][e]
      BY <1>1, <2>3
    <3> QED
      BY <3>1
  <2> QED
    BY <2>1, <2>2, <2>3
<1> QED
  BY <1>2

LEMMA PutStep ==
  ASSUME TypeOK, LinkInv, StageInv, DeqInv, PutInv, [Next]_vars
  PROVE  PutInv'
<1> USE DEF cells, putting, sending, waiting
<1>1. NONE \notin Rank
  BY NAssumption DEF NONE, Rank
<1>2. ASSUME UNCHANGED <<putter, ppc, val, initiator>>,
             \A t, e \in Rank : home_put'[t][e] = "done" <=> home_put[t][e] = "done"
      PROVE  PutInv'
  BY <1>2 DEF PutInv
<1>3. ASSUME NEW p \in Rank, LocalPut(p) PROVE PutInv'
  <2>1. /\ putter = NONE /\ putter' = p /\ ppc' = "initiator" /\ val'[p] = "data"
        /\ UNCHANGED <<initiator, home_put>>
        /\ \A r \in Rank : r # p => val'[r] = val[r]
    BY <1>3 DEF LocalPut, DdfPut, TypeOK
  <2>2. \A s, d \in Rank : home_put[s][d] = "none"
    BY <2>1, NothingYet
  <2>3. \A r \in Rank : val[r] = "null" /\ initiator[r] = NONE
    BY <1>1, <2>1, <2>2, NothingYet DEF PutInv
  <2> QED
    BY <1>1, <2>1, <2>2, <2>3 DEF PutInv
<1>4. CASE MarkInitiator
  <2>1. /\ putter \in Rank /\ ppc = "initiator" /\ ppc' = "copy"
        /\ UNCHANGED <<putter, val, home_put>>
        /\ \A r \in Rank : initiator'[r] = IF r = putter THEN putter ELSE initiator[r]
    BY <1>4 DEF MarkInitiator, TypeOK, PutInv
  <2>2. \A s \in Rank : home_put[s][putter] # "done"
    BY <2>1, LinkUse DEF StageInv, StageAt
  <2> QED
    BY <1>1, <2>1, <2>2 DEF PutInv
<1>5. CASE CopyDatum \/ MarkAvailable
  <2>1. /\ UNCHANGED <<putter, val, initiator, home_put>>
        /\ ppc \notin {"none", "initiator"} /\ ppc' \notin {"none", "initiator"}
    BY <1>5 DEF CopyDatum, MarkAvailable
  <2> QED
    BY <2>1 DEF PutInv
<1>6. ASSUME NEW s \in Rank, NEW d \in Rank, DDF_PUT_home(s, d) PROVE PutInv'
  <2>1. /\ home_put[s][d] = "task" /\ UNCHANGED <<putter, ppc>>
        /\ val'[d] # "null" /\ initiator'[d] = s
        /\ \A r \in Rank : r # d => val'[r] = val[r] /\ initiator'[r] = initiator[r]
    BY <1>1, <1>6 DEF DDF_PUT_home, DdfPut, TypeOK
  <2>2. \A t, e \in Rank : home_put'[t][e] = IF t = s /\ e = d THEN "done" ELSE home_put[t][e]
    <3>1. home_put \in [Rank -> [Rank -> PutStage]]
      BY TableType
    <3>2. home_put' = [home_put EXCEPT ![s][d] = "done"]
      BY <1>6 DEF DDF_PUT_home
    <3> HIDE DEF PutStage
    <3> QED
      BY <3>1, <3>2
  <2>3. \A t \in Rank : home_put[t][d] # "done"
    BY <2>1, LinkUse DEF StageInv, StageAt
  <2>4. val[d] = "null" /\ initiator[d] = NONE /\ d # putter
    BY <2>1, TargetIsNull
  <2> QED
    BY <1>1, <2>1, <2>2, <2>3, <2>4 DEF PutInv
<1>7. ASSUME NEW s \in Rank, NEW d \in Rank, ReceivePut(s, d) PROVE PutInv'
  <2>1. UNCHANGED <<putter, ppc, val, initiator>>
    BY <1>7 DEF ReceivePut
  <2>2. \A t, e \in Rank : home_put'[t][e] = "done" <=> home_put[t][e] = "done"
    <3>1. "task" \in PutStage
      BY DEF PutStage
    <3> QED
      BY <1>7, <3>1, DeliveredSame DEF ReceivePut
  <2> QED
    BY <1>2, <2>1, <2>2
<1>8. ASSUME NEW r \in Rank, ExecComm(r) PROVE PutInv'
  <2>1. UNCHANGED <<putter, ppc, val, initiator>>
    BY <1>8 DEF ExecComm
  <2>2. CASE UNCHANGED home_put
    BY <1>2, <2>1, <2>2
  <2>3. ASSUME Head(deq[r]).op = "after",
               home_put' = [home_put EXCEPT ![r][Head(deq[r]).dst] = "after"]
        PROVE  PutInv'
    <3>1. deq[r] # <<>>
      BY <1>8 DEF ExecComm
    <3>2. PICK d \in Rank : /\ Head(deq[r]).dst = d
                            /\ In(deq[r], Entry("after", d))
      BY <2>3, <3>1, HeadIsIn
    <3>3. home_put[r][d] = "none" /\ home_put' = [home_put EXCEPT ![r][d] = "after"]
      BY <2>3, <3>2 DEF StageInv, StageAt
    <3>4. \A t, e \in Rank : home_put'[t][e] = "done" <=> home_put[t][e] = "done"
      <4>1. "after" \in PutStage
        BY DEF PutStage
      <4> QED
        BY <3>3, <4>1, DeliveredSame
    <3> QED
      BY <1>2, <2>1, <3>4
  <2> QED
    BY <1>8, <2>2, <2>3 DEF ExecComm
<1>9. CASE UNCHANGED <<putter, ppc, val, initiator, home_put>>
  BY <1>2, <1>9
<1>10. \/ UNCHANGED <<putter, ppc, val, initiator, home_put>>
       \/ \E p \in Rank : LocalPut(p)
       \/ MarkInitiator \/ CopyDatum \/ MarkAvailable
       \/ \E s, d \in Rank : ReceivePut(s, d) \/ DDF_PUT_home(s, d)
       \/ \E r \in Rank : ExecComm(r)
  BY StepCases DEF PushRemote, CopyArrives, DDF_PUT_callback, PutBack, CheckGet,
     CasRequest, SendRequest, RunWaiter, Await, vars
<1> QED
  BY <1>3, <1>4, <1>5, <1>6, <1>7, <1>8, <1>9, <1>10

LEMMA DataStep ==
  ASSUME TypeOK, LinkInv, StageInv, DeqInv, PutInv, DataInv, [Next]_vars
  PROVE  DataInv'
<1> USE DEF cells, putting, sending, waiting
<1>1. ASSUME NEW p \in Rank, LocalPut(p) PROVE DataInv'
  <2>1. /\ putter = NONE /\ ppc' = "initiator" /\ val'[p] = "data" /\ UNCHANGED event
        /\ \A r \in Rank : r # p => val'[r] = val[r]
    BY <1>1 DEF LocalPut, DdfPut, TypeOK
  <2>2. /\ \A s, d \in Rank : event[s][d] = "idle"
        /\ \A r \in Rank : val[r] = "null"
    BY <2>1, NothingYet
  <2> QED
    BY <2>1, <2>2 DEF DataInv
<1>2. CASE MarkInitiator \/ MarkAvailable
  <2>1. UNCHANGED <<putter, val, datum, event>> /\ ppc' \in {"flag", "done"} => ppc = "flag"
    BY <1>2 DEF MarkInitiator, MarkAvailable
  <2>2. UNCHANGED <<putter, val, datum, event>>
    BY <1>2 DEF MarkInitiator, MarkAvailable
  <2> QED
    BY <2>1, <2>2 DEF DataInv
<1>3. CASE CopyDatum
  <2>1. putter \in Rank
    BY <1>3 DEF CopyDatum, TypeOK, PutInv
  <2>2. /\ UNCHANGED <<putter, val, event>> /\ datum'[putter] = "data"
        /\ \A r \in Rank : r # putter => datum'[r] = datum[r]
    BY <1>3, <2>1 DEF CopyDatum, TypeOK
  <2> QED
    BY <2>2 DEF DataInv
<1>4. ASSUME NEW s \in Rank, NEW d \in Rank, CopyArrives(s, d) PROVE DataInv'
  <2>1. /\ event[s][d] = "started" /\ UNCHANGED <<putter, ppc, val>>
        /\ datum'[d] = datum[s] /\ \A r \in Rank : r # d => datum'[r] = datum[r]
    BY <1>4 DEF CopyArrives, TypeOK
  <2>2. \A t, e \in Rank : event'[t][e] = IF t = s /\ e = d THEN "done" ELSE event[t][e]
    <3>1. "done" \in EventStage
      BY DEF EventStage
    <3> QED
      BY <1>4, <3>1, EventUpdate, ZenonT(40) DEF CopyArrives
  <2>3. rput[s][d] # "none"
    BY <2>1 DEF StageInv, StageAt
  <2>4. d # putter /\ putter \in Rank /\ Uses(s, d)
    BY <2>3, LinkUse DEF LinkInv
  <2>5. putter # Home => datum[s] = "data"
    <3>1. CASE s = putter /\ d = Home /\ ppc = "done"
      BY <3>1 DEF DataInv
    <3>2. CASE s = Home /\ val[Home] # "null"
      BY <2>4, <3>2, HomeWasPut, HomeAssumption DEF DataInv
    <3> QED
      BY <2>4, <3>1, <3>2 DEF Uses
  <2> QED
    BY <2>1, <2>2, <2>4, <2>5 DEF DataInv
<1>5. ASSUME NEW s \in Rank, NEW d \in Rank, DDF_PUT_home(s, d) PROVE DataInv'
  <2>1. /\ home_put[s][d] = "task" /\ UNCHANGED <<putter, ppc, datum, event>>
        /\ val'[d] = datum[d] /\ \A r \in Rank : r # d => val'[r] = val[r]
    BY <1>5 DEF DDF_PUT_home, DdfPut, TypeOK
  <2>2. event[s][d] = "done"
    BY <2>1 DEF StageInv, StageAt
  <2> QED
    BY <2>1, <2>2 DEF DataInv
<1>6. ASSUME NEW r \in Rank, ExecComm(r) PROVE DataInv'
  <2>1. UNCHANGED <<putter, ppc, val, datum>>
    BY <1>6 DEF ExecComm
  <2>2. PICK d \in Rank : UNCHANGED event \/ event' = [event EXCEPT ![r][d] = "started"]
    BY <1>6, HeadIsIn DEF ExecComm
  <2>3. "started" \in EventStage
    BY DEF EventStage
  <2>4. \A t, e \in Rank : event'[t][e] = event[t][e] \/ event'[t][e] = "started"
    BY <2>2, <2>3, EventUpdate
  <2> QED
    BY <2>1, <2>4 DEF DataInv
<1>7. CASE UNCHANGED <<putter, ppc, val, datum, event>>
  BY <1>7 DEF DataInv
<1>8. \/ UNCHANGED <<putter, ppc, val, datum, event>>
      \/ \E p \in Rank : LocalPut(p)
      \/ MarkInitiator \/ CopyDatum \/ MarkAvailable
      \/ \E s, d \in Rank : CopyArrives(s, d) \/ DDF_PUT_home(s, d)
      \/ \E r \in Rank : ExecComm(r)
  BY StepCases DEF PushRemote, ReceivePut, DDF_PUT_callback, PutBack, CheckGet,
     CasRequest, SendRequest, RunWaiter, Await, vars
<1> QED
  BY <1>1, <1>2, <1>3, <1>4, <1>5, <1>6, <1>7, <1>8

LEMMA NoFailStep ==
  ASSUME TypeOK, LinkInv, StageInv, PutInv, ~failed, [Next]_vars
  PROVE  ~failed'
<1> USE DEF cells, putting, sending, waiting
<1>1. ASSUME NEW p \in Rank, LocalPut(p) PROVE ~failed'
  BY <1>1, NothingYet DEF LocalPut, DdfPut
<1>2. CASE MarkInitiator
  <2>1. putter \in Rank /\ ppc = "initiator"
    BY <1>2 DEF MarkInitiator, TypeOK, PutInv
  <2>2. \A s \in Rank : home_put[s][putter] # "done"
    BY <2>1, LinkUse DEF StageInv, StageAt
  <2>3. initiator[putter] = NONE
    BY <2>1, <2>2 DEF PutInv
  <2> QED
    BY <1>2, <2>3 DEF MarkInitiator
<1>3. ASSUME NEW s \in Rank, NEW d \in Rank, DDF_PUT_home(s, d) PROVE ~failed'
  <2>1. val[d] = "null" /\ initiator[d] = NONE
    BY <1>3, TargetIsNull DEF DDF_PUT_home
  <2> QED
    BY <1>3, <2>1 DEF DDF_PUT_home, DdfPut
<1>4. CASE UNCHANGED failed
  BY <1>4
<1> QED
  BY <1>1, <1>2, <1>3, <1>4, StepCases DEF CopyDatum, MarkAvailable, PushRemote,
     CopyArrives, ReceivePut, ExecComm, DDF_PUT_callback, PutBack, CheckGet, CasRequest,
     SendRequest, RunWaiter, Await, vars

-----------------------------------------------------------------------------
(* The theorems.                                                           *)

LEMMA InitInv == Init => IInv
<1> SUFFICES ASSUME Init PROVE IInv
  OBVIOUS
<1>1. NONE \notin Rank
  BY NAssumption DEF NONE, Rank
<1>2. TypeOK
  <2>1. /\ val \in [Rank -> Value] /\ datum \in [Rank -> Value \ {"null"}]
        /\ putRequestedFromHome \in [Rank -> BOOLEAN]
        /\ initiator \in [Rank -> Rank \cup {NONE}]
    BY DEF Init, Value
  <2>2. failed \in BOOLEAN /\ putter \in Rank \cup {NONE} /\ ppc = "none"
    BY DEF Init
  <2>3. rput \in [Rank -> [Rank -> {"none", "copy", "after", "pushed"}]]
    BY DEF Init
  <2>4. event \in [Rank -> [Rank -> {"idle", "started", "done"}]]
    BY DEF Init
  <2>5. home_put \in [Rank -> [Rank -> {"none", "after", "task", "done"}]]
    BY DEF Init
  <2>6. callback \in [Rank -> {"none", "net", "await", "done"}]
    BY DEF Init
  <2>7. <<>> \in Seq([op : {"copy", "after", "at"}, dst : Rank])
    OBVIOUS
  <2>8. deq \in [Rank -> Seq([op : {"copy", "after", "at"}, dst : Rank])]
    <3> DEFINE Tasks == Seq([op : {"copy", "after", "at"}, dst : Rank])
    <3>1. deq = [r \in Rank |-> <<>>] /\ <<>> \in Tasks
      BY <2>7 DEF Init
    <3> HIDE DEF Tasks
    <3>2. deq \in [Rank -> Tasks]
      BY <3>1
    <3> QED
      BY <3>2 DEF Tasks
  <2>9. where \in [Waiter -> Rank]
    BY HomeAssumption DEF Init
  <2>10. wpc \in [Waiter -> {"new", "get", "request", "send", "wait", "ran"}]
    BY DEF Init
  <2> QED
    BY <2>1, <2>2, <2>3, <2>4, <2>5, <2>6, <2>8, <2>9, <2>10 DEF TypeOK
<1>3. \A r \in Rank : deq[r] = <<>> /\ Len(deq[r]) = 0
  BY DEF Init
<1>4. \A r \in Rank : \A e : ~In(deq[r], e)
  BY <1>3 DEF In
<1>5. LinkInv /\ StageInv
  BY <1>4 DEF Init, LinkInv, StageInv, StageAt
<1>6. DeqInv
  BY <1>3 DEF DeqInv, Unique, Ordered
<1>7. RequestInv
  BY <1>4 DEF Init, RequestInv, RequestAt, WaiterAt
<1>8. PutInv /\ DataInv
  BY <1>1 DEF Init, PutInv, DataInv
<1> QED
  BY <1>2, <1>5, <1>6, <1>7, <1>8 DEF IInv, Init

LEMMA StepInv == IInv /\ [Next]_vars => IInv'
<1> SUFFICES ASSUME IInv, [Next]_vars PROVE IInv'
  OBVIOUS
<1> USE DEF IInv
<1>1. TypeOK'
  BY TypeStep
<1>2. LinkInv' /\ StageInv' /\ DeqInv'
  BY LinkStep, StageStep, DeqStep
<1>3. RequestInv' /\ PutInv' /\ DataInv'
  BY RequestStep, PutStep, DataStep
<1>4. ~failed'
  BY NoFailStep
<1> QED
  BY <1>1, <1>2, <1>3, <1>4

\* The inductive invariant of a DDDF.
THEOREM DddfInvariant == Spec => []IInv
BY InitInv, StepInv, PTL DEF Spec

\* Every variable of the future keeps its type.
THEOREM DddfTypes == Spec => []TypeOK
<1>1. IInv => TypeOK
  BY DEF IInv
<1> QED
  BY <1>1, DddfInvariant, PTL

\* No rank's future is put twice and no assertion on put_initiator_rank fails
\* (DDF_PUT, DDF_PUT_home), whoever puts and whoever asks meanwhile.
THEOREM PutsAreSingle == Spec => []SingleAssignment
<1>1. IInv => SingleAssignment
  BY DEF IInv, SingleAssignment
<1> QED
  BY <1>1, DddfInvariant, PTL

\* A put that starts away from home reaches every rank with its datum
\* (DDF_PUT_remote).
THEOREM RemotePutsAreComplete == Spec => []RemotePutIsComplete
<1>1. IInv => RemotePutIsComplete
  BY DEF IInv, DataInv, RemotePutIsComplete
<1> QED
  BY <1>1, DddfInvariant, PTL

-----------------------------------------------------------------------------
(* The future implements SharedFuture.                                     *)

\* A rank has asked its home only because a task on it awaits the future.
Awaits(r) == \E w \in Waiter : where[w] = r /\ wpc[w] \in {"wait", "ran"}
AskInv ==
  \A r \in Rank : callback[r] # "none" \/ In(deq[r], Entry("at", Home)) => Awaits(r)

RInv == IInv /\ AskInv

Ready == {r \in Rank : val[r] # "null"}
Phase == [w \in Waiter |-> IF wpc[w] \in {"new", "ran"} THEN wpc[w] ELSE "waiting"]

LEMMA AskInit == Init => AskInv
<1> SUFFICES ASSUME Init, NEW r \in Rank
             PROVE  callback[r] = "none" /\ ~In(deq[r], Entry("at", Home))
  BY DEF AskInv
<1>1. callback[r] = "none" /\ deq[r] = <<>> /\ Len(deq[r]) = 0
  BY DEF Init
<1> QED
  BY <1>1 DEF In

\* A task that awaits the future does so until it runs, where it is.
LEMMA AwaitsStays ==
  ASSUME TypeOK, [Next]_vars, NEW r \in Rank, Awaits(r)
  PROVE  Awaits(r)'
<1>1. PICK w \in Waiter : where[w] = r /\ wpc[w] \in {"wait", "ran"}
  BY DEF Awaits
<1>2. ASSUME NEW v \in Waiter, \/ CheckGet(v) \/ CasRequest(v) \/ SendRequest(v)
                               \/ RunWaiter(v) \/ \E q \in Rank : Await(v, q)
      PROVE  where'[w] = r /\ wpc'[w] \in {"wait", "ran"}
  <2>1. CASE v = w
    BY <1>1, <1>2, <2>1 DEF CheckGet, CasRequest, SendRequest, RunWaiter, Await,
       StepWaiter, TypeOK
  <2>2. CASE v # w
    BY <1>1, <1>2, <2>2 DEF CheckGet, CasRequest, SendRequest, RunWaiter, Await,
       StepWaiter, TypeOK
  <2> QED
    BY <2>1, <2>2
<1>3. ASSUME UNCHANGED <<where, wpc>>
      PROVE  where'[w] = r /\ wpc'[w] \in {"wait", "ran"}
  BY <1>1, <1>3
<1>4. where'[w] = r /\ wpc'[w] \in {"wait", "ran"}
  BY <1>2, <1>3, StepCases DEF LocalPut, MarkInitiator, CopyDatum, MarkAvailable,
     PushRemote, CopyArrives, ReceivePut, DDF_PUT_home, ExecComm, DDF_PUT_callback,
     PutBack, vars, waiting
<1> QED
  BY <1>4 DEF Awaits

LEMMA AskStep ==
  ASSUME IInv, AskInv, [Next]_vars
  PROVE  AskInv'
<1> DEFINE at == Entry("at", Home)
<1> USE DEF IInv
<1>1. SUFFICES ASSUME NEW r \in Rank, callback'[r] # "none" \/ In(deq'[r], at)
               PROVE  Awaits(r)'
  BY DEF AskInv, In, Entry
<1>2. CASE Awaits(r)
  BY <1>2, AwaitsStays
<1>3. CASE ~Awaits(r)
  <2>1. callback[r] = "none" /\ ~In(deq[r], at)
    BY <1>3 DEF AskInv
  <2>2. CASE In(deq'[r], at)
    <3>1. ASSUME NEW s \in Rank, NEW d \in Rank, PushRemote(s, d) PROVE FALSE
      <4>1. at # Entry(rput[s][d], d)
        BY <3>1, RemoteEntry, EntryEq
      <4>2. \A e : In(deq'[s], e) <=> In(deq[s], e) \/ e = Entry(rput[s][d], d)
        BY <3>1, RemoteEntry, Pushed
      <4>3. \A q \in Rank : q # s => deq'[q] = deq[q]
        BY <3>1, RemoteEntry, Pushed
      <4> HIDE DEF at
      <4>4. In(deq'[r], at) => In(deq[r], at)
        <5>1. CASE r = s
          BY <4>1, <4>2, <5>1
        <5>2. CASE r # s
          BY <4>3, <5>2
        <5> QED
          BY <5>1, <5>2
      <4> QED
        BY <2>1, <2>2, <4>4
    <3>2. ASSUME NEW q \in Rank, ExecComm(q) PROVE FALSE
      <4>1. In(deq'[r], at) => In(deq[r], at)
        BY <3>2, Popped
      <4> QED
        BY <2>1, <2>2, <4>1
    <3>3. ASSUME NEW w \in Waiter, SendRequest(w) PROVE Awaits(r)'
      <4>1. where[w] = r
        BY <2>1, <2>2, <3>3, RequestEntry, Pushed
      <4>2. where' = where /\ wpc' = [wpc EXCEPT ![w] = "wait"]
        BY <3>3 DEF SendRequest, StepWaiter
      <4> QED
        BY <4>1, <4>2 DEF Awaits, TypeOK
    <3>4. ~UNCHANGED deq
      BY <2>1, <2>2
    <3> QED
      BY <3>1, <3>2, <3>3, <3>4, DeqCases
  <2>3. CASE callback'[r] # "none"
    <3>1. ASSUME NEW q \in Rank, ExecComm(q) PROVE FALSE
      <4>1. CASE Head(deq[q]).op = "at" /\ callback' = [callback EXCEPT ![q] = "net"]
        <5>1. q = r
          BY <2>1, <2>3, <4>1 DEF TypeOK
        <5>2. In(deq[r], Entry("at", Head(deq[r]).dst)) /\ Head(deq[r]).dst \in Rank
          BY <3>1, <4>1, <5>1, HeadIsIn DEF ExecComm
        <5>3. Head(deq[r]).dst = Home
          BY <5>2 DEF RequestInv, RequestAt
        <5> QED
          BY <2>1, <5>2, <5>3
      <4>2. CASE UNCHANGED callback
        BY <2>1, <2>3, <4>2
      <4> QED
        BY <3>1, <4>1, <4>2 DEF ExecComm
    <3>2. ASSUME NEW q \in Rank, DDF_PUT_callback(q) \/ PutBack(q) PROVE FALSE
      BY <2>1, <2>3, <3>2 DEF DDF_PUT_callback, PutBack, TypeOK
    <3>3. ~UNCHANGED callback
      BY <2>1, <2>3
    <3> QED
      BY <3>1, <3>2, <3>3, StepCases DEF LocalPut, MarkInitiator, CopyDatum,
         MarkAvailable, PushRemote, CopyArrives, ReceivePut, DDF_PUT_home, CheckGet,
         CasRequest, SendRequest, RunWaiter, Await, vars, sending
  <2> QED
    BY <1>1, <2>2, <2>3
<1> QED
  BY <1>2, <1>3

LEMMA RefineInit == Init => Future!Init
<1> SUFFICES ASSUME Init PROVE Future!Init
  OBVIOUS
<1>1. Ready = {}
  BY DEF Init, Ready
<1>2. Phase = [w \in Waiter |-> "new"]
  BY DEF Init, Phase
<1>3. where \in [Waiter -> Rank]
  BY HomeAssumption DEF Init
<1> QED
  BY <1>1, <1>2, <1>3 DEF Future!Init, Ready, Phase

\* The put of the program: nothing is ready before.
LEMMA PutMaps ==
  ASSUME RInv, NEW p \in Rank, LocalPut(p)
  PROVE  Future!Put(p)
<1> USE DEF RInv, IInv
<1>1. putter = NONE /\ p \in Putters /\ UNCHANGED <<where, wpc>>
      /\ val' = [val EXCEPT ![p] = "data"]
  BY DEF LocalPut, DdfPut, waiting
<1>2. \A r \in Rank : val[r] = "null"
  BY <1>1, NothingYet
<1>3. \A r \in Rank : val'[r] = IF r = p THEN "data" ELSE "null"
  BY <1>1, <1>2 DEF TypeOK
<1>4. Ready = {} /\ Ready' = {p}
  BY <1>2, <1>3 DEF Ready
<1>5. Phase' = Phase
  BY <1>1 DEF Phase
<1> QED
  BY <1>1, <1>4, <1>5 DEF Future!Put, Ready, Phase

\* A put task: at the home it comes from the putter, while only that rank is
\* ready; at another rank it comes from the home, which was asked.
LEMMA ArrivalMaps ==
  ASSUME RInv, NEW s \in Rank, NEW d \in Rank, DDF_PUT_home(s, d)
  PROVE  Future!Bring \/ Future!Forward(d)
<1> USE DEF RInv, IInv
<1>1. /\ home_put[s][d] = "task" /\ UNCHANGED <<where, wpc>>
      /\ val' = [val EXCEPT ![d] = datum[d]] /\ datum[d] # "null"
  BY DEF DDF_PUT_home, DdfPut, waiting, TypeOK
<1>2. val[d] = "null" /\ d # putter
  BY <1>1, TargetIsNull
<1>3. \A r \in Rank : val'[r] = IF r = d THEN datum[d] ELSE val[r]
  BY <1>1 DEF TypeOK
<1>4. d \notin Ready /\ Ready' = Ready \cup {d}
  BY <1>1, <1>2, <1>3 DEF Ready
<1>5. Phase' = Phase
  BY <1>1 DEF Phase
<1>6. rput[s][d] # "none" /\ Uses(s, d)
  BY <1>1 DEF StageInv, StageAt, LinkInv
<1>7. putter \in Rank
  BY <1>6, LinkUse
<1>8. CASE s = putter /\ d = Home
  <2>1. ASSUME NEW r \in Rank, val[r] # "null" PROVE r = putter
    <3>1. SUFFICES ASSUME r # putter PROVE FALSE
      OBVIOUS
    <3>2. PICK t \in Rank : home_put[t][r] = "done"
      BY <2>1, <3>1 DEF PutInv
    <3>3. rput[t][r] # "none"
      BY <3>2 DEF StageInv, StageAt
    <3>4. r # Home /\ val[Home] # "null"
      BY <1>2, <1>8, <2>1, <3>3 DEF LinkInv, Uses
    <3> QED
      BY <1>2, <1>8, <3>4
  <2>2. val[putter] # "null"
    BY <1>7 DEF PutInv
  <2>3. Ready = {putter}
    BY <1>7, <2>1, <2>2 DEF Ready
  <2>4. Future!Bring
    BY <1>1, <1>4, <1>5, <1>7, <1>8, <2>3 DEF Future!Bring, Ready, Phase
  <2> QED
    BY <2>4
<1>9. CASE ~(s = putter /\ d = Home)
  <2>1. val[Home] # "null" /\ callback[d] = "done"
    BY <1>6, <1>9 DEF Uses
  <2>2. PICK w \in Waiter : where[w] = d /\ wpc[w] \in {"wait", "ran"}
    BY <2>1 DEF AskInv, Awaits
  <2>3. Phase[w] # "new"
    BY <2>2 DEF Phase
  <2>4. Home \in Ready
    BY <2>1, HomeAssumption DEF Ready
  <2>5. Future!Forward(d)
    BY <1>1, <1>4, <1>5, <2>2, <2>3, <2>4 DEF Future!Forward, Ready, Phase
  <2> QED
    BY <2>5
<1> QED
  BY <1>8, <1>9

LEMMA WaiterMaps ==
  ASSUME RInv, NEW w \in Waiter,
         \/ CheckGet(w) \/ CasRequest(w) \/ SendRequest(w)
         \/ RunWaiter(w) \/ \E r \in Rank : Await(w, r)
  PROVE  \/ UNCHANGED Future!vars
         \/ Future!Run(w) \/ \E r \in Rank : Future!Await(w, r)
<1> USE DEF RInv, IInv
<1>1. Ready' = Ready
  BY DEF CheckGet, CasRequest, SendRequest, RunWaiter, Await, cells, Ready
<1>2. ASSUME NEW r \in Rank, Await(w, r) PROVE Future!Await(w, r)
  <2>1. /\ wpc[w] = "new" /\ where' = [where EXCEPT ![w] = r]
        /\ \E k \in {"wait", "get"} : wpc' = [wpc EXCEPT ![w] = k]
    BY <1>2 DEF Await
  <2>2. Phase[w] = "new" /\ Phase' = [Phase EXCEPT ![w] = "waiting"]
    BY <2>1 DEF Phase, TypeOK
  <2> QED
    BY <1>1, <2>1, <2>2 DEF Future!Await, Ready, Phase
<1>3. CASE RunWaiter(w)
  <2>1. /\ wpc[w] = "wait" /\ val[where[w]] # "null" /\ UNCHANGED where
        /\ wpc' = [wpc EXCEPT ![w] = "ran"] /\ where[w] \in Rank
    BY <1>3 DEF RunWaiter, StepWaiter, TypeOK
  <2>2. Phase[w] = "waiting" /\ Phase' = [Phase EXCEPT ![w] = "ran"]
    BY <2>1 DEF Phase, TypeOK
  <2>3. where[w] \in Ready
    BY <2>1 DEF Ready
  <2> QED
    BY <1>1, <2>1, <2>2, <2>3 DEF Future!Run, Ready, Phase
<1>4. CASE CheckGet(w) \/ CasRequest(w) \/ SendRequest(w)
  <2>1. /\ wpc[w] \in {"get", "request", "send"} /\ UNCHANGED where
        /\ \E k \in {"wait", "request", "send"} : wpc' = [wpc EXCEPT ![w] = k]
    BY <1>4 DEF CheckGet, CasRequest, SendRequest, StepWaiter
  <2>2. Phase' = Phase
    BY <2>1 DEF Phase, TypeOK
  <2> QED
    BY <1>1, <2>1, <2>2 DEF Future!vars, Ready, Phase
<1> QED
  BY <1>2, <1>3, <1>4

LEMMA RefineStep == RInv /\ [Next]_vars => [Future!Next]_Future!vars
<1> SUFFICES ASSUME RInv, [Next]_vars PROVE [Future!Next]_Future!vars
  OBVIOUS
<1>1. ASSUME NEW p \in Rank, LocalPut(p) PROVE Future!Next
  BY <1>1, PutMaps DEF Future!Next
<1>2. ASSUME NEW s \in Rank, NEW d \in Rank, DDF_PUT_home(s, d) PROVE Future!Next
  BY <1>2, ArrivalMaps DEF Future!Next
<1>3. ASSUME NEW w \in Waiter, \/ CheckGet(w) \/ CasRequest(w) \/ SendRequest(w)
                               \/ RunWaiter(w) \/ \E r \in Rank : Await(w, r)
      PROVE  [Future!Next]_Future!vars
  BY <1>3, WaiterMaps DEF Future!Next
<1>4. CASE UNCHANGED <<val, where, wpc>>
  BY <1>4 DEF Future!vars
<1> QED
  BY <1>1, <1>2, <1>3, <1>4, StepCases DEF MarkInitiator, CopyDatum, MarkAvailable,
     PushRemote, CopyArrives, ReceivePut, ExecComm, DDF_PUT_callback, PutBack, vars,
     cells, waiting

\* Requests, copies and put tasks implement a future that is put once, goes to
\* its home and from there to ranks that await it, and runs each task once.
THEOREM FutureIsImplemented == Spec => ImplementsFuture
<1>1. Init => RInv
  BY InitInv, AskInit DEF RInv
<1>2. RInv /\ [Next]_vars => RInv'
  BY StepInv, AskStep DEF RInv
<1> QED
  BY <1>1, <1>2, RefineInit, RefineStep, PTL
     DEF Spec, ImplementsFuture, Future!Spec
=============================================================================
