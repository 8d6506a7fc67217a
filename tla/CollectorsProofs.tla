-------------------------- MODULE CollectorsProofs --------------------------
(***************************************************************************)
(* Proofs about Collectors, for any set of clients and any options.        *)
(*                                                                         *)
(* The safety properties are not inductive by themselves.  IInv adds what  *)
(* the code relies on without saying so: the request queue is FIFO, a      *)
(* collector is asked to be monitored once, and only sessions in the list  *)
(* are asked to be removed with their event source.                        *)
(***************************************************************************)
EXTENDS Collectors, TLAPS, SequenceTheorems, FiniteSetTheorems

\* A client that waits to be accepted has no collector object yet.
BacklogFresh ==
  \A c \in backlog :
    /\ c \notin loop /\ c \notin active
    /\ \A i \in DOMAIN smQueue : smQueue[i].collector # c

\* The request to monitor c is queued at most once, and before anything that
\* depends on c being in the list.
MonitorOnce ==
  \A c \in Collector :
    /\ \A i, j \in DOMAIN smQueue :
         smQueue[i] = MonitorCollector(c) /\ smQueue[j] = MonitorCollector(c)
           => i = j
    /\ Queued(MonitorCollector(c)) =>
         c \notin active /\ ~Queued(RemoveCollector(c, {"WithEventSource"}))

\* A removal that leaves the source alone is queued only once it is gone.
LiveNotFinalized == \A c \in loop : ~Queued(RemoveCollector(c, {}))

\* The wake lock that the program believes in is that of the kernel.
LockAgrees ==
  /\ kernelLock = wakeLock
  /\ kernelLock => TCPActiveWakeLock /\ WakeLockSysfs

\* What the queue promises about the sessions.
QueueInv ==
  BacklogFresh /\ MonitorOnce /\ LiveNotFinalized /\ DeadCollectorsLeave
    /\ SessionsMonitored

\* The wake lock follows the sessions.
LockInv == LockAgrees /\ WakeLockCurrent

\* The inductive invariant.
IInv == TypeOK /\ QueueInv /\ CounterCountsSessions /\ LockInv

-----------------------------------------------------------------------------
(* Sequences: a queue after its head was taken, d = 1, or not, d = 0, and t *)
(* was pushed.                                                              *)

\* r is q without its first d requests, and then t.
Pushed(q, d, t, r) ==
  /\ Len(q) \in Nat /\ Len(t) \in Nat /\ d <= Len(q)
  /\ DOMAIN q = 1..Len(q) /\ DOMAIN t = 1..Len(t)
  /\ DOMAIN r = 1..(Len(q) - d + Len(t))
  /\ \A i \in 1..(Len(q) - d) : r[i] = q[i + d]
  /\ \A i \in 1..Len(t) : r[Len(q) - d + i] = t[i]

\* A push appends and takes nothing.
LEMMA PushOnly ==
  ASSUME NEW S, NEW q \in Seq(S), NEW t \in Seq(S)
  PROVE  q \o t \in Seq(S) /\ Pushed(q, 0, t, q \o t)
BY DEF Pushed

\* A handler takes the head and appends what it pushes.
LEMMA PopAndPush ==
  ASSUME NEW S, NEW q \in Seq(S), q # <<>>, NEW t \in Seq(S)
  PROVE  /\ Head(q) \in S /\ q[1] = Head(q) /\ 1 \in DOMAIN q
         /\ Tail(q) \o t \in Seq(S) /\ Pushed(q, 1, t, Tail(q) \o t)
BY DEF Pushed

\* The requests the code builds are requests.
LEMMA RequestTypes ==
  ASSUME NEW c \in Collector
  PROVE  /\ MonitorCollector(c) \in Request
         /\ UpdateWakeLock(c) \in Request
         /\ \A b \in SUBSET {"WithEventSource"} : RemoveCollector(c, b) \in Request
BY DEF Request

\* The three requests differ, and carry the collector they are about.
LEMMA RequestFields ==
  /\ \A c : /\ MonitorCollector(c).action = "MonitorCollector"
            /\ MonitorCollector(c).collector = c
            /\ UpdateWakeLock(c).action = "UpdateWakeLock"
            /\ UpdateWakeLock(c).collector = c
  /\ \A c, b : /\ RemoveCollector(c, b).action = "RemoveCollector"
               /\ RemoveCollector(c, b).collector = c
               /\ RemoveCollector(c, b).args = b
BY DEF MonitorCollector, UpdateWakeLock, RemoveCollector

\* A request is one of the three, with the collector it carries.
LEMMA RequestForms ==
  ASSUME NEW rq \in Request
  PROVE  /\ rq.collector \in Collector
         /\ rq.action = "MonitorCollector" => rq = MonitorCollector(rq.collector)
         /\ rq.action = "RemoveCollector" =>
              /\ rq.args = {} \/ rq.args = {"WithEventSource"}
              /\ rq = RemoveCollector(rq.collector, rq.args)
         /\ rq.action = "UpdateWakeLock" => rq = UpdateWakeLock(rq.collector)
<1>1. \A a \in SUBSET {"WithEventSource"} : a = {} \/ a = {"WithEventSource"}
  OBVIOUS
<1>2. CASE \E c \in Collector : rq = MonitorCollector(c)
  BY <1>2 DEF MonitorCollector
<1>3. CASE \E c \in Collector : \E a \in SUBSET {"WithEventSource"} :
             rq = RemoveCollector(c, a)
  BY <1>1, <1>3 DEF RemoveCollector
<1>4. CASE \E c \in Collector : rq = UpdateWakeLock(c)
  BY <1>4 DEF UpdateWakeLock
<1>5. QED  BY <1>2, <1>3, <1>4 DEF Request

\* Only updates of the wake lock are pushed for the list, one for a TCP session.
LEMMA WakeLockRequestsShape ==
  ASSUME NEW c \in Collector
  PROVE  /\ WakeLockRequests(c) \in Seq(Request)
         /\ \A i \in DOMAIN WakeLockRequests(c) :
              WakeLockRequests(c)[i] = UpdateWakeLock(c)
         /\ c \in TCP => 1 \in DOMAIN WakeLockRequests(c)
BY RequestTypes DEF WakeLockRequests

\* A finalize callback pushes one removal, without the event source.
LEMMA FinalizeRequestsShape ==
  ASSUME NEW c \in Collector
  PROVE  /\ FinalizeRequests(c) \in Seq(Request)
         /\ Len(FinalizeRequests(c)) = 1
         /\ FinalizeRequests(c)[1] = RemoveCollector(c, {})
<1>1. RemoveCollector(c, {}) \in Request
  BY RequestTypes
<1>2. \A r \in Request : <<r>> \in Seq(Request) /\ Len(<<r>>) = 1 /\ <<r>>[1] = r
  OBVIOUS
<1>3. QED  BY <1>1, <1>2 DEF FinalizeRequests

\* What the end of a monitored session pushes, when the finalize callback runs.
LEMMA BothRequestsShape ==
  ASSUME NEW c \in Collector,
         NEW t, t = FinalizeRequests(c) \o WakeLockRequests(c)
  PROVE  /\ t \in Seq(Request)
         /\ 1 \in DOMAIN t /\ t[1] = RemoveCollector(c, {})
         /\ \A i \in DOMAIN t : t[i] \in {RemoveCollector(c, {}), UpdateWakeLock(c)}
         /\ c \in TCP => \E i \in DOMAIN t : t[i] = UpdateWakeLock(c)
<1> DEFINE f == FinalizeRequests(c)
           w == WakeLockRequests(c)
<1>1. f \in Seq(Request) /\ Len(f) = 1 /\ f[1] = RemoveCollector(c, {})
  BY FinalizeRequestsShape
<1>2. /\ w \in Seq(Request)
      /\ \A i \in DOMAIN w : w[i] = UpdateWakeLock(c)
      /\ c \in TCP => 1 \in DOMAIN w
  BY WakeLockRequestsShape
<1>3. t \in Seq(Request) /\ Pushed(f, 0, w, t)
  BY <1>1, <1>2, PushOnly
<1> HIDE DEF f, w
<1>4. /\ Len(w) \in Nat /\ DOMAIN w = 1..Len(w) /\ DOMAIN t = 1..(1 + Len(w))
      /\ t[1] = f[1]
      /\ \A i \in 1..Len(w) : t[1 + i] = w[i]
  <2>1. Len(f) - 0 = 1 /\ Len(f) - 0 + Len(w) = 1 + Len(w) /\ Len(w) \in Nat
    BY <1>1, <1>2
  <2>2. 1 \in 1..(Len(f) - 0) /\ 1 + 0 = 1
    BY <2>1
  <2>3. QED  BY <1>3, <2>1, <2>2 DEF Pushed
<1>5. ASSUME NEW i \in DOMAIN t, i # 1
      PROVE  t[i] = UpdateWakeLock(c)
  <2>1. i - 1 \in DOMAIN w /\ t[1 + (i - 1)] = w[i - 1] /\ 1 + (i - 1) = i
    BY <1>4, <1>5
  <2>2. QED  BY <2>1, <1>2
<1>6. c \in TCP => 2 \in DOMAIN t /\ t[2] = UpdateWakeLock(c)
  BY <1>2, <1>4
<1>7. 1 \in DOMAIN t /\ t[1] = RemoveCollector(c, {})
  BY <1>1, <1>4
<1>8. \A i \in DOMAIN t : t[i] \in {RemoveCollector(c, {}), UpdateWakeLock(c)}
  BY <1>5, <1>7
<1>9. QED  BY <1>3, <1>6, <1>7, <1>8

\* The removals the timer pushes, in whatever order it meets the collectors.
LEMMA TimerRequestsShape ==
  ASSUME NEW late \in SUBSET Collector, NEW order \in SetToSeqs(late)
  PROVE  /\ Removals(order) \in Seq(Request)
         /\ \A i \in DOMAIN Removals(order) : \E c \in late :
              Removals(order)[i] = RemoveCollector(c, {"WithEventSource"})
<1> DEFINE n == Cardinality(late)
<1>1. n \in Nat
  BY FS_Subset, FS_CardinalityType, CollectorsAssumption
<1>2. order \in [1..n -> late]
  BY DEF SetToSeqs
<1> HIDE DEF n
<1>3. \A i \in 1..n : order[i] \in late
  BY <1>2
<1>4. \A i \in 1..n : RemoveCollector(order[i], {"WithEventSource"}) \in Request
  BY <1>3, RequestTypes
<1>5. /\ Removals(order) \in [1..n -> Request]
      /\ \A i \in 1..n : Removals(order)[i] = RemoveCollector(order[i], {"WithEventSource"})
  BY <1>2, <1>4 DEF Removals
<1>6. Removals(order) \in Seq(Request)
  BY <1>1, <1>5, SeqDef
<1>7. DOMAIN Removals(order) = 1..n
  BY <1>5
<1>8. QED  BY <1>3, <1>5, <1>6, <1>7

-----------------------------------------------------------------------------
(* Type correctness *)

\* How many of the first n messages are data requests is a number.
LEMMA DataRequestsIsNat ==
  ASSUME NEW n \in Nat, NEW c
  PROVE  DataRequests(c, n) \in Nat
<1>1. IsFiniteSet(1..n)
  BY FS_Interval
<1>2. IsFiniteSet({i \in 1..n : inbox[c][i] = "Get"})
  BY <1>1, FS_Subset
<1>3. QED  BY <1>2, FS_CardinalityType DEF DataRequests

\* The constructors give every variable its type.
LEMMA InitTypeOK == Init => TypeOK
<1> SUFFICES ASSUME Init
             PROVE  TypeOK
  OBVIOUS
<1>1. SessionTypeOK
  <2>1. <<>> \in Seq(Message)
    OBVIOUS
  <2>2. QED  BY <2>1, CollectorsAssumption DEF Init, SessionTypeOK
<1>2. LockTypeOK
  BY DEF Init, LockTypeOK
<1>3. QED  BY <1>1, <1>2 DEF TypeOK

\* The counter of TCP sessions stays an unsigned short.
LEMMA CounterTypes ==
  ASSUME NEW n \in 0..UShortMax
  PROVE  inc(n) \in 0..UShortMax /\ dec(n) \in 0..UShortMax
BY CollectorsAssumption DEF inc, dec

\* Every step keeps the types of the session state.
LEMMA NextSessionTypeOK == SessionTypeOK /\ [Next]_vars => SessionTypeOK'
<1> SUFFICES ASSUME SessionTypeOK, [Next]_vars
             PROVE  SessionTypeOK'
  OBVIOUS
<1> USE DEF SessionTypeOK
<1>1. ASSUME NEW c \in Collector, Connect(c)
      PROVE  SessionTypeOK'
  BY <1>1 DEF Connect
<1>2. ASSUME NEW c \in Collector, NEW m \in Message, Send(c, m)
      PROVE  SessionTypeOK'
  <2>1. inbox' \in [Collector -> Seq(Message)]
    BY <1>2 DEF Send
  <2>2. QED  BY <1>2, <2>1 DEF Send
<1>3. ASSUME NEW c \in Collector, HangUp(c)
      PROVE  SessionTypeOK'
  BY <1>3 DEF HangUp
<1>4. ASSUME NEW c \in Collector, BecomeIdle(c)
      PROVE  SessionTypeOK'
  BY <1>4 DEF BecomeIdle
<1>5. ASSUME NEW c \in Collector, Accept(c)
      PROVE  SessionTypeOK'
  <2>1. smQueue' \in Seq(Request)
    <3>1. MonitorCollector(c) \in Request
      BY RequestTypes
    <3>2. CASE c \in Monitored
      <4>1. smQueue' = smQueue \o <<MonitorCollector(c)>>
        BY <1>5, <3>2 DEF Accept
      <4>2. QED  BY <3>1, <4>1
    <3>3. CASE c \notin Monitored
      <4>1. smQueue' = smQueue \o <<>>
        BY <1>5, <3>3 DEF Accept
      <4>2. QED  BY <4>1
    <3>4. QED  BY <3>2, <3>3
  <2>2. procAcctCollectorCounter' \in 0..UShortMax
    BY <1>5, CounterTypes DEF Accept
  <2>3. QED  BY <1>5, <2>1, <2>2 DEF Accept
<1>6. ASSUME NEW c \in Collector, RejectDescriptor(c)
      PROVE  SessionTypeOK'
  BY <1>6 DEF RejectDescriptor
<1>7. ASSUME NEW c \in Collector, ReadAll(c)
      PROVE  SessionTypeOK'
  <2>1. DataRequests(c, Len(inbox[c])) \in Nat
    BY DataRequestsIsNat
  <2>2. QED  BY <1>7, <2>1 DEF ReadAll, HandleMessages
<1>8. ASSUME NEW c \in Collector, ReadAndLeave(c)
      PROVE  SessionTypeOK'
  <2>1. PICK n \in 0..Len(inbox[c]) : HandleMessages(c, n)
    BY <1>8 DEF ReadAndLeave
  <2>2. DataRequests(c, n) \in Nat
    BY DataRequestsIsNat
  <2>3. pending' \in [Collector -> Nat] /\ idle' \subseteq idle
    BY <2>1, <2>2 DEF HandleMessages
  <2>4. smQueue' \in Seq(Request)
    BY <1>8, FinalizeRequestsShape, PushOnly DEF ReadAndLeave
  <2>5. procAcctCollectorCounter' \in 0..UShortMax
    BY <1>8, CounterTypes DEF ReadAndLeave, Finalize
  <2>6. loop' \subseteq Collector /\ gone' \subseteq loop' /\ inbox' \in [Collector -> Seq(Message)]
    BY <1>8 DEF ReadAndLeave, LeaveLoop
  <2>7. QED  BY <1>8, <2>3, <2>4, <2>5, <2>6 DEF ReadAndLeave
<1>9. ASSUME NEW c \in Collector, CollectAndSend(c)
      PROVE  SessionTypeOK'
  <2>1. pending' \in [Collector -> Nat]
    BY <1>9 DEF CollectAndSend
  <2>2. QED  BY <1>9, <2>1 DEF CollectAndSend
<1>10. ASSUME NEW s \in servers, AcceptFails(s)
       PROVE  SessionTypeOK'
  BY <1>10 DEF AcceptFails
<1>11. CASE CollectorsTimer
  <2> DEFINE late == {c \in active : Inactive(c)}
  <2>1. PICK order \in SetToSeqs(late) : smQueue' = smQueue \o Removals(order)
    BY <1>11 DEF CollectorsTimer
  <2>2. late \in SUBSET Collector
    OBVIOUS
  <2> HIDE DEF late
  <2>3. smQueue' \in Seq(Request)
    BY <2>1, <2>2, TimerRequestsShape, PushOnly
  <2>4. QED  BY <1>11, <2>3 DEF CollectorsTimer
<1>12. CASE requestHandler
  <2> DEFINE rq == Head(smQueue)
  <2>1. smQueue # <<>>
    BY <1>12 DEF requestHandler
  <2>2. rq \in Request
    BY <2>1, PopAndPush, EmptySeq
  <2>3. rq.collector \in Collector
    BY <2>2, RequestForms
  <2> DEFINE c == rq.collector
  <2> HIDE DEF rq, c
  <2>4. \A t \in Seq(Request) : Tail(smQueue) \o t \in Seq(Request)
    BY <2>1, PopAndPush
  <2>5. CASE doMonitorCollector(rq)
    <3>1. smQueue' \in Seq(Request)
      BY <2>3, <2>4, <2>5, WakeLockRequestsShape DEF doMonitorCollector
    <3>2. QED  BY <2>3, <2>5, <3>1 DEF doMonitorCollector
  <2>6. CASE doRemoveCollector(rq)
    <3> USE DEF c
    <3>1. smQueue' \in Seq(Request)
      <4>1. CASE smQueue' = Tail(smQueue) \o WakeLockRequests(c)
        BY <2>3, <2>4, <4>1, WakeLockRequestsShape
      <4>2. CASE smQueue' = Tail(smQueue) \o FinalizeRequests(c) \o WakeLockRequests(c)
        <5>1. Tail(smQueue) \o FinalizeRequests(c) \in Seq(Request)
          BY <2>3, <2>4, FinalizeRequestsShape
        <5>2. QED  BY <2>3, <4>2, <5>1, WakeLockRequestsShape, PushOnly
      <4>3. QED  BY <2>6, <4>1, <4>2 DEF doRemoveCollector
    <3>2. /\ loop' \subseteq Collector /\ gone' \subseteq loop'
          /\ inbox' \in [Collector -> Seq(Message)]
      <4>1. CASE LeaveLoop(c)
        BY <2>3, <4>1 DEF LeaveLoop
      <4>2. CASE UNCHANGED <<loop, gone, inbox>>
        BY <4>2
      <4>3. QED  BY <2>6, <4>1, <4>2 DEF doRemoveCollector
    <3>3. procAcctCollectorCounter' \in 0..UShortMax
      BY <2>6, CounterTypes DEF doRemoveCollector, Finalize
    <3>4. QED  BY <2>6, <3>1, <3>2, <3>3 DEF doRemoveCollector
  <2>7. CASE doUpdateWakeLock(rq)
    <3>1. smQueue' \in Seq(Request)
      BY <2>1, <2>7 DEF doUpdateWakeLock
    <3>2. QED  BY <2>7, <3>1 DEF doUpdateWakeLock
  <2>8. QED  BY <1>12, <2>5, <2>6, <2>7 DEF requestHandler, rq
<1>13. CASE Restart
  <2>1. <<>> \in Seq(Message)
    OBVIOUS
  <2>2. QED  BY <1>13, <2>1, CollectorsAssumption DEF Restart
<1>14. CASE UNCHANGED vars
  BY <1>14 DEF vars
<1>15. QED
  BY <1>1, <1>2, <1>3, <1>4, <1>5, <1>6, <1>7, <1>8, <1>9, <1>10, <1>11,
     <1>12, <1>13, <1>14 DEF Next, ReadCallback

\* Only StateManager and a restart touch the wake lock.
LEMMA LockSteps ==
  ASSUME [Next]_vars
  PROVE  \/ UNCHANGED <<wakeLock, kernelLock>>
         \/ smQueue # <<>> /\ doUpdateWakeLock(Head(smQueue))
         \/ Restart
<1>1. ASSUME NEW c \in Collector,
             \/ Connect(c) \/ HangUp(c) \/ BecomeIdle(c)
             \/ \E m \in Message : Send(c, m)
             \/ Accept(c) \/ RejectDescriptor(c)
             \/ ReadCallback(c) \/ CollectAndSend(c)
      PROVE  UNCHANGED <<wakeLock, kernelLock>>
  BY <1>1 DEF Connect, HangUp, BecomeIdle, Send, Accept, RejectDescriptor,
              ReadCallback, ReadAll, ReadAndLeave, CollectAndSend
<1>2. ASSUME \/ \E s \in servers : AcceptFails(s)
             \/ CollectorsTimer
             \/ doMonitorCollector(Head(smQueue))
             \/ doRemoveCollector(Head(smQueue))
             \/ UNCHANGED vars
      PROVE  UNCHANGED <<wakeLock, kernelLock>>
  BY <1>2 DEF AcceptFails, CollectorsTimer, doMonitorCollector,
              doRemoveCollector, vars
<1>3. QED  BY <1>1, <1>2 DEF Next, requestHandler

\* Every step keeps the type invariant.
LEMMA NextTypeOK == TypeOK /\ [Next]_vars => TypeOK'
<1> SUFFICES ASSUME TypeOK, [Next]_vars
             PROVE  TypeOK'
  OBVIOUS
<1>1. SessionTypeOK'
  BY NextSessionTypeOK DEF TypeOK
<1>2. CASE UNCHANGED <<wakeLock, kernelLock>>
  BY <1>1, <1>2 DEF TypeOK, LockTypeOK
<1>3. CASE doUpdateWakeLock(Head(smQueue))
  <2>1. LockTypeOK'
    BY <1>3 DEF TypeOK, LockTypeOK, doUpdateWakeLock
  <2>2. QED  BY <1>1, <2>1 DEF TypeOK
<1>4. CASE Restart
  <2>1. LockTypeOK'
    BY <1>4 DEF LockTypeOK, Restart
  <2>2. QED  BY <1>1, <2>1 DEF TypeOK
<1>5. QED  BY <1>2, <1>3, <1>4, LockSteps

\* Every variable of the sessions and of StateManager keeps its type.
THEOREM TypeCorrect == Spec => []TypeOK
BY InitTypeOK, NextTypeOK, PTL DEF Spec

-----------------------------------------------------------------------------
(* The list, the loop and the queue *)

\* The step of an action that pops d requests and pushes those of t, seen from
\* the requests that are queued after it.
LEMMA PushedMembers ==
  ASSUME NEW q, NEW d \in {0, 1}, NEW t, NEW r, Pushed(q, d, t, r)
  PROVE  /\ \A k \in DOMAIN r :
              \/ k + d \in DOMAIN q /\ r[k] = q[k + d] /\ k <= Len(q) - d
              \/ \E i \in DOMAIN t : r[k] = t[i] /\ k = Len(q) - d + i
         /\ \A i \in DOMAIN q : i > d => i - d \in DOMAIN r /\ r[i - d] = q[i]
         /\ \A i \in DOMAIN t :
              Len(q) - d + i \in DOMAIN r /\ r[Len(q) - d + i] = t[i]
<1>1. ASSUME NEW k \in DOMAIN r
      PROVE  \/ k + d \in DOMAIN q /\ r[k] = q[k + d] /\ k <= Len(q) - d
             \/ \E i \in DOMAIN t : r[k] = t[i] /\ k = Len(q) - d + i
  <2>1. CASE k <= Len(q) - d
    <3>1. k \in 1..(Len(q) - d)
      BY <2>1 DEF Pushed
    <3>2. k + d \in 1..Len(q)
      BY <3>1 DEF Pushed
    <3>3. QED  BY <2>1, <3>1, <3>2 DEF Pushed
  <2>2. CASE k > Len(q) - d
    <3> DEFINE i == k - (Len(q) - d)
    <3>1. i \in DOMAIN t /\ k = Len(q) - d + i
      BY <2>2 DEF Pushed
    <3>2. r[k] = t[i]
      BY <3>1 DEF Pushed
    <3>3. QED  BY <3>1, <3>2
  <2>3. QED  BY <2>1, <2>2 DEF Pushed
<1>2. ASSUME NEW i \in DOMAIN q, i > d
      PROVE  i - d \in DOMAIN r /\ r[i - d] = q[i]
  <2>1. i - d \in 1..(Len(q) - d) /\ (i - d) + d = i
    BY <1>2 DEF Pushed
  <2>2. QED  BY <2>1 DEF Pushed
<1>3. ASSUME NEW i \in DOMAIN t
      PROVE  Len(q) - d + i \in DOMAIN r /\ r[Len(q) - d + i] = t[i]
  BY DEF Pushed
<1>4. QED  BY <1>1, <1>2, <1>3

\* At start nobody is connected and nothing is queued.
LEMMA InitQueueInv == Init => QueueInv
BY DEF Init, QueueInv, BacklogFresh, MonitorOnce, LiveNotFinalized,
       DeadCollectorsLeave, SessionsMonitored, Queued

\* Most actions leave the list, the loop and the queue alone.
LEMMA QuietQueueInv ==
  ASSUME QueueInv, backlog' \subseteq backlog,
         UNCHANGED <<loop, active, smQueue>>
  PROVE  QueueInv'
BY DEF QueueInv, BacklogFresh, MonitorOnce, LiveNotFinalized,
       DeadCollectorsLeave, SessionsMonitored, Queued

\* A new client has nothing that refers to it.
LEMMA ConnectQueueInv ==
  ASSUME SessionTypeOK, QueueInv, NEW c \in Collector, Connect(c)
  PROVE  QueueInv'
<1>1. /\ c \notin loop \cup active
      /\ \A i \in DOMAIN smQueue : smQueue[i].collector # c
      /\ backlog' = backlog \cup {c}
      /\ UNCHANGED <<loop, active, smQueue>>
  BY DEF Connect, Referenced
<1>2. BacklogFresh'
  BY <1>1 DEF QueueInv, BacklogFresh
<1>3. QED
  BY <1>1, <1>2 DEF QueueInv, MonitorOnce, LiveNotFinalized,
     DeadCollectorsLeave, SessionsMonitored, Queued

\* Accepting puts the source in the loop and queues its MonitorCollector.
LEMMA AcceptQueueInv ==
  ASSUME SessionTypeOK, QueueInv, NEW c \in Collector, Accept(c)
  PROVE  QueueInv'
<1> DEFINE t == IF c \in Monitored THEN <<MonitorCollector(c)>> ELSE <<>>
<1>1. /\ c \in backlog /\ backlog' = backlog \ {c}
      /\ loop' = loop \cup {c} /\ active' = active
      /\ smQueue' = smQueue \o t
  BY DEF Accept
<1>2. /\ t \in Seq(Request)
      /\ \A i \in DOMAIN t : i = 1 /\ t[i] = MonitorCollector(c)
      /\ c \in Monitored => 1 \in DOMAIN t
  BY RequestTypes
<1> HIDE DEF t
<1>3. Pushed(smQueue, 0, t, smQueue')
  BY <1>1, <1>2, PushOnly DEF SessionTypeOK
<1>4. /\ \A k \in DOMAIN smQueue' :
           \/ k \in DOMAIN smQueue /\ smQueue'[k] = smQueue[k] /\ k <= Len(smQueue)
           \/ smQueue'[k] = MonitorCollector(c) /\ k = Len(smQueue) + 1
      /\ \A i \in DOMAIN smQueue : i \in DOMAIN smQueue' /\ smQueue'[i] = smQueue[i]
      /\ c \in Monitored => \E k \in DOMAIN smQueue' : smQueue'[k] = MonitorCollector(c)
  <2>1. Len(smQueue) - 0 = Len(smQueue) /\ \A k \in DOMAIN smQueue : k > 0 /\ k - 0 = k /\ k + 0 = k
    BY <1>3 DEF Pushed
  <2>2. \A k \in DOMAIN smQueue' : k + 0 = k
    BY <1>3 DEF Pushed
  <2>3. QED  BY <1>2, <1>3, <2>1, <2>2, PushedMembers
<1>5. /\ c \notin loop /\ c \notin active
      /\ \A i \in DOMAIN smQueue : smQueue[i].collector # c
  BY <1>1 DEF QueueInv, BacklogFresh
<1>6. BacklogFresh'
  BY <1>1, <1>4, RequestFields DEF QueueInv, BacklogFresh
<1>7. MonitorOnce'
  <2>1. \A x, a : MonitorCollector(c) # RemoveCollector(x, a)
    BY RequestFields
  <2>2. \A x : MonitorCollector(c) = MonitorCollector(x) => x = c
    BY RequestFields
  <2>3. \A i \in DOMAIN smQueue : /\ smQueue[i] # MonitorCollector(c)
                                  /\ \A a : smQueue[i] # RemoveCollector(c, a)
    BY <1>5, RequestFields
  <2>4. ASSUME NEW x \in Collector, NEW i \in DOMAIN smQueue', NEW j \in DOMAIN smQueue',
               smQueue'[i] = MonitorCollector(x), smQueue'[j] = MonitorCollector(x)
        PROVE  i = j
    BY <1>4, <2>2, <2>3, <2>4 DEF QueueInv, MonitorOnce
  <2>5. ASSUME NEW x \in Collector, Queued(MonitorCollector(x))'
        PROVE  x \notin active' /\ ~Queued(RemoveCollector(x, {"WithEventSource"}))'
    BY <1>1, <1>4, <1>5, <2>1, <2>2, <2>3, <2>5 DEF QueueInv, MonitorOnce, Queued
  <2>6. QED  BY <2>4, <2>5 DEF MonitorOnce
<1>8. LiveNotFinalized'
  BY <1>1, <1>4, <1>5, RequestFields DEF QueueInv, LiveNotFinalized, Queued
<1>9. DeadCollectorsLeave'
  BY <1>1, <1>4, RequestFields DEF QueueInv, DeadCollectorsLeave, Queued
<1>10. SessionsMonitored'
  BY <1>1, <1>4 DEF QueueInv, SessionsMonitored, Queued, Monitored
<1>11. QED  BY <1>6, <1>7, <1>8, <1>9, <1>10 DEF QueueInv

\* A session that ends by its read callback queues its removal behind all else.
LEMMA ReadAndLeaveQueueInv ==
  ASSUME SessionTypeOK, QueueInv, NEW c \in Collector, ReadAndLeave(c)
  PROVE  QueueInv'
<1> DEFINE t == FinalizeRequests(c)
<1>1. /\ c \in loop /\ loop' = loop \ {c}
      /\ UNCHANGED <<backlog, active>>
      /\ smQueue' = smQueue \o t
  BY DEF ReadAndLeave, LeaveLoop
<1>2. t \in Seq(Request) /\ Len(t) = 1 /\ t[1] = RemoveCollector(c, {})
  BY FinalizeRequestsShape
<1> HIDE DEF t
<1>3. Pushed(smQueue, 0, t, smQueue')
  BY <1>1, <1>2, PushOnly DEF SessionTypeOK
<1>4. /\ \A k \in DOMAIN smQueue' :
           \/ k \in DOMAIN smQueue /\ smQueue'[k] = smQueue[k] /\ k <= Len(smQueue)
           \/ smQueue'[k] = RemoveCollector(c, {}) /\ k = Len(smQueue) + 1
      /\ \A i \in DOMAIN smQueue : i \in DOMAIN smQueue' /\ smQueue'[i] = smQueue[i]
      /\ Len(smQueue) + 1 \in DOMAIN smQueue'
      /\ smQueue'[Len(smQueue) + 1] = RemoveCollector(c, {})
      /\ \A i \in DOMAIN smQueue : Len(smQueue) + 1 > i
  <2>1. Len(smQueue) - 0 = Len(smQueue) /\ \A k \in DOMAIN smQueue : k > 0 /\ k - 0 = k /\ k + 0 = k
    BY <1>3 DEF Pushed
  <2>2. \A k \in DOMAIN smQueue' : k + 0 = k
    BY <1>3 DEF Pushed
  <2>3. DOMAIN t = {1}
    BY <1>2
  <2>4. \A i \in DOMAIN smQueue : Len(smQueue) + 1 > i
    BY <1>3 DEF Pushed
  <2>5. QED  BY <1>2, <1>3, <2>1, <2>2, <2>3, <2>4, PushedMembers
<1>5. BacklogFresh'
  BY <1>1, <1>4, RequestFields DEF QueueInv, BacklogFresh
<1>6. MonitorOnce'
  <2>1. \A d : RemoveCollector(c, {}) # MonitorCollector(d)
                /\ RemoveCollector(c, {}) # RemoveCollector(d, {"WithEventSource"})
    BY RequestFields
  <2>2. QED  BY <1>1, <1>4, <2>1 DEF QueueInv, MonitorOnce, Queued
<1>7. LiveNotFinalized'
  BY <1>1, <1>4, RequestFields DEF QueueInv, LiveNotFinalized, Queued
<1>8. DeadCollectorsLeave'
  <2>1. ASSUME NEW x \in Collector \ loop', x \in active'
        PROVE  Queued(RemoveCollector(x, {}))'
    BY <1>1, <1>4, <2>1 DEF QueueInv, DeadCollectorsLeave, Queued
  <2>2. ASSUME NEW x \in Collector \ loop', NEW i \in DOMAIN smQueue',
               smQueue'[i] = MonitorCollector(x)
        PROVE  \E j \in DOMAIN smQueue' : j > i /\ smQueue'[j] = RemoveCollector(x, {})
    <3>1. i \in DOMAIN smQueue /\ smQueue[i] = MonitorCollector(x)
      BY <1>4, <2>2, RequestFields
    <3>2. QED  BY <1>1, <1>4, <2>2, <3>1 DEF QueueInv, DeadCollectorsLeave
  <2>3. QED  BY <2>1, <2>2 DEF DeadCollectorsLeave
<1>9. SessionsMonitored'
  BY <1>1, <1>4 DEF QueueInv, SessionsMonitored, Queued, Monitored
<1>10. QED  BY <1>5, <1>6, <1>7, <1>8, <1>9 DEF QueueInv

\* The timer queues removals of listed collectors, which were monitored before.
LEMMA TimerQueueInv ==
  ASSUME SessionTypeOK, QueueInv, CollectorsTimer
  PROVE  QueueInv'
<1> DEFINE late == {c \in active : Inactive(c)}
<1>1. PICK order \in SetToSeqs(late) : smQueue' = smQueue \o Removals(order)
  BY DEF CollectorsTimer
<1> DEFINE t == Removals(order)
<1>2. late \in SUBSET Collector /\ late \subseteq active
  BY DEF SessionTypeOK
<1> HIDE DEF late
<1>3. /\ t \in Seq(Request)
      /\ \A i \in DOMAIN t :
           \E c \in active : t[i] = RemoveCollector(c, {"WithEventSource"})
  BY <1>2, TimerRequestsShape
<1>4. smQueue' = smQueue \o t
  BY <1>1
<1> HIDE DEF t
<1>5. Pushed(smQueue, 0, t, smQueue')
  BY <1>3, <1>4, PushOnly DEF SessionTypeOK
<1>6. /\ \A k \in DOMAIN smQueue' :
           \/ k \in DOMAIN smQueue /\ smQueue'[k] = smQueue[k]
           \/ \E c \in active : smQueue'[k] = RemoveCollector(c, {"WithEventSource"})
      /\ \A i \in DOMAIN smQueue : i \in DOMAIN smQueue' /\ smQueue'[i] = smQueue[i]
  <2>1. Len(smQueue) - 0 = Len(smQueue) /\ \A k \in DOMAIN smQueue : k > 0 /\ k - 0 = k
    BY <1>5 DEF Pushed
  <2>2. \A k \in DOMAIN smQueue' : k + 0 = k
    BY <1>5 DEF Pushed
  <2>3. QED  BY <1>3, <1>5, <2>1, <2>2, PushedMembers
<1>7. UNCHANGED <<backlog, loop, active>>
  BY DEF CollectorsTimer
<1>8. /\ \A c, d : RemoveCollector(c, {"WithEventSource"}) # MonitorCollector(d)
      /\ \A c, d : RemoveCollector(c, {"WithEventSource"}) # RemoveCollector(d, {})
      /\ \A c, d : RemoveCollector(c, {"WithEventSource"})
                    = RemoveCollector(d, {"WithEventSource"}) => c = d
      /\ \A c : RemoveCollector(c, {"WithEventSource"}).collector = c
  <2>1. {"WithEventSource"} # {}
    OBVIOUS
  <2>2. QED  BY <2>1, RequestFields
<1>9. BacklogFresh'
  BY <1>6, <1>7, <1>8 DEF QueueInv, BacklogFresh
<1>10. MonitorOnce'
  BY <1>6, <1>7, <1>8 DEF QueueInv, MonitorOnce, Queued
<1>11. LiveNotFinalized'
  BY <1>6, <1>7, <1>8 DEF QueueInv, LiveNotFinalized, Queued
<1>12. DeadCollectorsLeave'
  BY <1>6, <1>7, <1>8 DEF QueueInv, DeadCollectorsLeave, Queued
<1>13. SessionsMonitored'
  BY <1>6, <1>7 DEF QueueInv, SessionsMonitored, Queued, Monitored
<1>14. QED  BY <1>9, <1>10, <1>11, <1>12, <1>13 DEF QueueInv

\* The queue r after the head of q was handled and the requests of t were pushed.
Shifted(q, t, r) ==
  /\ 1 \in DOMAIN q
  /\ \A k \in DOMAIN r :
       \/ k + 1 \in DOMAIN q /\ r[k] = q[k + 1]
       \/ \E i \in DOMAIN t : r[k] = t[i]
  /\ \A i \in DOMAIN q : i # 1 => i - 1 \in DOMAIN r /\ r[i - 1] = q[i]
  /\ \A i \in DOMAIN t : \E k \in DOMAIN r : r[k] = t[i]
  /\ \A i, j \in DOMAIN q : j > i => j # 1 /\ j - 1 > i - 1
  /\ \A k \in DOMAIN r :
       /\ k + 1 # 1 /\ (k + 1) - 1 = k
       /\ \A l \in DOMAIN r : k + 1 = l + 1 => k = l

\* Every request handler shifts the queue by one and appends.
LEMMA HandlerShift ==
  ASSUME NEW q \in Seq(Request), q # <<>>, NEW t \in Seq(Request),
         NEW r, r = Tail(q) \o t
  PROVE  Head(q) \in Request /\ q[1] = Head(q) /\ Shifted(q, t, r)
<1>1. Head(q) \in Request /\ q[1] = Head(q) /\ 1 \in DOMAIN q
  BY PopAndPush
<1>2. Pushed(q, 1, t, r)
  BY PopAndPush
<1>3. /\ \A i, j \in DOMAIN q : j > i => j # 1 /\ j - 1 > i - 1
      /\ \A k \in DOMAIN r :
           /\ k + 1 # 1 /\ (k + 1) - 1 = k
           /\ \A l \in DOMAIN r : k + 1 = l + 1 => k = l
  BY <1>2 DEF Pushed
<1>4. ASSUME NEW k \in DOMAIN r
      PROVE  \/ k + 1 \in DOMAIN q /\ r[k] = q[k + 1]
             \/ \E i \in DOMAIN t : r[k] = t[i]
  <2>1. CASE k <= Len(q) - 1
    <3>1. k \in 1..(Len(q) - 1) /\ k + 1 \in 1..Len(q)
      BY <1>2, <2>1 DEF Pushed
    <3>2. QED  BY <1>2, <3>1 DEF Pushed
  <2>2. CASE k > Len(q) - 1
    <3> DEFINE i == k - (Len(q) - 1)
    <3>1. i \in DOMAIN t /\ k = Len(q) - 1 + i
      BY <1>2, <2>2 DEF Pushed
    <3>2. QED  BY <1>2, <3>1 DEF Pushed
  <2>3. QED  BY <1>2, <2>1, <2>2 DEF Pushed
<1>5. ASSUME NEW i \in DOMAIN q, i # 1
      PROVE  i - 1 \in DOMAIN r /\ r[i - 1] = q[i]
  <2>1. i - 1 \in 1..(Len(q) - 1) /\ (i - 1) + 1 = i
    BY <1>2, <1>5 DEF Pushed
  <2>2. QED  BY <1>2, <2>1 DEF Pushed
<1>6. ASSUME NEW i \in DOMAIN t
      PROVE  Len(q) - 1 + i \in DOMAIN r /\ r[Len(q) - 1 + i] = t[i]
  BY <1>2 DEF Pushed
<1>7. QED  BY <1>1, <1>3, <1>4, <1>5, <1>6 DEF Shifted

\* The head was the only MonitorCollector of its collector: listing it keeps the
\* order of the others.
LEMMA MonitorQueueInv ==
  ASSUME SessionTypeOK, QueueInv, smQueue # <<>>,
         doMonitorCollector(Head(smQueue))
  PROVE  QueueInv'
<1> DEFINE c == Head(smQueue).collector
           t == WakeLockRequests(c)
<1>1. Head(smQueue) \in Request
  BY PopAndPush DEF SessionTypeOK
<1>2. c \in Collector /\ Head(smQueue) = MonitorCollector(c)
  BY <1>1, RequestForms DEF doMonitorCollector
<1>3. /\ active' = active \cup {c} /\ UNCHANGED <<backlog, loop>>
      /\ smQueue' = Tail(smQueue) \o t
  BY DEF doMonitorCollector
<1> HIDE DEF c
<1>4. t \in Seq(Request) /\ \A i \in DOMAIN t : t[i] = UpdateWakeLock(c)
  BY <1>2, WakeLockRequestsShape
<1> HIDE DEF t
<1>5. /\ 1 \in DOMAIN smQueue /\ smQueue[1] = MonitorCollector(c)
      /\ \A k \in DOMAIN smQueue' :
           \/ k + 1 \in DOMAIN smQueue /\ smQueue'[k] = smQueue[k + 1]
           \/ smQueue'[k] = UpdateWakeLock(c)
      /\ \A i \in DOMAIN smQueue : i # 1 =>
           i - 1 \in DOMAIN smQueue' /\ smQueue'[i - 1] = smQueue[i]
      /\ \A i, j \in DOMAIN smQueue : j > i => j # 1 /\ j - 1 > i - 1
      /\ \A k \in DOMAIN smQueue' :
           /\ k + 1 # 1 /\ (k + 1) - 1 = k
           /\ \A l \in DOMAIN smQueue' : k + 1 = l + 1 => k = l
  <2>1. Shifted(smQueue, t, smQueue') /\ smQueue[1] = Head(smQueue)
    BY <1>3, <1>4, HandlerShift DEF SessionTypeOK
  <2>2. QED  BY <1>2, <1>4, <2>1 DEF Shifted
<1>6. /\ \A x, y : MonitorCollector(x) = MonitorCollector(y) => x = y
      /\ \A x, y : MonitorCollector(x) # UpdateWakeLock(y)
      /\ \A x, y, a : MonitorCollector(x) # RemoveCollector(y, a)
      /\ \A x, y, a : UpdateWakeLock(x) # RemoveCollector(y, a)
      /\ \A x : MonitorCollector(x).collector = x /\ UpdateWakeLock(x).collector = x
  BY RequestFields
<1>7. BacklogFresh'
  <2>1. ASSUME NEW x \in backlog
        PROVE  /\ x # c /\ x \notin loop /\ x \notin active
               /\ \A k \in DOMAIN smQueue : smQueue[k].collector # x
    BY <1>5, <1>6 DEF QueueInv, BacklogFresh
  <2>2. QED  BY <1>3, <1>5, <1>6, <2>1 DEF BacklogFresh
<1>8. MonitorOnce'
  <2>1. ASSUME NEW x \in Collector, NEW i \in DOMAIN smQueue', NEW j \in DOMAIN smQueue',
               smQueue'[i] = MonitorCollector(x), smQueue'[j] = MonitorCollector(x)
        PROVE  i = j
    BY <1>5, <1>6, <2>1 DEF QueueInv, MonitorOnce
  <2>2. ASSUME NEW x \in Collector, NEW i \in DOMAIN smQueue',
               smQueue'[i] = MonitorCollector(x)
        PROVE  /\ x \notin active'
               /\ \A k \in DOMAIN smQueue' :
                    smQueue'[k] # RemoveCollector(x, {"WithEventSource"})
    <3>1. i + 1 \in DOMAIN smQueue /\ smQueue[i + 1] = MonitorCollector(x) /\ i + 1 # 1
      BY <1>5, <1>6, <2>2
    <3>2. x # c
      BY <1>5, <3>1 DEF QueueInv, MonitorOnce
    <3>3. /\ x \notin active
          /\ \A k \in DOMAIN smQueue : smQueue[k] # RemoveCollector(x, {"WithEventSource"})
      BY <3>1 DEF QueueInv, MonitorOnce, Queued
    <3>4. QED  BY <1>3, <1>5, <1>6, <3>2, <3>3
  <2>3. QED  BY <2>1, <2>2 DEF MonitorOnce, Queued
<1>9. LiveNotFinalized'
  BY <1>3, <1>5, <1>6 DEF QueueInv, LiveNotFinalized, Queued
<1>10. DeadCollectorsLeave'
  <2>1. ASSUME NEW x \in Collector \ loop', x \in active'
        PROVE  Queued(RemoveCollector(x, {}))'
    <3>1. PICK j \in DOMAIN smQueue : j # 1 /\ smQueue[j] = RemoveCollector(x, {})
      <4>1. CASE x = c
        BY <1>2, <1>3, <1>5, <2>1, <4>1 DEF QueueInv, DeadCollectorsLeave
      <4>2. CASE x # c
        BY <1>3, <1>5, <1>6, <2>1, <4>2 DEF QueueInv, DeadCollectorsLeave, Queued
      <4>3. QED  BY <4>1, <4>2
    <3>2. QED  BY <1>5, <3>1 DEF Queued
  <2>2. ASSUME NEW x \in Collector \ loop', NEW i \in DOMAIN smQueue',
               smQueue'[i] = MonitorCollector(x)
        PROVE  \E j \in DOMAIN smQueue' : j > i /\ smQueue'[j] = RemoveCollector(x, {})
    <3>1. i + 1 \in DOMAIN smQueue /\ smQueue[i + 1] = MonitorCollector(x)
      BY <1>5, <1>6, <2>2
    <3>2. PICK j \in DOMAIN smQueue : j > i + 1 /\ smQueue[j] = RemoveCollector(x, {})
      BY <1>3, <2>2, <3>1 DEF QueueInv, DeadCollectorsLeave
    <3>3. j # 1 /\ j - 1 > (i + 1) - 1 /\ (i + 1) - 1 = i
      BY <1>5, <3>1, <3>2
    <3>4. QED  BY <1>5, <3>2, <3>3
  <2>3. QED  BY <2>1, <2>2 DEF DeadCollectorsLeave
<1>11. SessionsMonitored'
  <2>1. ASSUME NEW x \in loop \cap Monitored, x # c, x \notin active
        PROVE  Queued(MonitorCollector(x))'
    BY <1>5, <1>6, <2>1 DEF QueueInv, SessionsMonitored, Queued
  <2>2. QED  BY <1>3, <2>1 DEF SessionsMonitored, Monitored
<1>12. QED  BY <1>7, <1>8, <1>9, <1>10, <1>11 DEF QueueInv

\* A removal takes the collector out of the list; with the event source it also
\* ends the session and queues the finalize's removal.
LEMMA RemoveQueueInv ==
  ASSUME SessionTypeOK, QueueInv, smQueue # <<>>,
         doRemoveCollector(Head(smQueue))
  PROVE  QueueInv'
<1> DEFINE rq == Head(smQueue)
           c == rq.collector
<1>1. rq \in Request /\ 1 \in DOMAIN smQueue /\ smQueue[1] = rq
  BY PopAndPush DEF SessionTypeOK
<1>2. /\ c \in Collector
      /\ rq.args = {} \/ rq.args = {"WithEventSource"}
      /\ rq = RemoveCollector(c, rq.args)
  BY <1>1, RequestForms DEF doRemoveCollector
<1>3. c \in loop => rq = RemoveCollector(c, {"WithEventSource"})
  BY <1>1, <1>2 DEF QueueInv, LiveNotFinalized, Queued
<1>4. /\ active' = active \ {c} /\ backlog' = backlog /\ loop' = loop \ {c}
      /\ \E t \in {FinalizeRequests(c) \o WakeLockRequests(c), WakeLockRequests(c)} :
           smQueue' = Tail(smQueue) \o t
  <2>1. CASE "WithEventSource" \in rq.args /\ c \in loop
    <3>1. CASE RemFinalizes
      <4>1. smQueue' = Tail(smQueue) \o FinalizeRequests(c) \o WakeLockRequests(c)
        BY <2>1, <3>1 DEF doRemoveCollector
      <4>2. /\ Tail(smQueue) \in Seq(Request)
            /\ FinalizeRequests(c) \in Seq(Request)
            /\ WakeLockRequests(c) \in Seq(Request)
        BY <1>2, FinalizeRequestsShape, WakeLockRequestsShape DEF SessionTypeOK
      <4>3. \A a, b, d \in Seq(Request) : a \o b \o d = a \o (b \o d)
        OBVIOUS
      <4>4. smQueue' = Tail(smQueue) \o (FinalizeRequests(c) \o WakeLockRequests(c))
        BY <4>1, <4>2, <4>3
      <4>5. QED  BY <2>1, <4>4 DEF doRemoveCollector, LeaveLoop
    <3>2. CASE ~RemFinalizes
      BY <2>1, <3>2 DEF doRemoveCollector, LeaveLoop
    <3>3. QED  BY <3>1, <3>2
  <2>2. CASE ~("WithEventSource" \in rq.args /\ c \in loop)
    <3>1. c \notin loop
      BY <1>3, <2>2, RequestFields
    <3>2. QED  BY <2>2, <3>1 DEF doRemoveCollector
  <2>3. QED  BY <2>1, <2>2
<1> HIDE DEF rq, c
<1>5. PICK t \in {FinalizeRequests(c) \o WakeLockRequests(c), WakeLockRequests(c)} :
        smQueue' = Tail(smQueue) \o t
  BY <1>4
<1>6. /\ t \in Seq(Request)
      /\ \A i \in DOMAIN t : t[i] \in {RemoveCollector(c, {}), UpdateWakeLock(c)}
  <2>1. CASE t = FinalizeRequests(c) \o WakeLockRequests(c)
    BY <1>2, <2>1, BothRequestsShape
  <2>2. CASE t = WakeLockRequests(c)
    BY <1>2, <2>2, WakeLockRequestsShape
  <2>3. QED  BY <2>1, <2>2
<1>7. /\ \A k \in DOMAIN smQueue' :
           \/ k + 1 \in DOMAIN smQueue /\ smQueue'[k] = smQueue[k + 1]
           \/ smQueue'[k] = RemoveCollector(c, {})
           \/ smQueue'[k] = UpdateWakeLock(c)
      /\ \A i \in DOMAIN smQueue : i # 1 =>
           i - 1 \in DOMAIN smQueue' /\ smQueue'[i - 1] = smQueue[i]
      /\ \A i, j \in DOMAIN smQueue : j > i => j # 1 /\ j - 1 > i - 1
      /\ \A k \in DOMAIN smQueue' :
           /\ k + 1 # 1 /\ (k + 1) - 1 = k
           /\ \A l \in DOMAIN smQueue' : k + 1 = l + 1 => k = l
  <2>1. Shifted(smQueue, t, smQueue')
    BY <1>5, <1>6, HandlerShift DEF SessionTypeOK
  <2>2. QED  BY <1>6, <2>1 DEF Shifted
<1>8. /\ \A x, y : MonitorCollector(x) # UpdateWakeLock(y)
      /\ \A x, y, a : MonitorCollector(x) # RemoveCollector(y, a)
      /\ \A x, y, a : UpdateWakeLock(x) # RemoveCollector(y, a)
      /\ \A x, y, a, b : RemoveCollector(x, a) = RemoveCollector(y, b) => x = y /\ a = b
      /\ \A x, a : RemoveCollector(x, a).collector = x /\ UpdateWakeLock(x).collector = x
      /\ {"WithEventSource"} # {}
  <2>1. {"WithEventSource"} # {}
    OBVIOUS
  <2>2. QED  BY <2>1, RequestFields
<1>9. c \in loop => ~Queued(MonitorCollector(c))
  BY <1>1, <1>2, <1>3 DEF QueueInv, MonitorOnce, Queued
<1>10. BacklogFresh'
  <2>1. c \notin backlog
    BY <1>1, <1>2, <1>8 DEF QueueInv, BacklogFresh
  <2>2. QED  BY <1>4, <1>7, <1>8, <2>1 DEF QueueInv, BacklogFresh
<1>11. MonitorOnce'
  <2>1. ASSUME NEW x \in Collector, NEW i \in DOMAIN smQueue', NEW j \in DOMAIN smQueue',
               smQueue'[i] = MonitorCollector(x), smQueue'[j] = MonitorCollector(x)
        PROVE  i = j
    BY <1>7, <1>8, <2>1 DEF QueueInv, MonitorOnce
  <2>2. ASSUME NEW x \in Collector, NEW i \in DOMAIN smQueue',
               smQueue'[i] = MonitorCollector(x)
        PROVE  /\ x \notin active'
               /\ \A k \in DOMAIN smQueue' :
                    smQueue'[k] # RemoveCollector(x, {"WithEventSource"})
    <3>1. i + 1 \in DOMAIN smQueue /\ smQueue[i + 1] = MonitorCollector(x)
      BY <1>7, <1>8, <2>2
    <3>2. /\ x \notin active
          /\ \A k \in DOMAIN smQueue : smQueue[k] # RemoveCollector(x, {"WithEventSource"})
      BY <3>1 DEF QueueInv, MonitorOnce, Queued
    <3>3. RemoveCollector(c, {}) # RemoveCollector(x, {"WithEventSource"})
      BY <1>8
    <3>4. UpdateWakeLock(c) # RemoveCollector(x, {"WithEventSource"})
      BY <1>8
    <3>5. QED  BY <1>4, <1>7, <3>2, <3>3, <3>4
  <2>3. QED  BY <2>1, <2>2 DEF MonitorOnce, Queued
<1>12. LiveNotFinalized'
  <2>1. ASSUME NEW x \in loop'
        PROVE  /\ RemoveCollector(c, {}) # RemoveCollector(x, {})
               /\ UpdateWakeLock(c) # RemoveCollector(x, {})
               /\ \A k \in DOMAIN smQueue : smQueue[k] # RemoveCollector(x, {})
    <3>1. x # c /\ x \in loop
      BY <1>4, <2>1
    <3>2. QED  BY <1>8, <3>1 DEF QueueInv, LiveNotFinalized, Queued
  <2>2. QED  BY <1>7, <2>1 DEF LiveNotFinalized, Queued
<1>13. DeadCollectorsLeave'
  <2>1. ASSUME NEW x \in Collector \ loop', x \in active'
        PROVE  Queued(RemoveCollector(x, {}))'
    <3>1. x # c /\ x \in Collector \ loop /\ x \in active
      BY <1>4, <2>1
    <3>2. PICK j \in DOMAIN smQueue : smQueue[j] = RemoveCollector(x, {})
      BY <3>1 DEF QueueInv, DeadCollectorsLeave, Queued
    <3>3. j # 1
      BY <1>1, <1>2, <1>8, <3>1, <3>2
    <3>4. QED  BY <1>7, <3>2, <3>3 DEF Queued
  <2>2. ASSUME NEW x \in Collector \ loop', NEW i \in DOMAIN smQueue',
               smQueue'[i] = MonitorCollector(x)
        PROVE  \E j \in DOMAIN smQueue' : j > i /\ smQueue'[j] = RemoveCollector(x, {})
    <3>1. i + 1 \in DOMAIN smQueue /\ smQueue[i + 1] = MonitorCollector(x)
      BY <1>7, <1>8, <2>2
    <3>2. x \notin loop
      BY <1>4, <1>9, <2>2, <3>1 DEF Queued
    <3>3. PICK j \in DOMAIN smQueue : j > i + 1 /\ smQueue[j] = RemoveCollector(x, {})
      BY <2>2, <3>1, <3>2 DEF QueueInv, DeadCollectorsLeave
    <3>4. j # 1 /\ j - 1 > (i + 1) - 1 /\ (i + 1) - 1 = i
      BY <1>7, <3>1, <3>3
    <3>5. QED  BY <1>7, <3>3, <3>4
  <2>3. QED  BY <2>1, <2>2 DEF DeadCollectorsLeave
<1>14. SessionsMonitored'
  <2>1. ASSUME NEW x \in loop \cap Monitored, x # c, x \notin active
        PROVE  Queued(MonitorCollector(x))'
    BY <1>1, <1>2, <1>7, <1>8, <2>1 DEF QueueInv, SessionsMonitored, Queued
  <2>2. QED  BY <1>4, <2>1 DEF SessionsMonitored, Monitored
<1>15. QED  BY <1>10, <1>11, <1>12, <1>13, <1>14 DEF QueueInv

\* Updating the wake lock only takes the head.
LEMMA UpdateQueueInv ==
  ASSUME SessionTypeOK, QueueInv, smQueue # <<>>,
         doUpdateWakeLock(Head(smQueue))
  PROVE  QueueInv'
<1> DEFINE c == Head(smQueue).collector
<1>1. Head(smQueue) \in Request
  BY PopAndPush DEF SessionTypeOK
<1>2. c \in Collector /\ Head(smQueue) = UpdateWakeLock(c)
  BY <1>1, RequestForms DEF doUpdateWakeLock
<1>3. UNCHANGED <<backlog, loop, active>>
  BY DEF doUpdateWakeLock
<1>4. smQueue' = Tail(smQueue) \o <<>> /\ <<>> \in Seq(Request)
  <2>1. smQueue' = Tail(smQueue) /\ Tail(smQueue) \in Seq(Request)
    BY DEF doUpdateWakeLock, SessionTypeOK
  <2>2. \A q \in Seq(Request) : q \o <<>> = q
    OBVIOUS
  <2>3. <<>> \in Seq(Request)
    OBVIOUS
  <2>4. QED  BY <2>1, <2>2, <2>3
<1> HIDE DEF c
<1>5. /\ smQueue[1] = UpdateWakeLock(c)
      /\ \A k \in DOMAIN smQueue' :
           k + 1 \in DOMAIN smQueue /\ smQueue'[k] = smQueue[k + 1]
      /\ \A i \in DOMAIN smQueue : i # 1 =>
           i - 1 \in DOMAIN smQueue' /\ smQueue'[i - 1] = smQueue[i]
      /\ \A i, j \in DOMAIN smQueue : j > i => j # 1 /\ j - 1 > i - 1
      /\ \A k \in DOMAIN smQueue' :
           /\ k + 1 # 1 /\ (k + 1) - 1 = k
           /\ \A l \in DOMAIN smQueue' : k + 1 = l + 1 => k = l
  <2> DEFINE t == <<>>
  <2>1. t \in Seq(Request) /\ smQueue' = Tail(smQueue) \o t
    BY <1>4
  <2>2. \A i \in DOMAIN t : i \in {}
    OBVIOUS
  <2> HIDE DEF t
  <2>3. Shifted(smQueue, t, smQueue') /\ smQueue[1] = Head(smQueue)
    BY <2>1, HandlerShift DEF SessionTypeOK
  <2>4. QED  BY <1>2, <2>2, <2>3 DEF Shifted
<1>6. /\ \A x, y : MonitorCollector(x) # UpdateWakeLock(y)
      /\ \A x, y, a : UpdateWakeLock(x) # RemoveCollector(y, a)
  BY RequestFields
<1>7. BacklogFresh'
  BY <1>3, <1>5 DEF QueueInv, BacklogFresh
<1>8. MonitorOnce'
  BY <1>3, <1>5 DEF QueueInv, MonitorOnce, Queued
<1>9. LiveNotFinalized'
  BY <1>3, <1>5 DEF QueueInv, LiveNotFinalized, Queued
<1>10. DeadCollectorsLeave'
  <2>1. ASSUME NEW x \in Collector \ loop', x \in active'
        PROVE  Queued(RemoveCollector(x, {}))'
    BY <1>3, <1>5, <1>6, <2>1 DEF QueueInv, DeadCollectorsLeave, Queued
  <2>2. ASSUME NEW x \in Collector \ loop', NEW i \in DOMAIN smQueue',
               smQueue'[i] = MonitorCollector(x)
        PROVE  \E j \in DOMAIN smQueue' : j > i /\ smQueue'[j] = RemoveCollector(x, {})
    <3>1. i + 1 \in DOMAIN smQueue /\ smQueue[i + 1] = MonitorCollector(x)
      BY <1>5, <2>2
    <3>2. PICK j \in DOMAIN smQueue : j > i + 1 /\ smQueue[j] = RemoveCollector(x, {})
      BY <1>3, <2>2, <3>1 DEF QueueInv, DeadCollectorsLeave
    <3>3. j # 1 /\ j - 1 > (i + 1) - 1 /\ (i + 1) - 1 = i
      BY <1>5, <3>1, <3>2
    <3>4. QED  BY <1>5, <3>2, <3>3
  <2>3. QED  BY <2>1, <2>2 DEF DeadCollectorsLeave
<1>11. SessionsMonitored'
  <2>1. ASSUME NEW x \in loop \cap Monitored, x \notin active
        PROVE  Queued(MonitorCollector(x))'
    BY <1>5, <1>6, <2>1 DEF QueueInv, SessionsMonitored, Queued
  <2>2. QED  BY <1>3, <2>1 DEF SessionsMonitored, Monitored
<1>12. QED  BY <1>7, <1>8, <1>9, <1>10, <1>11 DEF QueueInv

\* A restart forgets the queue along with the sessions.
LEMMA RestartQueueInv == Restart => QueueInv'
BY DEF Restart, QueueInv, BacklogFresh, MonitorOnce, LiveNotFinalized,
       DeadCollectorsLeave, SessionsMonitored, Queued

\* Every step keeps the queue invariant.
LEMMA NextQueueInv == SessionTypeOK /\ QueueInv /\ [Next]_vars => QueueInv'
<1> SUFFICES ASSUME SessionTypeOK, QueueInv, [Next]_vars
             PROVE  QueueInv'
  OBVIOUS
<1>1. ASSUME NEW c \in Collector, Connect(c)
      PROVE  QueueInv'
  BY <1>1, ConnectQueueInv
<1>2. ASSUME NEW c \in Collector, NEW m \in Message, Send(c, m)
      PROVE  QueueInv'
  BY <1>2, QuietQueueInv DEF Send
<1>3. ASSUME NEW c \in Collector,
             HangUp(c) \/ BecomeIdle(c) \/ RejectDescriptor(c) \/ ReadAll(c) \/ CollectAndSend(c)
      PROVE  QueueInv'
  <2>1. backlog' \subseteq backlog /\ UNCHANGED <<loop, active, smQueue>>
    BY <1>3 DEF HangUp, BecomeIdle, RejectDescriptor, ReadAll, CollectAndSend
  <2>2. QED  BY <2>1, QuietQueueInv
<1>4. ASSUME NEW c \in Collector, Accept(c)
      PROVE  QueueInv'
  BY <1>4, AcceptQueueInv
<1>5. ASSUME NEW c \in Collector, ReadAndLeave(c)
      PROVE  QueueInv'
  BY <1>5, ReadAndLeaveQueueInv
<1>6. ASSUME NEW s \in servers, AcceptFails(s)
      PROVE  QueueInv'
  BY <1>6, QuietQueueInv DEF AcceptFails
<1>7. CASE CollectorsTimer
  BY <1>7, TimerQueueInv
<1>8. CASE requestHandler
  BY <1>8, MonitorQueueInv, RemoveQueueInv, UpdateQueueInv DEF requestHandler
<1>9. CASE Restart
  BY <1>9, RestartQueueInv
<1>10. CASE UNCHANGED vars
  BY <1>10, QuietQueueInv DEF vars
<1>11. QED
  BY <1>1, <1>2, <1>3, <1>4, <1>5, <1>6, <1>7, <1>8, <1>9, <1>10
     DEF Next, ReadCallback

\* The queue invariant holds in every state.
LEMMA QueueInvCorrect == Spec => []QueueInv
<1>1. TypeOK => SessionTypeOK
  BY DEF TypeOK
<1>2. QED  BY <1>1, InitQueueInv, NextQueueInv, TypeCorrect, PTL DEF Spec

\* A collector whose source left the loop is never listed for good: its removal
\* is queued, and behind any request to monitor it.
THEOREM DeadCollectorsLeaveCorrect == Spec => []DeadCollectorsLeave
<1>1. QueueInv => DeadCollectorsLeave
  BY DEF QueueInv
<1>2. QED  BY <1>1, QueueInvCorrect, PTL

\* No session escapes the inactivity timer.
THEOREM SessionsMonitoredCorrect == Spec => []SessionsMonitored
<1>1. QueueInv => SessionsMonitored
  BY DEF QueueInv
<1>2. QED  BY <1>1, QueueInvCorrect, PTL

-----------------------------------------------------------------------------
(* The counter of the TCP sessions *)

\* What one TCP session more, or less, does to the number of TCP sessions and
\* to an unsigned short that equals it.
LEMMA SessionCount ==
  ASSUME NEW L \in SUBSET Collector, NEW c \in Collector
  PROVE  /\ c \in TCP /\ c \notin L =>
              inc(Cardinality(L \cap TCP)) = Cardinality((L \cup {c}) \cap TCP)
         /\ c \in TCP /\ c \in L =>
              dec(Cardinality(L \cap TCP)) = Cardinality((L \ {c}) \cap TCP)
         /\ c \notin TCP => /\ (L \cup {c}) \cap TCP = L \cap TCP
                           /\ (L \ {c}) \cap TCP = L \cap TCP
<1> DEFINE S == L \cap TCP
<1>1. /\ IsFiniteSet(S) /\ Cardinality(S) \in Nat
  BY FS_Subset, FS_CardinalityType, CollectorsAssumption
<1>2. ASSUME c \in TCP, c \notin L
      PROVE  inc(Cardinality(S)) = Cardinality((L \cup {c}) \cap TCP)
  <2>1. (L \cup {c}) \cap TCP = S \cup {c} /\ c \notin S
    BY <1>2
  <2>2. Cardinality(S \cup {c}) = Cardinality(S) + 1
    BY <1>1, <2>1, FS_AddElement
  <2>3. S \cup {c} \in SUBSET Collector
    OBVIOUS
  <2>4. Cardinality(S \cup {c}) <= Cardinality(Collector)
    BY <2>3, FS_Subset, CollectorsAssumption
  <2> HIDE DEF S
  <2>5. Cardinality(Collector) \in Nat
    BY FS_CardinalityType, CollectorsAssumption
  <2>6. Cardinality(S) # UShortMax
    BY <1>1, <2>2, <2>4, <2>5, CollectorsAssumption
  <2>7. QED  BY <2>1, <2>2, <2>6 DEF inc
<1>3. ASSUME c \in TCP, c \in L
      PROVE  dec(Cardinality(S)) = Cardinality((L \ {c}) \cap TCP)
  <2>1. (L \ {c}) \cap TCP = S \ {c} /\ c \in S
    BY <1>3
  <2>2. IsFiniteSet(S \ {c}) /\ Cardinality(S \ {c}) = Cardinality(S) - 1
    BY <1>1, <2>1, FS_RemoveElement
  <2>3. Cardinality(S \ {c}) \in Nat
    BY <2>2, FS_CardinalityType
  <2> HIDE DEF S
  <2>4. Cardinality(S) # 0
    BY <1>1, <2>2, <2>3
  <2>5. QED  BY <2>1, <2>2, <2>4 DEF dec
<1>4. ASSUME c \notin TCP
      PROVE  (L \cup {c}) \cap TCP = S /\ (L \ {c}) \cap TCP = S
  BY <1>4
<1>5. QED  BY <1>2, <1>3, <1>4

\* The counter moves with the TCP sources that enter and leave the loop.
LEMMA NextCounterCountsSessions ==
  ASSUME SessionTypeOK, QueueInv, CounterCountsSessions, RemFinalizes, [Next]_vars
  PROVE  CounterCountsSessions'
<1> DEFINE n == Cardinality(loop \cap TCP)
<1>1. procAcctCollectorCounter = n /\ loop \in SUBSET Collector
  BY DEF CounterCountsSessions, SessionTypeOK
<1>2. CASE UNCHANGED <<loop, procAcctCollectorCounter>>
  BY <1>1, <1>2 DEF CounterCountsSessions
<1>3. ASSUME NEW c \in Collector, Accept(c)
      PROVE  CounterCountsSessions'
  <2>1. c \notin loop /\ loop' = loop \cup {c}
    BY <1>3 DEF Accept, QueueInv, BacklogFresh
  <2>2. CASE c \in TCP
    <3>1. procAcctCollectorCounter' = inc(n)
      BY <1>1, <1>3, <2>2 DEF Accept
    <3>2. inc(n) = Cardinality((loop \cup {c}) \cap TCP)
      BY <1>1, <2>1, <2>2, SessionCount
    <3>3. QED  BY <2>1, <3>1, <3>2 DEF CounterCountsSessions
  <2>3. CASE c \notin TCP
    <3>1. procAcctCollectorCounter' = n
      BY <1>1, <1>3, <2>3 DEF Accept
    <3>2. (loop \cup {c}) \cap TCP = loop \cap TCP
      BY <2>3
    <3>3. QED  BY <2>1, <3>1, <3>2 DEF CounterCountsSessions
  <2>4. QED  BY <2>2, <2>3
<1>4. ASSUME NEW c \in loop, LeaveLoop(c), Finalize(c)
      PROVE  CounterCountsSessions'
  <2>1. c \in Collector /\ loop' = loop \ {c}
    BY <1>1, <1>4 DEF LeaveLoop
  <2>2. CASE c \in TCP
    <3>1. procAcctCollectorCounter' = dec(n)
      BY <1>1, <1>4, <2>2 DEF Finalize
    <3>2. dec(n) = Cardinality((loop \ {c}) \cap TCP)
      BY <1>1, <2>1, <2>2, SessionCount
    <3>3. QED  BY <2>1, <3>1, <3>2 DEF CounterCountsSessions
  <2>3. CASE c \notin TCP
    <3>1. procAcctCollectorCounter' = n
      BY <1>1, <1>4, <2>3 DEF Finalize
    <3>2. (loop \ {c}) \cap TCP = loop \cap TCP
      BY <2>3
    <3>3. QED  BY <2>1, <3>1, <3>2 DEF CounterCountsSessions
  <2>4. QED  BY <2>2, <2>3
<1>5. ASSUME NEW c \in Collector, ReadAndLeave(c)
      PROVE  CounterCountsSessions'
  BY <1>4, <1>5 DEF ReadAndLeave
<1>6. CASE doRemoveCollector(Head(smQueue))
  <2>1. \/ UNCHANGED <<loop, procAcctCollectorCounter>>
        \/ LET c == Head(smQueue).collector IN
             c \in loop /\ LeaveLoop(c) /\ Finalize(c)
    BY <1>6 DEF doRemoveCollector
  <2>2. QED  BY <1>2, <1>4, <2>1
<1>7. CASE Restart
  <2>1. loop' \cap TCP = {} /\ procAcctCollectorCounter' = 0
    BY <1>7 DEF Restart
  <2>2. QED  BY <2>1, FS_EmptySet DEF CounterCountsSessions
<1>8. ASSUME NEW c \in Collector,
             \/ Connect(c) \/ HangUp(c) \/ BecomeIdle(c)
             \/ \E m \in Message : Send(c, m)
             \/ RejectDescriptor(c) \/ ReadAll(c) \/ CollectAndSend(c)
      PROVE  UNCHANGED <<loop, procAcctCollectorCounter>>
  BY <1>8 DEF Connect, HangUp, BecomeIdle, Send, RejectDescriptor, ReadAll,
              CollectAndSend
<1>9. ASSUME \/ \E s \in servers : AcceptFails(s)
             \/ CollectorsTimer
             \/ doMonitorCollector(Head(smQueue))
             \/ doUpdateWakeLock(Head(smQueue))
             \/ UNCHANGED vars
      PROVE  UNCHANGED <<loop, procAcctCollectorCounter>>
  BY <1>9 DEF AcceptFails, CollectorsTimer, doMonitorCollector,
              doUpdateWakeLock, vars
<1>10. QED
  BY <1>2, <1>3, <1>5, <1>6, <1>7, <1>8, <1>9 DEF Next, requestHandler, ReadCallback

\* The counter that switches the accounting requests is exact: each TCP session
\* adds one and gives one back, whichever of the timer and the client ends it.
THEOREM CounterCountsSessionsCorrect == Spec => []CounterCountsSessions
<1>1. Init => CounterCountsSessions
  <2> SUFFICES ASSUME Init
               PROVE  CounterCountsSessions
    OBVIOUS
  <2>1. loop \cap TCP = {} /\ procAcctCollectorCounter = 0
    BY DEF Init
  <2>2. QED  BY <2>1, FS_EmptySet DEF CounterCountsSessions
<1>2. SessionTypeOK /\ QueueInv /\ CounterCountsSessions /\ [Next]_vars
        => CounterCountsSessions'
  <2>1. CASE RemFinalizes
    BY <2>1, NextCounterCountsSessions
  <2>2. CASE ~RemFinalizes
    BY <2>2 DEF CounterCountsSessions
  <2>3. QED  BY <2>1, <2>2
<1>3. TypeOK => SessionTypeOK
  BY DEF TypeOK
<1>4. QED  BY <1>1, <1>2, <1>3, TypeCorrect, QueueInvCorrect, PTL DEF Spec

-----------------------------------------------------------------------------
(* The wake lock *)

\* The wake lock is to be looked at again.
UpdateQueued(q) == \E i \in DOMAIN q : q[i].action = "UpdateWakeLock"

\* Requests pushed behind an update of the lock leave it queued.
LEMMA PushKeepsUpdate ==
  ASSUME NEW q \in Seq(Request), NEW t \in Seq(Request), UpdateQueued(q)
  PROVE  UpdateQueued(q \o t)
<1>1. PICK i \in DOMAIN q : q[i].action = "UpdateWakeLock"
  BY DEF UpdateQueued
<1>2. i \in DOMAIN (q \o t) /\ (q \o t)[i] = q[i]
  OBVIOUS
<1>3. QED  BY <1>1, <1>2 DEF UpdateQueued

\* A request of another kind is handled before an update that is queued.
LEMMA HandlerKeepsUpdate ==
  ASSUME NEW q \in Seq(Request), q # <<>>, NEW t \in Seq(Request),
         Head(q).action # "UpdateWakeLock",
         UpdateQueued(q) \/ UpdateQueued(t)
  PROVE  UpdateQueued(Tail(q) \o t)
<1> DEFINE r == Tail(q) \o t
<1>1. q[1] = Head(q) /\ Shifted(q, t, r)
  BY HandlerShift
<1> HIDE DEF r
<1>2. CASE UpdateQueued(q)
  <2>1. PICK i \in DOMAIN q : q[i].action = "UpdateWakeLock"
    BY <1>2 DEF UpdateQueued
  <2>2. i # 1
    BY <1>1, <2>1
  <2>3. i - 1 \in DOMAIN r /\ r[i - 1] = q[i]
    BY <1>1, <2>2 DEF Shifted
  <2>4. QED  BY <2>1, <2>3 DEF UpdateQueued, r
<1>3. CASE UpdateQueued(t)
  <2>1. PICK i \in DOMAIN t : t[i].action = "UpdateWakeLock"
    BY <1>3 DEF UpdateQueued
  <2>2. PICK k \in DOMAIN r : r[k] = t[i]
    BY <1>1 DEF Shifted
  <2>3. QED  BY <2>1, <2>2 DEF UpdateQueued, r
<1>4. QED  BY <1>2, <1>3

\* While the lock is left alone, a TCP session enters or leaves the list only
\* with an update pushed in the same step, and no update leaves the queue.
LEMMA ListStepsUpdate ==
  ASSUME SessionTypeOK, [Next]_vars, ~Restart,
         ~(smQueue # <<>> /\ doUpdateWakeLock(Head(smQueue)))
  PROVE  /\ active' \cap TCP = active \cap TCP \/ UpdateQueued(smQueue')
         /\ UpdateQueued(smQueue) => UpdateQueued(smQueue')
<1>1. CASE UNCHANGED <<active, smQueue>>
  BY <1>1
<1>2. ASSUME NEW t \in Seq(Request), smQueue' = smQueue \o t, active' = active
      PROVE  UpdateQueued(smQueue) => UpdateQueued(smQueue')
  BY <1>2, PushKeepsUpdate DEF SessionTypeOK
<1>3. ASSUME NEW c \in Collector, Accept(c)
      PROVE  active' = active /\ (UpdateQueued(smQueue) => UpdateQueued(smQueue'))
  <2> DEFINE t == IF c \in Monitored THEN <<MonitorCollector(c)>> ELSE <<>>
  <2>1. smQueue' = smQueue \o t /\ active' = active
    BY <1>3 DEF Accept
  <2>2. t \in Seq(Request)
    BY RequestTypes
  <2> HIDE DEF t
  <2>3. QED  BY <1>2, <2>1, <2>2
<1>4. ASSUME NEW c \in Collector, ReadAndLeave(c)
      PROVE  active' = active /\ (UpdateQueued(smQueue) => UpdateQueued(smQueue'))
  BY <1>2, <1>4, FinalizeRequestsShape DEF ReadAndLeave
<1>5. ASSUME CollectorsTimer
      PROVE  active' = active /\ (UpdateQueued(smQueue) => UpdateQueued(smQueue'))
  <2> DEFINE late == {c \in active : Inactive(c)}
  <2>1. PICK order \in SetToSeqs(late) : smQueue' = smQueue \o Removals(order)
    BY <1>5 DEF CollectorsTimer
  <2>2. late \in SUBSET Collector
    BY DEF SessionTypeOK
  <2> HIDE DEF late
  <2>3. Removals(order) \in Seq(Request)
    BY <2>2, TimerRequestsShape
  <2>4. active' = active
    BY <1>5 DEF CollectorsTimer
  <2>5. QED  BY <1>2, <2>1, <2>3, <2>4
<1>6. ASSUME smQueue # <<>>,
             doMonitorCollector(Head(smQueue)) \/ doRemoveCollector(Head(smQueue))
      PROVE  /\ active' \cap TCP = active \cap TCP \/ UpdateQueued(smQueue')
             /\ UpdateQueued(smQueue) => UpdateQueued(smQueue')
  <2> DEFINE c == Head(smQueue).collector
  <2>1. c \in Collector
    BY <1>6, PopAndPush, RequestForms DEF SessionTypeOK
  <2>2. Head(smQueue).action # "UpdateWakeLock"
    BY <1>6 DEF doMonitorCollector, doRemoveCollector
  <2>3. active' = active \cup {c} \/ active' = active \ {c}
    BY <1>6 DEF doMonitorCollector, doRemoveCollector
  <2>4. PICK t : /\ smQueue' = Tail(smQueue) \o t /\ t \in Seq(Request)
                 /\ c \in TCP => UpdateQueued(t)
    <3>1. /\ WakeLockRequests(c) \in Seq(Request)
          /\ c \in TCP => UpdateQueued(WakeLockRequests(c))
      BY <2>1, WakeLockRequestsShape, RequestFields DEF UpdateQueued
    <3> DEFINE b == FinalizeRequests(c) \o WakeLockRequests(c)
    <3>2. b \in Seq(Request) /\ (c \in TCP => UpdateQueued(b))
      <4>1. b = FinalizeRequests(c) \o WakeLockRequests(c)
        OBVIOUS
      <4> HIDE DEF b, c
      <4>2. /\ b \in Seq(Request)
            /\ c \in TCP => \E i \in DOMAIN b : b[i] = UpdateWakeLock(c)
        BY <2>1, <4>1, BothRequestsShape
      <4>3. QED  BY <4>2, RequestFields DEF UpdateQueued
    <3>3. smQueue' = Tail(smQueue) \o WakeLockRequests(c) \/ smQueue' = Tail(smQueue) \o b
      <4>1. /\ Tail(smQueue) \in Seq(Request)
            /\ FinalizeRequests(c) \in Seq(Request)
            /\ WakeLockRequests(c) \in Seq(Request)
        <5>1. Tail(smQueue) \in Seq(Request)
          BY <1>6 DEF SessionTypeOK
        <5>2. FinalizeRequests(c) \in Seq(Request)
          BY <2>1, FinalizeRequestsShape
        <5>3. QED  BY <3>1, <5>1, <5>2
      <4>2. \A x, y, z \in Seq(Request) : x \o y \o z = x \o (y \o z)
        OBVIOUS
      <4>3. \/ smQueue' = Tail(smQueue) \o WakeLockRequests(c)
            \/ smQueue' = Tail(smQueue) \o FinalizeRequests(c) \o WakeLockRequests(c)
        BY <1>6 DEF doMonitorCollector, doRemoveCollector
      <4>4. QED  BY <4>1, <4>2, <4>3
    <3> HIDE DEF b
    <3>4. QED  BY <3>1, <3>2, <3>3
  <2> HIDE DEF c
  <2>5. UpdateQueued(smQueue) \/ UpdateQueued(t) => UpdateQueued(smQueue')
    BY <1>6, <2>2, <2>4, HandlerKeepsUpdate DEF SessionTypeOK
  <2>6. CASE c \in TCP
    BY <2>4, <2>5, <2>6
  <2>7. CASE c \notin TCP
    <3>1. active' \cap TCP = active \cap TCP
      BY <2>3, <2>7
    <3>2. QED  BY <2>5, <3>1
  <2>8. QED  BY <2>6, <2>7
<1>7. ASSUME NEW c \in Collector,
             \/ Connect(c) \/ HangUp(c) \/ BecomeIdle(c)
             \/ \E m \in Message : Send(c, m)
             \/ RejectDescriptor(c) \/ ReadAll(c) \/ CollectAndSend(c)
      PROVE  UNCHANGED <<active, smQueue>>
  BY <1>7 DEF Connect, HangUp, BecomeIdle, Send, RejectDescriptor, ReadAll,
              CollectAndSend
<1>8. ASSUME (\E s \in servers : AcceptFails(s)) \/ UNCHANGED vars
      PROVE  UNCHANGED <<active, smQueue>>
  BY <1>8 DEF AcceptFails, vars
<1>9. CASE requestHandler
  BY <1>6, <1>9 DEF requestHandler
<1>10. CASE \E c \in Collector : Accept(c) \/ ReadAndLeave(c)
  BY <1>3, <1>4, <1>10
<1>11. QED
  BY <1>1, <1>5, <1>7, <1>8, <1>9, <1>10 DEF Next, ReadCallback

\* Every step keeps the agreement of lock, flag and list.
LEMMA NextLockInv == TypeOK /\ LockInv /\ [Next]_vars => LockInv'
<1> SUFFICES ASSUME TypeOK, LockInv, [Next]_vars
             PROVE  LockInv'
  OBVIOUS
<1> DEFINE have == active \cap TCP # {}
           want == TCPActiveWakeLock /\ WakeLockSysfs /\ have
<1>1. /\ SessionTypeOK /\ kernelLock \in BOOLEAN /\ wakeLock \in BOOLEAN
      /\ kernelLock = wakeLock
      /\ kernelLock => TCPActiveWakeLock /\ WakeLockSysfs
  BY DEF TypeOK, LockTypeOK, LockInv, LockAgrees
<1>2. CASE Restart
  <2>1. wakeLock' = FALSE /\ active' \cap TCP = {}
    BY <1>2 DEF Restart
  <2>2. kernelLock' = FALSE
    BY <1>1, <1>2 DEF Restart
  <2>3. LockAgrees'
    BY <2>1, <2>2 DEF LockAgrees
  <2>4. QED  BY <2>1, <2>2, <2>3 DEF LockInv, WakeLockCurrent
<1>3. CASE doUpdateWakeLock(Head(smQueue))
  <2>1. active' = active
    BY <1>3 DEF doUpdateWakeLock
  <2>2. CASE TCPActiveWakeLock /\ WakeLockSysfs /\ have # wakeLock
    <3>1. wakeLock' = have /\ kernelLock' = have
      BY <1>3, <2>2 DEF doUpdateWakeLock
    <3>2. LockAgrees'
      BY <2>2, <3>1 DEF LockAgrees
    <3>3. kernelLock' = want
      BY <2>2, <3>1
    <3>4. QED  BY <2>1, <3>2, <3>3 DEF LockInv, WakeLockCurrent
  <2>3. CASE ~(TCPActiveWakeLock /\ WakeLockSysfs /\ have # wakeLock)
    <3>1. wakeLock' = wakeLock /\ kernelLock' = kernelLock
      BY <1>3, <2>3 DEF doUpdateWakeLock
    <3>2. LockAgrees'
      BY <1>1, <3>1 DEF LockAgrees
    <3>3. kernelLock = want
      <4>1. CASE TCPActiveWakeLock /\ WakeLockSysfs
        BY <1>1, <2>3, <4>1
      <4>2. CASE ~(TCPActiveWakeLock /\ WakeLockSysfs)
        <5>1. kernelLock = FALSE
          BY <1>1, <4>2
        <5>2. want = FALSE
          BY <4>2
        <5>3. QED  BY <5>1, <5>2
      <4>3. QED  BY <4>1, <4>2
    <3>4. QED  BY <2>1, <3>1, <3>2, <3>3 DEF LockInv, WakeLockCurrent
  <2>4. QED  BY <2>2, <2>3
<1>4. CASE ~Restart /\ ~(smQueue # <<>> /\ doUpdateWakeLock(Head(smQueue)))
  <2>1. wakeLock' = wakeLock /\ kernelLock' = kernelLock
    BY <1>4, LockSteps
  <2>2. /\ active' \cap TCP = active \cap TCP \/ UpdateQueued(smQueue')
        /\ UpdateQueued(smQueue) => UpdateQueued(smQueue')
    BY <1>1, <1>4, ListStepsUpdate
  <2>3. LockAgrees'
    BY <1>1, <2>1 DEF LockAgrees
  <2>4. CASE UpdateQueued(smQueue')
    BY <2>3, <2>4 DEF LockInv, WakeLockCurrent, UpdateQueued
  <2>5. CASE active' \cap TCP = active \cap TCP /\ ~UpdateQueued(smQueue)
    <3>1. kernelLock = want
      BY <2>5 DEF LockInv, WakeLockCurrent, UpdateQueued
    <3>2. QED  BY <2>1, <2>3, <2>5, <3>1 DEF LockInv, WakeLockCurrent
  <2>6. QED  BY <2>2, <2>4, <2>5
<1>5. QED  BY <1>2, <1>3, <1>4

\* The wake lock invariant holds in every state.
LEMMA LockInvCorrect == Spec => []LockInv
<1>1. Init => LockInv
  <2> SUFFICES ASSUME Init
               PROVE  LockInv
    OBVIOUS
  <2>1. kernelLock = FALSE /\ wakeLock = FALSE /\ active \cap TCP = {}
    BY DEF Init
  <2>2. LockAgrees
    BY <2>1 DEF LockAgrees
  <2>3. QED  BY <2>1, <2>2 DEF LockInv, WakeLockCurrent
<1>2. QED  BY <1>1, NextLockInv, TypeCorrect, PTL DEF Spec

\* The kernel holds the lock exactly while a TCP session is listed, but for the
\* time an update is queued, and whatever ended the session or the process.
THEOREM WakeLockCurrentCorrect == Spec => []WakeLockCurrent
<1>1. LockInv => WakeLockCurrent
  BY DEF LockInv
<1>2. QED  BY <1>1, LockInvCorrect, PTL

-----------------------------------------------------------------------------

\* The list, the loop, the queue, the counter and the wake lock agree in every
\* state of the daemon.
THEOREM InvariantCorrect == Spec => []IInv
BY TypeCorrect, QueueInvCorrect, CounterCountsSessionsCorrect,
   LockInvCorrect, PTL DEF IInv

=============================================================================
