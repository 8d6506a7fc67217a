--------------------------- MODULE SessionsProofs ---------------------------
(***************************************************************************)
(* Collectors implements Sessions, for any set of clients and any options, *)
(* in a loop that finalizes what is removed from it: every step of the     *)
(* servers, the collectors, StateManager and the modules is a step of the  *)
(* service they give, or changes nothing of it.                            *)
(***************************************************************************)
EXTENDS CollectorsProofs

\* A client that waits to be accepted is owed nothing.
BacklogOwed == \A c \in backlog : pending[c] = 0

\* What the refinement needs of the state.
SessionInv ==
  SessionTypeOK /\ QueueInv /\ CounterCountsSessions /\ BacklogOwed

-----------------------------------------------------------------------------
(* The references a queue holds *)

\* Some request of the queue q is about c.
Mentions(q, c) == \E i \in DOMAIN q : q[i].collector = c

\* A push adds what it mentions, and a pop takes what the head mentioned.
LEMMA MentionsPushed ==
  ASSUME NEW q \in Seq(Request), NEW t \in Seq(Request), NEW c
  PROVE  Mentions(q \o t, c) <=> Mentions(q, c) \/ Mentions(t, c)
<1> DEFINE r == q \o t
<1>1. Pushed(q, 0, t, r) BY PushOnly
<1>2. r \in Seq(Request) /\ q \o t = r BY PushOnly
<1> HIDE DEF r
<1>3. /\ \A k \in DOMAIN r : \/ k \in DOMAIN q /\ r[k] = q[k]
                             \/ \E i \in DOMAIN t : r[k] = t[i]
      /\ \A i \in DOMAIN q : i \in DOMAIN r /\ r[i] = q[i]
      /\ \A i \in DOMAIN t : \E k \in DOMAIN r : r[k] = t[i]
  <2>1. \A k \in DOMAIN r : k + 0 = k BY <1>1 DEF Pushed
  <2>2. \A i \in DOMAIN q : i > 0 /\ i - 0 = i BY <1>1 DEF Pushed
  <2>3. QED BY <1>1, <2>1, <2>2, PushedMembers
<1>4. Mentions(r, c) <=> Mentions(q, c) \/ Mentions(t, c) BY <1>3 DEF Mentions
<1>5. QED BY <1>2, <1>4

\* A queue mentions whom its head and its tail mention.
LEMMA MentionsPopped ==
  ASSUME NEW q \in Seq(Request), q # <<>>, NEW c
  PROVE  /\ Tail(q) \in Seq(Request)
         /\ Mentions(q, c) <=> Head(q).collector = c \/ Mentions(Tail(q), c)
<1> DEFINE r == Tail(q)
<1>1. /\ r \in Seq(Request) /\ DOMAIN r = 1..(Len(q) - 1)
      /\ DOMAIN q = 1..Len(q) /\ Len(q) \in Nat \ {0}
      /\ \A i \in 1..(Len(q) - 1) : r[i] = q[i + 1]
      /\ Head(q) = q[1]
  OBVIOUS
<1> HIDE DEF r
<1>2. /\ 1 \in DOMAIN q
      /\ \A i \in DOMAIN r : i + 1 \in DOMAIN q /\ r[i] = q[i + 1]
      /\ \A i \in DOMAIN q : i # 1 => i - 1 \in DOMAIN r /\ r[i - 1] = q[i]
  BY <1>1
<1>3. Mentions(q, c) <=> Head(q).collector = c \/ Mentions(r, c)
  BY <1>1, <1>2 DEF Mentions
<1>4. QED BY <1>1, <1>3 DEF r

\* What is pushed for c is about c.
LEMMA MentionsOwn ==
  ASSUME NEW c \in Collector, NEW d
  PROVE  /\ WakeLockRequests(c) \in Seq(Request) /\ FinalizeRequests(c) \in Seq(Request)
         /\ Mentions(WakeLockRequests(c), d) => d = c
         /\ Mentions(FinalizeRequests(c), d) <=> d = c
<1>1. /\ WakeLockRequests(c) \in Seq(Request)
      /\ \A i \in DOMAIN WakeLockRequests(c) :
           WakeLockRequests(c)[i] = UpdateWakeLock(c)
  BY WakeLockRequestsShape
<1>2. Mentions(WakeLockRequests(c), d) => d = c
  BY <1>1, RequestFields DEF Mentions
<1>3. /\ FinalizeRequests(c) \in Seq(Request)
      /\ FinalizeRequests(c)[1] = RemoveCollector(c, {})
      /\ DOMAIN FinalizeRequests(c) = {1}
  <2>1. Len(FinalizeRequests(c)) = 1 /\ FinalizeRequests(c) \in Seq(Request)
    BY FinalizeRequestsShape
  <2>2. DOMAIN FinalizeRequests(c) = 1..1 BY <2>1
  <2>3. QED BY <2>1, <2>2, FinalizeRequestsShape
<1>4. Mentions(FinalizeRequests(c), d) <=> d = c
  BY <1>3, RequestFields DEF Mentions
<1>5. QED BY <1>1, <1>2, <1>3, <1>4

-----------------------------------------------------------------------------
(* The stages *)

\* The references to c, but for its source in the loop.
Kept(c) == c \in active \/ pending[c] > 0 \/ Mentions(smQueue, c)

\* The stage of a session in terms of who refers to it.
Stages ==
  \A c \in Collector :
    /\ c \in backlog => SessionOf(c) = "connecting" /\ c \notin loop /\ ~Kept(c)
    /\ c \in loop => SessionOf(c) = "open" /\ c \notin backlog
    /\ c \notin backlog \cup loop =>
         SessionOf(c) = IF Kept(c) THEN "ended" ELSE "closed"
    /\ SessionOf(c) = "open" <=> c \in loop

\* Where a client stands is seen from the backlog, the loop and the references.
LEMMA StagesSeen == SessionInv => Stages
<1> SUFFICES ASSUME SessionInv, NEW c \in Collector
             PROVE  /\ c \in backlog =>
                         SessionOf(c) = "connecting" /\ c \notin loop /\ ~Kept(c)
                    /\ c \in loop => SessionOf(c) = "open" /\ c \notin backlog
                    /\ c \notin backlog \cup loop =>
                         SessionOf(c) = IF Kept(c) THEN "ended" ELSE "closed"
                    /\ SessionOf(c) = "open" <=> c \in loop
  BY DEF Stages
<1>1. Referenced(c) <=> c \in loop \/ Kept(c) BY DEF Referenced, Kept, Mentions
<1>2. c \in backlog => c \notin loop /\ ~Kept(c)
  <2>1. SUFFICES ASSUME c \in backlog PROVE c \notin loop /\ ~Kept(c) OBVIOUS
  <2>2. c \notin loop /\ c \notin active /\ ~Mentions(smQueue, c)
    BY <2>1 DEF SessionInv, QueueInv, BacklogFresh, Mentions
  <2>3. pending[c] = 0 BY <2>1 DEF SessionInv, BacklogOwed
  <2>4. QED BY <2>2, <2>3 DEF Kept
<1>3. CASE c \in backlog
  <2>1. SessionOf(c) = "connecting" BY <1>2, <1>3 DEF SessionOf
  <2>2. QED BY <1>2, <1>3, <2>1
<1>4. CASE c \in loop
  <2>1. SessionOf(c) = "open" BY <1>2, <1>4 DEF SessionOf
  <2>2. QED BY <1>2, <1>4, <2>1
<1>5. CASE c \notin backlog /\ c \notin loop
  <2>1. SessionOf(c) = IF Kept(c) THEN "ended" ELSE "closed"
    BY <1>1, <1>5 DEF SessionOf
  <2>2. QED BY <1>5, <2>1
<1>6. QED BY <1>3, <1>4, <1>5

\* The same after a step.
LEMMA StagesAfter == SessionInv' => Stages'
BY StagesSeen, PTL

\* Task accounting is asked for while a TCP source is in the loop.
AccountingSeen == procAcctCollectorCounter # 0 <=> \E c \in TCP : c \in loop

\* It is, in a loop that finalizes what is removed: each session is given back.
LEMMA AccountingCounted == RemFinalizes /\ SessionInv => AccountingSeen
<1> SUFFICES ASSUME RemFinalizes, SessionInv PROVE AccountingSeen OBVIOUS
<1> DEFINE s == loop \cap TCP
<1>1. procAcctCollectorCounter = Cardinality(s)
  BY DEF SessionInv, CounterCountsSessions
<1>2. s \subseteq Collector BY CollectorsAssumption
<1>3. IsFiniteSet(s) BY <1>2, CollectorsAssumption, FS_Subset
<1>4. Cardinality(s) = 0 <=> s = {}
  <2> HIDE DEF s
  <2>1. QED BY <1>3, FS_EmptySet
<1>5. s = {} <=> ~\E c \in TCP : c \in loop OBVIOUS
<1>6. QED BY <1>1, <1>4, <1>5 DEF AccountingSeen

\* The same after a step.
LEMMA AccountingAfter == (RemFinalizes /\ SessionInv)' => AccountingSeen'
BY AccountingCounted, PTL

-----------------------------------------------------------------------------
(* Steps of the service *)

\* What the service sees of the others does not change.
OthersStay(c) == \A d \in Collector : d # c => SessionOf(d)' = SessionOf(d)

\* A session that moves from one stage to another.
LEMMA MoveStep ==
  ASSUME RemFinalizes, SessionInv', NEW c \in Collector, NEW From, NEW to,
         SessionOf(c) \in From, SessionOf(c)' = to, OthersStay(c)
  PROVE  Service!Moves(c, From, to)
<1> DEFINE stages == [d \in Collector |-> SessionOf(d)]
<1>1. stages[c] \in From OBVIOUS
<1>2. stages' = [stages EXCEPT ![c] = to]
  <2>1. \A d \in Collector : SessionOf(d)' = IF d = c THEN to ELSE SessionOf(d)
    BY DEF OthersStay
  <2>2. QED BY <2>1
<1>3. (procAcctCollectorCounter # 0)' = (\E d \in TCP : stages'[d] = "open")
  <2>1. (procAcctCollectorCounter # 0)' <=> \E d \in TCP : d \in loop'
    BY AccountingAfter DEF AccountingSeen
  <2>2. \A d \in TCP : d \in Collector BY CollectorsAssumption
  <2>3. \A d \in Collector : stages'[d] = SessionOf(d)' OBVIOUS
  <2>4. \A d \in TCP : stages'[d] = "open" <=> d \in loop'
    BY <2>2, <2>3, StagesAfter DEF Stages
  <2>5. QED BY <2>1, <2>4
<1>4. QED BY <1>1, <1>2, <1>3 DEF Service!Moves

\* Nothing of the service changes while nobody comes, goes or loses its last
\* reference.
LEMMA StayStep ==
  ASSUME SessionInv, SessionInv', UNCHANGED <<backlog, loop>>, NEW d \in Collector,
         d \notin backlog \cup loop => (Kept(d)' <=> Kept(d))
  PROVE  SessionOf(d)' = SessionOf(d)
BY StagesSeen, StagesAfter DEF Stages

\* While the loop stays, so does what is asked of the kernel.
LEMMA AccountingStays ==
  ASSUME RemFinalizes, SessionInv, SessionInv', UNCHANGED loop
  PROVE  UNCHANGED (procAcctCollectorCounter # 0)
<1>1. procAcctCollectorCounter # 0 <=> \E c \in TCP : c \in loop
  BY AccountingCounted DEF AccountingSeen
<1>2. (procAcctCollectorCounter # 0)' <=> \E c \in TCP : c \in loop'
  BY AccountingAfter DEF AccountingSeen
<1>3. QED BY <1>1, <1>2

\* A step that changes no stage and nothing owed is none of the service.
LEMMA Stutter ==
  ASSUME RemFinalizes, SessionInv, SessionInv', UNCHANGED <<loop, pending>>,
         \A d \in Collector : SessionOf(d)' = SessionOf(d)
  PROVE  UNCHANGED Service!vars
<1>1. [d \in Collector |-> SessionOf(d)]' = [d \in Collector |-> SessionOf(d)]
  OBVIOUS
<1>2. UNCHANGED (procAcctCollectorCounter # 0) BY AccountingStays
<1>3. QED BY <1>1, <1>2 DEF Service!vars

\* A client that connects had nothing left, and one that is accepted or refused is
\* owed nothing.
LEMMA ServerStep ==
  ASSUME RemFinalizes, SessionInv, SessionInv', NEW c \in Collector,
         Connect(c) \/ Accept(c) \/ RejectDescriptor(c)
  PROVE  Service!Connect(c) \/ Service!Open(c) \/ Service!Refuse(c)
<1>1. UNCHANGED <<pending, active>> BY DEF Connect, Accept, RejectDescriptor
<1>2. smQueue \in Seq(Request) BY DEF SessionInv, SessionTypeOK
<1>3. \A d \in Collector : d # c => (d \in backlog' <=> d \in backlog)
                                     /\ (d \in loop' <=> d \in loop)
  BY DEF Connect, Accept, RejectDescriptor
<1>4. \A d \in Collector : d # c => (Mentions(smQueue, d)' <=> Mentions(smQueue, d))
  <2>1. CASE UNCHANGED smQueue BY <2>1 DEF Mentions
  <2>2. CASE smQueue' = smQueue \o <<MonitorCollector(c)>>
    <3> DEFINE t == <<MonitorCollector(c)>>
    <3>1. t \in Seq(Request) /\ DOMAIN t = {1} /\ t[1] = MonitorCollector(c)
      BY RequestTypes
    <3> HIDE DEF t
    <3>2. \A d : d # c => ~Mentions(t, d) BY <3>1, RequestFields DEF Mentions
    <3>3. \A d : Mentions(smQueue \o t, d) <=> Mentions(smQueue, d) \/ Mentions(t, d)
      BY <1>2, <3>1, MentionsPushed
    <3>4. smQueue' = smQueue \o t BY <2>2 DEF t
    <3>5. \A d : Mentions(smQueue, d)' <=> Mentions(smQueue', d) BY DEF Mentions
    <3>6. QED BY <3>2, <3>3, <3>4, <3>5
  <2>3. CASE smQueue' = smQueue \o <<>>
    <3>1. smQueue' = smQueue BY <1>2, <2>3
    <3>2. QED BY <3>1 DEF Mentions
  <2>4. QED BY <2>1, <2>2, <2>3 DEF Connect, Accept, RejectDescriptor
<1>5. \A d \in Collector : d # c => (Kept(d)' <=> Kept(d)) BY <1>1, <1>4 DEF Kept
<1>6. OthersStay(c)
  BY <1>3, <1>5, StagesSeen, StagesAfter DEF OthersStay, Stages
<1>7. CASE Connect(c)
  <2>1. c \notin backlog /\ c \notin loop /\ ~Kept(c) /\ c \in backlog'
    BY <1>7 DEF Connect, Referenced, Kept, Mentions
  <2>2. SessionOf(c) = "closed" /\ SessionOf(c)' = "connecting"
    BY <2>1, StagesSeen, StagesAfter DEF Stages
  <2>3. SessionOf(c) \in {"closed"} BY <2>2
  <2>4. Service!Moves(c, {"closed"}, "connecting") BY <1>6, <2>2, <2>3, MoveStep
  <2>5. QED BY <1>1, <2>4 DEF Service!Connect
<1>8. CASE Accept(c)
  <2>1. c \in backlog /\ c \in loop' BY <1>8 DEF Accept
  <2>2. SessionOf(c) = "connecting" /\ SessionOf(c)' = "open"
    BY <2>1, StagesSeen, StagesAfter DEF Stages
  <2>3. SessionOf(c) \in {"connecting"} BY <2>2
  <2>4. Service!Moves(c, {"connecting"}, "open") BY <1>6, <2>2, <2>3, MoveStep
  <2>5. QED BY <1>1, <2>4 DEF Service!Open
<1>9. CASE RejectDescriptor(c)
  <2>1. c \in backlog /\ c \notin backlog' /\ UNCHANGED <<loop, active, pending, smQueue>>
    BY <1>9 DEF RejectDescriptor
  <2>2. c \notin loop /\ ~Kept(c) BY <2>1, StagesSeen DEF Stages
  <2>3. c \notin loop' /\ ~Kept(c)' BY <2>1, <2>2 DEF Kept, Mentions
  <2>4. SessionOf(c) = "connecting" /\ SessionOf(c)' = "closed"
    BY <2>1, <2>3, StagesSeen, StagesAfter DEF Stages
  <2>5. SessionOf(c) \in {"connecting"} BY <2>4
  <2>6. Service!Moves(c, {"connecting"}, "closed") BY <1>6, <2>4, <2>5, MoveStep
  <2>7. QED BY <1>1, <2>6 DEF Service!Refuse
<1>10. QED BY <1>7, <1>8, <1>9

\* Requests are taken in while the session is open, and no others with them.
LEMMA TakesStep ==
  ASSUME SessionInv, NEW c \in Collector, NEW n \in Nat,
         pending' = [pending EXCEPT ![c] = @ + n]
  PROVE  Service!Takes(c)
<1>1. pending \in [Collector -> Nat] BY DEF SessionInv, SessionTypeOK
<1>2. pending'[c] = pending[c] + n BY <1>1
<1>3. pending' = [pending EXCEPT ![c] = pending'[c]] BY <1>1
<1>4. QED BY <1>1, <1>2, <1>3 DEF Service!Takes

\* ReadAll takes the requests of one open session.
LEMMA ReadAllStep ==
  ASSUME RemFinalizes, SessionInv, SessionInv', NEW c \in Collector, ReadAll(c)
  PROVE  Service!Take(c)
<1>1. c \in loop /\ UNCHANGED <<backlog, loop, active, smQueue>> BY DEF ReadAll
<1>2. /\ DataRequests(c, Len(inbox[c])) \in Nat
      /\ pending' = [pending EXCEPT ![c] = @ + DataRequests(c, Len(inbox[c]))]
  <2>1. Len(inbox[c]) \in Nat BY DEF SessionInv, SessionTypeOK
  <2>2. QED BY <2>1, DataRequestsIsNat DEF ReadAll, HandleMessages
<1>3. Service!Takes(c) BY <1>2, TakesStep
<1>4. \A d \in Collector : SessionOf(d)' = SessionOf(d)
  <2>1. pending \in [Collector -> Nat] BY DEF SessionInv, SessionTypeOK
  <2>2. \A d \in Collector : d # c => (Kept(d)' <=> Kept(d))
    BY <1>1, <1>2, <2>1 DEF Kept, Mentions
  <2>3. QED BY <1>1, <2>2, StayStep
<1>5. [d \in Collector |-> SessionOf(d)]' = [d \in Collector |-> SessionOf(d)]
  BY <1>4
<1>6. UNCHANGED (procAcctCollectorCounter # 0) BY <1>1, AccountingStays
<1>7. SessionOf(c) = "open" BY <1>1, StagesSeen DEF Stages
<1>8. QED BY <1>3, <1>5, <1>6, <1>7 DEF Service!Take

\* The source leaves the loop: the session ends, and the request that its finalize
\* callback pushed still refers to it.
LEMMA EndStep ==
  ASSUME RemFinalizes, SessionInv, SessionInv', NEW c \in loop,
         loop' = loop \ {c}, UNCHANGED backlog, Kept(c)',
         \A d \in Collector : d # c => (Kept(d)' <=> Kept(d)),
         Service!Takes(c)
  PROVE  Service!End(c)
<1>1. c \in Collector BY DEF SessionInv, SessionTypeOK
<1>2. SessionOf(c) = "open" BY <1>1, StagesSeen DEF Stages
<1>3. c \notin backlog' BY <1>1, StagesSeen DEF Stages
<1>4. SessionOf(c)' = "ended" BY <1>1, <1>3, StagesAfter DEF Stages
<1>5. OthersStay(c) BY StagesSeen, StagesAfter DEF OthersStay, Stages
<1>6. SessionOf(c) \in {"open"} BY <1>2
<1>7. Service!Moves(c, {"open"}, "ended") BY <1>1, <1>4, <1>5, <1>6, MoveStep
<1>8. QED BY <1>7 DEF Service!End

\* A session that is read and left ends.
LEMMA ReadAndLeaveStep ==
  ASSUME RemFinalizes, SessionInv, SessionInv', NEW c \in Collector, ReadAndLeave(c)
  PROVE  Service!End(c)
<1>1. /\ c \in loop /\ loop' = loop \ {c} /\ UNCHANGED <<backlog, active>>
      /\ smQueue' = smQueue \o FinalizeRequests(c)
  BY DEF ReadAndLeave, LeaveLoop
<1>2. PICK n \in 0..Len(inbox[c]) : HandleMessages(c, n) BY DEF ReadAndLeave
<1>3. /\ DataRequests(c, n) \in Nat
      /\ pending' = [pending EXCEPT ![c] = @ + DataRequests(c, n)]
  BY <1>2, DataRequestsIsNat DEF HandleMessages
<1>4. Service!Takes(c) BY <1>3, TakesStep
<1>5. smQueue \in Seq(Request) /\ pending \in [Collector -> Nat]
  BY DEF SessionInv, SessionTypeOK
<1>6. \A d : Mentions(smQueue', d) <=> Mentions(smQueue, d) \/ d = c
  BY <1>1, <1>5, MentionsPushed, MentionsOwn
<1>7. \A d : Mentions(smQueue, d)' <=> Mentions(smQueue', d) BY DEF Mentions
<1>8. Kept(c)' BY <1>6, <1>7 DEF Kept
<1>9. \A d \in Collector : d # c => (Kept(d)' <=> Kept(d))
  BY <1>1, <1>3, <1>5, <1>6, <1>7 DEF Kept
<1>10. QED BY <1>1, <1>4, <1>8, <1>9, EndStep

\* An answer may be the last that refers to the session.
LEMMA AnswerStep ==
  ASSUME RemFinalizes, SessionInv, SessionInv', NEW c \in Collector, CollectAndSend(c)
  PROVE  Service!Answer(c)
<1>1. /\ pending[c] > 0 /\ pending' = [pending EXCEPT ![c] = @ - 1]
      /\ UNCHANGED <<backlog, loop, active, smQueue>>
  BY DEF CollectAndSend
<1>2. pending \in [Collector -> Nat] BY DEF SessionInv, SessionTypeOK
<1>3. \A d \in Collector : d # c => (Kept(d)' <=> Kept(d))
  BY <1>1, <1>2 DEF Kept, Mentions
<1>4. Kept(c) /\ c \notin backlog
  <2>1. Kept(c) BY <1>1 DEF Kept
  <2>2. QED BY <2>1, StagesSeen DEF Stages
<1>5. CASE c \in loop \/ Kept(c)'
  <2>1. \A d \in Collector : SessionOf(d)' = SessionOf(d)
    BY <1>1, <1>3, <1>4, <1>5, StayStep
  <2>2. [d \in Collector |-> SessionOf(d)]' = [d \in Collector |-> SessionOf(d)]
    BY <2>1
  <2>3. UNCHANGED (procAcctCollectorCounter # 0) BY <1>1, AccountingStays
  <2>4. QED BY <1>1, <2>2, <2>3 DEF Service!Answer
<1>6. CASE c \notin loop /\ ~Kept(c)'
  <2>1. SessionOf(c) = "ended" BY <1>4, <1>6, StagesSeen DEF Stages
  <2>2. SessionOf(c)' = "closed" BY <1>1, <1>4, <1>6, StagesAfter DEF Stages
  <2>3. pending'[c] = 0 BY <1>1, <1>2, <1>6 DEF Kept
  <2>4. OthersStay(c) BY <1>1, <1>3, StayStep DEF OthersStay
  <2>5. SessionOf(c) \in {"ended"} BY <2>1
  <2>6. Service!Moves(c, {"ended"}, "closed") BY <2>2, <2>4, <2>5, MoveStep
  <2>7. QED BY <1>1, <2>3, <2>6 DEF Service!Answer
<1>7. QED BY <1>5, <1>6

\* The timer asks for the removal of those that are listed anyway.
LEMMA TimerStep ==
  ASSUME RemFinalizes, SessionInv, SessionInv', CollectorsTimer
  PROVE  UNCHANGED Service!vars
<1> DEFINE late == {c \in active : Inactive(c)}
<1>1. PICK order \in SetToSeqs(late) : smQueue' = smQueue \o Removals(order)
  BY DEF CollectorsTimer
<1>2. UNCHANGED <<backlog, loop, active, pending>> BY DEF CollectorsTimer
<1>3. late \in SUBSET Collector /\ late \subseteq active /\ smQueue \in Seq(Request)
  BY DEF SessionInv, SessionTypeOK
<1> HIDE DEF late
<1>4. /\ Removals(order) \in Seq(Request)
      /\ \A i \in DOMAIN Removals(order) : \E c \in late :
           Removals(order)[i] = RemoveCollector(c, {"WithEventSource"})
  BY <1>1, <1>3, TimerRequestsShape
<1>5. \A d : Mentions(Removals(order), d) => d \in active
  BY <1>3, <1>4, RequestFields DEF Mentions
<1>6. \A d : Mentions(smQueue', d) <=> Mentions(smQueue, d) \/ Mentions(Removals(order), d)
  BY <1>1, <1>3, <1>4, MentionsPushed
<1>7. \A d : Mentions(smQueue, d)' <=> Mentions(smQueue', d) BY DEF Mentions
<1>8. \A d \in Collector : Kept(d)' <=> Kept(d) BY <1>2, <1>5, <1>6, <1>7 DEF Kept
<1>9. \A d \in Collector : SessionOf(d)' = SessionOf(d) BY <1>2, <1>8, StayStep
<1>10. QED BY <1>2, <1>9, Stutter

\* A request that was handled no longer refers to its collector: the session may be
\* forgotten.
LEMMA HandledStep ==
  ASSUME RemFinalizes, SessionInv, SessionInv', NEW c \in Collector,
         UNCHANGED <<backlog, loop, pending>>, c \notin backlog, Kept(c),
         \A d \in Collector : d # c => (Kept(d)' <=> Kept(d))
  PROVE  Service!Release(c) \/ UNCHANGED Service!vars
<1>1. pending \in [Collector -> Nat] BY DEF SessionInv, SessionTypeOK
<1>2. CASE c \in loop \/ Kept(c)'
  <2>1. \A d \in Collector : SessionOf(d)' = SessionOf(d) BY <1>2, StayStep
  <2>2. QED BY <2>1, Stutter
<1>3. CASE c \notin loop /\ ~Kept(c)'
  <2>1. SessionOf(c) = "ended" BY <1>3, StagesSeen DEF Stages
  <2>2. SessionOf(c)' = "closed" BY <1>3, StagesAfter DEF Stages
  <2>3. pending[c] = 0 BY <1>1, <1>3 DEF Kept
  <2>4. OthersStay(c) BY StayStep DEF OthersStay
  <2>5. SessionOf(c) \in {"ended"} BY <2>1
  <2>6. Service!Moves(c, {"ended"}, "closed") BY <2>2, <2>4, <2>5, MoveStep
  <2>7. QED BY <2>3, <2>6 DEF Service!Release
<1>4. QED BY <1>2, <1>3

\* StateManager lists a collector, takes it out of the list and of the loop, or
\* looks at the wake lock.
LEMMA HandlerStep ==
  ASSUME RemFinalizes, SessionInv, SessionInv', requestHandler
  PROVE  (\E c \in Collector : Service!End(c) \/ Service!Release(c))
           \/ UNCHANGED Service!vars
<1> DEFINE rq == Head(smQueue)
           q == Tail(smQueue)
<1>1. smQueue \in Seq(Request) /\ smQueue # <<>> /\ pending \in [Collector -> Nat]
      /\ loop \subseteq Collector
  BY DEF requestHandler, SessionInv, SessionTypeOK
<1>2. rq.collector \in Collector BY <1>1, PopAndPush, RequestForms
<1> PICK c \in Collector : c = rq.collector BY <1>2
<1>3. q \in Seq(Request) /\ \A d : Mentions(smQueue, d) <=> c = d \/ Mentions(q, d)
  BY <1>1, MentionsPopped
<1>4. \A d : Mentions(smQueue, d)' <=> Mentions(smQueue', d) BY DEF Mentions
<1>5. doMonitorCollector(rq) \/ doRemoveCollector(rq) \/ doUpdateWakeLock(rq)
  BY DEF requestHandler
<1>6. UNCHANGED <<backlog, pending>>
      /\ \A d \in Collector : d # c => (d \in active' <=> d \in active)
  BY <1>5 DEF doMonitorCollector, doRemoveCollector, doUpdateWakeLock
<1> HIDE DEF rq, q
<1>7. Kept(c) /\ c \notin backlog
  <2>1. Kept(c) BY <1>3 DEF Kept
  <2>2. QED BY <1>2, <2>1, StagesSeen DEF Stages
<1>8. ASSUME \A d : Mentions(smQueue', d) => Mentions(q, d) \/ d = c,
             \A d : Mentions(q, d) => Mentions(smQueue', d)
      PROVE  \A d \in Collector : d # c => (Kept(d)' <=> Kept(d))
  BY <1>3, <1>4, <1>6, <1>8 DEF Kept
<1>9. ASSUME smQueue' \in {q, q \o WakeLockRequests(c)}, UNCHANGED loop
      PROVE  (\E d \in Collector : Service!End(d) \/ Service!Release(d))
               \/ UNCHANGED Service!vars
  <2>1. \A d : Mentions(q \o WakeLockRequests(c), d)
                 <=> Mentions(q, d) \/ Mentions(WakeLockRequests(c), d)
    BY <1>2, <1>3, MentionsOwn, MentionsPushed
  <2>2. /\ \A d : Mentions(smQueue', d) => Mentions(q, d) \/ d = c
        /\ \A d : Mentions(q, d) => Mentions(smQueue', d)
    <3>1. \A d : Mentions(WakeLockRequests(c), d) => d = c BY MentionsOwn
    <3>2. CASE smQueue' = q BY <3>2
    <3>3. CASE smQueue' = q \o WakeLockRequests(c) BY <2>1, <3>1, <3>3
    <3>4. QED BY <1>9, <3>2, <3>3
  <2>3. \A d \in Collector : d # c => (Kept(d)' <=> Kept(d)) BY <1>8, <2>2
  <2>4. Service!Release(c) \/ UNCHANGED Service!vars
    BY <1>2, <1>6, <1>7, <1>9, <2>3, HandledStep
  <2>5. QED BY <1>2, <2>4
<1>10. CASE /\ c \in loop /\ loop' = loop \ {c}
            /\ smQueue' = q \o FinalizeRequests(c) \o WakeLockRequests(c)
  <2> DEFINE f == q \o FinalizeRequests(c)
  <2>1. f \in Seq(Request) /\ \A d : Mentions(f, d) <=> Mentions(q, d) \/ d = c
    <3>1. FinalizeRequests(c) \in Seq(Request) BY <1>2, MentionsOwn
    <3>2. \A d : Mentions(f, d) <=> Mentions(q, d) \/ Mentions(FinalizeRequests(c), d)
      BY <1>3, <3>1, MentionsPushed
    <3>3. f \in Seq(Request) BY <1>3, <3>1, PushOnly
    <3>4. QED BY <1>2, <3>2, <3>3, MentionsOwn
  <2> HIDE DEF f
  <2>2. smQueue' = f \o WakeLockRequests(c) BY <1>10 DEF f
  <2>3. \A d : Mentions(smQueue', d) <=> Mentions(f, d) \/ Mentions(WakeLockRequests(c), d)
    BY <1>2, <2>1, <2>2, MentionsOwn, MentionsPushed
  <2>4. \A d : Mentions(smQueue', d) <=> Mentions(q, d) \/ d = c
    BY <1>2, <2>1, <2>3, MentionsOwn
  <2>5. \A d \in Collector : d # c => (Kept(d)' <=> Kept(d)) BY <1>8, <2>4
  <2>6. Kept(c)' BY <1>4, <2>4 DEF Kept
  <2>7. Service!Takes(c)
    <3>1. 0 \in Nat /\ pending' = [pending EXCEPT ![c] = @ + 0] BY <1>1, <1>2, <1>6
    <3>2. QED BY <1>2, <3>1, TakesStep
  <2>8. Service!End(c) BY <1>6, <1>10, <2>5, <2>6, <2>7, EndStep
  <2>9. QED BY <1>2, <2>8
<1>11. CASE doMonitorCollector(rq) \/ doUpdateWakeLock(rq)
  <2>1. smQueue' \in {q, q \o WakeLockRequests(c)} /\ UNCHANGED loop
    BY <1>11 DEF doMonitorCollector, doUpdateWakeLock, q, rq
  <2>2. QED BY <1>9, <2>1
<1>12. CASE doRemoveCollector(rq)
  <2>1. \/ /\ c \in loop /\ loop' = loop \ {c}
           /\ smQueue' = q \o FinalizeRequests(c) \o WakeLockRequests(c)
        \/ smQueue' = q \o WakeLockRequests(c) /\ UNCHANGED loop
    BY <1>12 DEF doRemoveCollector, LeaveLoop, q, rq
  <2>2. QED BY <1>9, <1>10, <2>1
<1>13. QED BY <1>5, <1>11, <1>12

\* A restart closes everything.
LEMMA RestartStep ==
  ASSUME RemFinalizes, SessionInv, SessionInv', Restart
  PROVE  Service!Restart
<1>1. /\ backlog' = {} /\ loop' = {} /\ active' = {} /\ smQueue' = <<>>
      /\ pending' = [c \in Collector |-> 0] /\ procAcctCollectorCounter' = 0
  BY DEF Restart
<1>2. \A d \in Collector : ~Kept(d)' BY <1>1 DEF Kept, Mentions
<1>3. \A d \in Collector : SessionOf(d)' = "closed"
  BY <1>1, <1>2, StagesAfter DEF Stages
<1>4. [d \in Collector |-> SessionOf(d)]' = [d \in Collector |-> "closed"] BY <1>3
<1>5. (procAcctCollectorCounter # 0)' = FALSE BY <1>1
<1>6. QED BY <1>1, <1>4, <1>5 DEF Service!Restart

\* What clients do to a connection that is served shows only when it is read.
LEMMA QuietSession ==
  ASSUME RemFinalizes, SessionInv, SessionInv',
         UNCHANGED <<backlog, loop, active, pending, smQueue>>
  PROVE  UNCHANGED Service!vars
<1>1. \A d \in Collector : Kept(d)' <=> Kept(d) BY DEF Kept, Mentions
<1>2. \A d \in Collector : SessionOf(d)' = SessionOf(d) BY <1>1, StayStep
<1>3. QED BY <1>2, Stutter

-----------------------------------------------------------------------------
(* The refinement *)

\* At start nobody is connected.
LEMMA InitService == Init => SessionInv /\ Service!Init
<1> SUFFICES ASSUME Init PROVE SessionInv /\ Service!Init OBVIOUS
<1>1. BacklogOwed BY DEF Init, BacklogOwed
<1>2. loop \cap TCP = {} /\ procAcctCollectorCounter = 0 BY DEF Init
<1>3. CounterCountsSessions BY <1>2, FS_EmptySet DEF CounterCountsSessions
<1>4. SessionInv BY <1>1, <1>3, InitTypeOK, InitQueueInv DEF SessionInv, TypeOK
<1>5. \A c \in Collector : ~Kept(c) /\ c \notin backlog \cup loop
  BY DEF Init, Kept, Mentions
<1>6. \A c \in Collector : SessionOf(c) = "closed"
  BY <1>4, <1>5, StagesSeen DEF Stages
<1>7. [c \in Collector |-> SessionOf(c)] = [c \in Collector |-> "closed"] BY <1>6
<1>8. (procAcctCollectorCounter # 0) = FALSE BY <1>2
<1>9. pending = [c \in Collector |-> 0] BY DEF Init
<1>10. Service!Init BY <1>7, <1>8, <1>9 DEF Service!Init
<1>11. QED BY <1>4, <1>10

\* Every step keeps what the refinement needs.
LEMMA NextSessionInv == RemFinalizes /\ SessionInv /\ [Next]_vars => SessionInv'
<1> SUFFICES ASSUME RemFinalizes, SessionInv, [Next]_vars PROVE SessionInv' OBVIOUS
<1>1. SessionTypeOK /\ QueueInv /\ CounterCountsSessions /\ BacklogOwed
      /\ pending \in [Collector -> Nat]
  BY DEF SessionInv, SessionTypeOK
<1>2. SessionTypeOK' /\ QueueInv' BY <1>1, NextSessionTypeOK, NextQueueInv
<1>3. CounterCountsSessions' BY <1>1, NextCounterCountsSessions
<1>4. \A c \in backlog : c \notin loop BY <1>1 DEF QueueInv, BacklogFresh
<1>5. CASE backlog' \subseteq backlog /\ UNCHANGED pending
  BY <1>1, <1>2, <1>3, <1>5 DEF SessionInv, BacklogOwed
<1>6. ASSUME NEW c \in Collector, Connect(c) PROVE BacklogOwed'
  <2>1. pending[c] = 0 BY <1>1, <1>6 DEF Connect, Referenced
  <2>2. QED BY <1>1, <1>6, <2>1 DEF Connect, BacklogOwed
<1>7. ASSUME NEW c \in Collector, c \notin backlog, UNCHANGED backlog, NEW n,
             pending' = [pending EXCEPT ![c] = n]
      PROVE  BacklogOwed'
  BY <1>1, <1>7 DEF BacklogOwed
<1>8. ASSUME NEW c \in Collector, ReadCallback(c) PROVE BacklogOwed'
  <2>1. c \notin backlog /\ UNCHANGED backlog
    BY <1>4, <1>8 DEF ReadCallback, ReadAll, ReadAndLeave
  <2>2. \E n : HandleMessages(c, n)
    BY <1>8 DEF ReadCallback, ReadAll, ReadAndLeave
  <2>3. PICK n : pending' = [pending EXCEPT ![c] = @ + DataRequests(c, n)]
    BY <2>2 DEF HandleMessages
  <2>4. QED BY <1>1, <2>1, <2>3 DEF BacklogOwed
<1>9. ASSUME NEW c \in Collector, CollectAndSend(c) PROVE BacklogOwed'
  <2>1. pending[c] > 0 BY <1>9 DEF CollectAndSend
  <2>2. c \notin backlog BY <1>1, <2>1 DEF BacklogOwed
  <2>3. QED BY <1>1, <1>9, <2>2 DEF CollectAndSend, BacklogOwed
<1>10. CASE Restart
  <2>1. BacklogOwed' BY <1>10 DEF Restart, BacklogOwed
  <2>2. QED BY <1>2, <1>3, <2>1 DEF SessionInv
<1>11. ASSUME BacklogOwed' PROVE SessionInv' BY <1>2, <1>3, <1>11 DEF SessionInv
<1>12. ASSUME NEW c \in Collector,
              \/ HangUp(c) \/ BecomeIdle(c) \/ Accept(c) \/ RejectDescriptor(c)
              \/ \E m \in Message : Send(c, m)
       PROVE  backlog' \subseteq backlog /\ UNCHANGED pending
  BY <1>12 DEF HangUp, BecomeIdle, Accept, RejectDescriptor, Send
<1>13. ASSUME \/ \E s \in servers : AcceptFails(s)
              \/ CollectorsTimer \/ requestHandler \/ UNCHANGED vars
       PROVE  backlog' \subseteq backlog /\ UNCHANGED pending
  BY <1>13 DEF AcceptFails, CollectorsTimer, requestHandler, doMonitorCollector,
               doRemoveCollector, doUpdateWakeLock, vars
<1>14. QED
  BY <1>5, <1>6, <1>8, <1>9, <1>10, <1>11, <1>12, <1>13 DEF Next

\* Every step is a step of the service or none.
LEMMA NextService ==
  RemFinalizes /\ SessionInv /\ SessionInv' /\ [Next]_vars
    => [Service!Next]_(Service!vars)
<1> SUFFICES ASSUME RemFinalizes, SessionInv, SessionInv', [Next]_vars
             PROVE  Service!Next \/ UNCHANGED Service!vars
  OBVIOUS
<1>1. ASSUME NEW c \in Collector, Connect(c) \/ Accept(c) \/ RejectDescriptor(c)
      PROVE  Service!Next
  <2>1. Service!Connect(c) \/ Service!Open(c) \/ Service!Refuse(c) BY <1>1, ServerStep
  <2>2. QED BY <2>1 DEF Service!Next
<1>2. ASSUME NEW c \in Collector, ReadCallback(c) PROVE Service!Next
  <2>1. Service!Take(c) \/ Service!End(c)
    BY <1>2, ReadAllStep, ReadAndLeaveStep DEF ReadCallback
  <2>2. QED BY <2>1 DEF Service!Next
<1>3. ASSUME NEW c \in Collector, CollectAndSend(c) PROVE Service!Next
  <2>1. Service!Answer(c) BY <1>3, AnswerStep
  <2>2. QED BY <2>1 DEF Service!Next
<1>4. CASE requestHandler
  <2>1. (\E c \in Collector : Service!End(c) \/ Service!Release(c))
          \/ UNCHANGED Service!vars
    BY <1>4, HandlerStep
  <2>2. QED BY <2>1 DEF Service!Next
<1>5. CASE Restart
  <2>1. Service!Restart BY <1>5, RestartStep
  <2>2. QED BY <2>1 DEF Service!Next
<1>6. CASE CollectorsTimer BY <1>6, TimerStep
<1>7. ASSUME \/ \E c \in Collector : \/ HangUp(c) \/ BecomeIdle(c)
                                     \/ \E m \in Message : Send(c, m)
             \/ \E s \in servers : AcceptFails(s)
             \/ UNCHANGED vars
      PROVE  UNCHANGED Service!vars
  <2>1. UNCHANGED <<backlog, loop, active, pending, smQueue>>
    BY <1>7 DEF HangUp, BecomeIdle, Send, AcceptFails, vars
  <2>2. QED BY <2>1, QuietSession
<1>8. QED BY <1>1, <1>2, <1>3, <1>4, <1>5, <1>6, <1>7 DEF Next

\* The servers, the collectors and StateManager give each client the session of
\* Sessions, whatever the timer, the ends of connections and the requests that
\* are still queued do to each other.
THEOREM SessionsImplemented == RemFinalizes => (Spec => ImplementsSessions)
<1> SUFFICES ASSUME RemFinalizes PROVE Spec => ImplementsSessions OBVIOUS
<1>1. Init => SessionInv /\ Service!Init BY InitService
<1>2. SessionInv /\ [Next]_vars => SessionInv' BY NextSessionInv
<1>3. SessionInv /\ SessionInv' /\ [Next]_vars => [Service!Next]_(Service!vars)
  BY NextService
<1>4. QED BY <1>1, <1>2, <1>3, PTL DEF Spec, ImplementsSessions, Service!Spec

=============================================================================
