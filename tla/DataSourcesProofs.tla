------------------------- MODULE DataSourcesProofs -------------------------
(***************************************************************************)
(* The invariant of the data sources for every set of sources that exist,  *)
(* every set of collectors and every option: its conjuncts are the safety  *)
(* properties themselves, inductive together.                              *)
(***************************************************************************)
EXTENDS DataSources, SequenceTheorems, TLAPS

\* The inductive invariant.
IInv == TypeOK /\ UpdateQueuedOnce /\ DroppedCacheStaysEmpty

-----------------------------------------------------------------------------
(* What the two operations on a queue do to the UpdateStats requests in it *)

\* The two kinds of request cannot be taken for each other.
LEMMA RequestsDiffer ==
  ASSUME NEW c \in Client PROVE CollectAndSend(c) # UpdateStats
  BY DEF CollectAndSend, UpdateStats

\* update() pushes where nothing was pending: exactly one is queued after it.
LEMMA PushUpdate ==
  ASSUME NEW q \in Seq(Request), Updates(q) = {}
  PROVE  /\ Append(q, UpdateStats) \in Seq(Request)
         /\ FlagAgrees(TRUE, Append(q, UpdateStats))
<1> DEFINE r == Append(q, UpdateStats)
<1>1. UpdateStats \in Request BY DEF Request
<1>2. /\ r \in Seq(Request) /\ Len(r) = Len(q) + 1
      /\ \A i \in 1..Len(q) : r[i] = q[i]
      /\ r[Len(q) + 1] = UpdateStats
  BY <1>1
<1>3. DOMAIN r = 1..(Len(q) + 1) /\ DOMAIN q = 1..Len(q) /\ Len(q) \in Nat
  BY <1>2
<1>4. Updates(r) = {Len(q) + 1}
  BY <1>2, <1>3 DEF Updates
<1>5. QED BY <1>2, <1>3, <1>4 DEF FlagAgrees

\* A data request pushed behind them leaves the UpdateStats requests where
\* they are.
LEMMA PushData ==
  ASSUME NEW q \in Seq(Request), NEW c \in Client, NEW flag,
         FlagAgrees(flag, q)
  PROVE  /\ Append(q, CollectAndSend(c)) \in Seq(Request)
         /\ FlagAgrees(flag, Append(q, CollectAndSend(c)))
<1> DEFINE r == Append(q, CollectAndSend(c))
<1>1. CollectAndSend(c) \in Request BY DEF Request
<1>2. /\ r \in Seq(Request) /\ Len(r) = Len(q) + 1
      /\ \A i \in 1..Len(q) : r[i] = q[i]
      /\ r[Len(q) + 1] = CollectAndSend(c)
  BY <1>1
<1>3. DOMAIN r = 1..(Len(q) + 1) /\ DOMAIN q = 1..Len(q) /\ Len(q) \in Nat
  BY <1>2
<1>4. Updates(r) = Updates(q)
  BY <1>2, <1>3, RequestsDiffer DEF Updates
<1>5. QED BY <1>2, <1>3, <1>4 DEF FlagAgrees

\* The places of what is left when the head was taken.
LEMMA TakeHead ==
  ASSUME NEW q \in Seq(Request), q # <<>>
  PROVE  /\ Tail(q) \in Seq(Request)
         /\ DOMAIN q = 1..Len(q) /\ Len(q) \in Nat \ {0} /\ Head(q) = q[1]
         /\ DOMAIN Tail(q) = 1..(Len(q) - 1)
         /\ \A i \in DOMAIN Tail(q) :
              (i \in Updates(Tail(q)) <=> i + 1 \in Updates(q))
<1>1. /\ Tail(q) \in Seq(Request) /\ Len(Tail(q)) = Len(q) - 1
      /\ \A i \in 1..(Len(q) - 1) : Tail(q)[i] = q[i + 1]
      /\ Len(q) \in Nat \ {0} /\ Head(q) = q[1] /\ DOMAIN q = 1..Len(q)
  OBVIOUS
<1>2. DOMAIN Tail(q) = 1..(Len(q) - 1) BY <1>1
<1>3. QED BY <1>1, <1>2 DEF Updates

\* An UpdateStats request was handled: none is left.
LEMMA TakeUpdate ==
  ASSUME NEW q \in Seq(Request), q # <<>>, Head(q) = UpdateStats,
         NEW flag, FlagAgrees(flag, q)
  PROVE  Updates(Tail(q)) = {}
<1>1. 1 \in Updates(q) BY TakeHead DEF Updates
<1>2. Updates(q) = {1} BY <1>1 DEF FlagAgrees
<1>3. \A i \in DOMAIN Tail(q) : i + 1 \notin Updates(q)
  BY <1>2, TakeHead
<1>4. QED BY <1>3, TakeHead DEF Updates

\* A data request was handled: an UpdateStats request behind it moved up.
LEMMA TakeData ==
  ASSUME NEW q \in Seq(Request), q # <<>>, Head(q) # UpdateStats,
         NEW flag, FlagAgrees(flag, q)
  PROVE  FlagAgrees(flag, Tail(q))
<1>1. 1 \notin Updates(q) BY TakeHead DEF Updates
<1>2. CASE Updates(q) = {}
  <2>1. Updates(Tail(q)) = {} BY <1>2, TakeHead DEF Updates
  <2>2. ~flag BY <1>2 DEF FlagAgrees
  <2>3. QED BY <2>1, <2>2 DEF FlagAgrees
<1>3. ASSUME NEW i \in DOMAIN q, Updates(q) = {i}
      PROVE  FlagAgrees(flag, Tail(q))
  <2>1. i \in 2..Len(q) BY <1>1, <1>3, TakeHead
  <2>2. i - 1 \in DOMAIN Tail(q) BY <2>1, TakeHead
  <2>3. \A j \in DOMAIN Tail(q) : j \in Updates(Tail(q)) <=> j = i - 1
    BY <1>3, <2>1, TakeHead
  <2>4. Updates(Tail(q)) = {i - 1} BY <2>2, <2>3 DEF Updates
  <2>5. flag BY <1>3 DEF FlagAgrees
  <2>6. QED BY <2>2, <2>4, <2>5 DEF FlagAgrees
<1>4. QED BY <1>2, <1>3 DEF FlagAgrees

-----------------------------------------------------------------------------
(* The steps *)

\* At start nothing is queued and no flag is set.
LEMMA InitIInv == Init => IInv
<1> SUFFICES ASSUME Init PROVE IInv OBVIOUS
<1>1. TypeOK
  <2>1. <<>> \in Seq(Request) /\ <<>> \in Seq(Client) OBVIOUS
  <2>2. queue \in [Present -> Seq(Request)] BY <2>1 DEF Init
  <2>3. samples \in [Present -> Nat] /\ \A s \in Present : ~(samples[s] > 0)
    BY DEF Init
  <2>4. /\ file \in [Present -> {"ok", "bad", "gone"}]
        /\ updatePending \in [Present -> BOOLEAN]
        /\ startupQueue \in Seq(Client)
        /\ alive \subseteq Present
    BY <2>1 DEF Init
  <2>5. running \in BOOLEAN /\ expired \in BOOLEAN BY DEF Init
  <2>6. QED BY <2>2, <2>3, <2>4, <2>5 DEF TypeOK
<1>2. \A s \in Present : Updates(queue[s]) = {} BY DEF Init, Updates
<1>3. \A s \in Present : ~updatePending[s] BY DEF Init
<1>4. UpdateQueuedOnce BY <1>2, <1>3 DEF UpdateQueuedOnce, FlagAgrees
<1>5. DroppedCacheStaysEmpty BY DEF Init, DroppedCacheStaysEmpty
<1>6. QED BY <1>1, <1>4, <1>5 DEF IInv

\* A step that leaves the queues, the flags and the cache alone.
LEMMA OtherSteps ==
  ASSUME TypeOK, UpdateQueuedOnce, DroppedCacheStaysEmpty,
         UNCHANGED <<running, alive, updatePending, queue, expired, samples>>,
         file' \in [Present -> {"ok", "bad", "gone"}],
         startupQueue' \in Seq(Client)
  PROVE  IInv'
<1>1. TypeOK' BY DEF TypeOK
<1>2. UpdateQueuedOnce' BY DEF UpdateQueuedOnce
<1>3. DroppedCacheStaysEmpty' BY DEF DroppedCacheStaysEmpty
<1>4. QED BY <1>1, <1>2, <1>3 DEF IInv

\* A request of a collector leaves flags and UpdateStats requests alone.
LEMMA AskStep ==
  ASSUME IInv, NEW c \in Client, NEW s \in Present, Ask(c, s)
  PROVE  IInv'
<1>1. /\ queue \in [Present -> Seq(Request)]
      /\ queue' = [queue EXCEPT ![s] = Append(@, CollectAndSend(c))]
      /\ UNCHANGED <<running, file, alive, updatePending>>
      /\ UNCHANGED <<startupQueue, expired, samples>>
      /\ running
  BY DEF Ask, startup, IInv, TypeOK
<1>2. FlagAgrees(updatePending[s], queue[s])
  BY <1>1 DEF IInv, UpdateQueuedOnce
<1>3. queue'[s] = Append(queue[s], CollectAndSend(c)) BY <1>1
<1>4. /\ queue'[s] \in Seq(Request)
      /\ FlagAgrees(updatePending[s], queue'[s])
  <2> HIDE DEF IInv
  <2>1. queue[s] \in Seq(Request) BY <1>1
  <2>2. QED BY <2>1, <1>2, <1>3, PushData
<1>5. queue' \in [Present -> Seq(Request)] BY <1>1, <1>4
<1>6. TypeOK' BY <1>1, <1>5 DEF IInv, TypeOK
<1>7. \A r \in Present : FlagAgrees(updatePending[r], queue'[r])
  <2>1. \A r \in Present \ {s} : queue'[r] = queue[r] BY <1>1
  <2>2. QED BY <2>1, <1>1, <1>4 DEF IInv, UpdateQueuedOnce
<1>8. UpdateQueuedOnce' BY <1>1, <1>7 DEF UpdateQueuedOnce
<1>9. DroppedCacheStaysEmpty' BY <1>1 DEF IInv, DroppedCacheStaysEmpty
<1>10. QED BY <1>6, <1>8, <1>9 DEF IInv

\* A lane pushes where the flag is clear, and sets it with the push.
LEMMA LaneTimerStep ==
  ASSUME IInv, NEW lane \in Lane, LaneTimer(lane)
  PROVE  IInv'
<1> DEFINE due == {s \in Present : LaneOf(s) = lane /\ NeedsUpdate(s)}
<1>1. /\ queue' = [s \in Present |-> IF s \in due
                                     THEN Append(queue[s], UpdateStats)
                                     ELSE queue[s]]
      /\ updatePending' = [s \in Present |-> s \in due \/ updatePending[s]]
      /\ UNCHANGED <<running, file, alive>>
      /\ UNCHANGED <<startupQueue, expired, samples>>
      /\ running
  BY DEF LaneTimer, startup
<1>2. \A s \in due : s \in Present /\ ~updatePending[s] BY DEF NeedsUpdate
<1>3. queue \in [Present -> Seq(Request)] /\ updatePending \in [Present -> BOOLEAN]
  BY DEF IInv, TypeOK
<1>4. \A s \in Present : FlagAgrees(updatePending[s], queue[s])
  BY <1>1 DEF IInv, UpdateQueuedOnce
<1> HIDE DEF due
<1>5. ASSUME NEW s \in Present
      PROVE  queue'[s] \in Seq(Request) /\ FlagAgrees(updatePending'[s], queue'[s])
  <2>1. CASE s \in due
    <3>1. Updates(queue[s]) = {} BY <1>2, <1>4, <2>1 DEF FlagAgrees
    <3>2. queue'[s] = Append(queue[s], UpdateStats) BY <1>1, <2>1
    <3>3. updatePending'[s] BY <1>1, <2>1
    <3>4. /\ queue'[s] \in Seq(Request)
          /\ \E i \in DOMAIN queue'[s] : Updates(queue'[s]) = {i}
      <4>1. queue[s] \in Seq(Request) BY <1>3
      <4>2. QED BY <4>1, <3>1, <3>2, PushUpdate DEF FlagAgrees
    <3>5. QED BY <3>3, <3>4 DEF FlagAgrees
  <2>2. CASE s \notin due
    <3>1. queue'[s] = queue[s] BY <1>1, <2>2
    <3>2. updatePending'[s] = updatePending[s] BY <1>1, <1>3, <2>2
    <3>3. QED BY <3>1, <3>2, <1>3, <1>4
  <2>3. QED BY <2>1, <2>2
<1>6. queue' \in [Present -> Seq(Request)] BY <1>1, <1>5
<1>7. updatePending' \in [Present -> BOOLEAN] BY <1>1, <1>3
<1>8. TypeOK' BY <1>1, <1>6, <1>7 DEF IInv, TypeOK
<1>9. UpdateQueuedOnce' BY <1>5 DEF UpdateQueuedOnce
<1>10. DroppedCacheStaysEmpty' BY <1>1 DEF IInv, DroppedCacheStaysEmpty
<1>11. QED BY <1>8, <1>9, <1>10 DEF IInv

\* The part of a handler that the queue of the source has no say in.
LEMMA HandlerTypes ==
  ASSUME IInv, NEW s \in Present, requestHandler(s)
  PROVE  TypeOK' /\ DroppedCacheStaysEmpty'
<1>1. /\ queue[s] \in Seq(Request) /\ queue[s] # <<>>
      /\ queue' = [queue EXCEPT ![s] = Tail(@)]
      /\ UNCHANGED <<file, startupQueue, expired>>
  BY DEF requestHandler, IInv, TypeOK
<1>2. Tail(queue[s]) \in Seq(Request) BY <1>1, TakeHead
<1>3. queue' \in [Present -> Seq(Request)] BY <1>1, <1>2 DEF IInv, TypeOK
<1>4. CASE doCollectAndSend(s)
  BY <1>1, <1>3, <1>4 DEF doCollectAndSend, IInv, TypeOK, DroppedCacheStaysEmpty
<1>5. CASE UpdateSucceeds(s)
  <2>1. UNCHANGED <<running, alive>>
        /\ updatePending' \in [Present -> BOOLEAN]
    BY <1>5 DEF UpdateSucceeds, IInv, TypeOK
  <2>2. CASE samples' = samples
    BY <1>1, <1>3, <2>1, <2>2 DEF IInv, TypeOK, DroppedCacheStaysEmpty
  <2>3. CASE /\ StartupEnabled /\ Class[s].cached /\ ~expired
             /\ samples' = [samples EXCEPT ![s] = @ + 1]
    BY <1>1, <1>3, <2>1, <2>3 DEF IInv, TypeOK, DroppedCacheStaysEmpty
  <2>4. QED BY <1>5, <2>2, <2>3 DEF UpdateSucceeds, AddSample
<1>6. CASE UpdateFails(s)
  BY <1>1, <1>3, <1>6 DEF UpdateFails, IInv, TypeOK, DroppedCacheStaysEmpty
<1>7. CASE UpdateThrows(s)
  BY <1>1, <1>3, <1>7 DEF UpdateThrows, IInv, TypeOK, DroppedCacheStaysEmpty
<1>8. QED BY <1>4, <1>5, <1>6, <1>7 DEF requestHandler, doUpdateStats

\* The handler clears the flag with the request that it takes; when an
\* exception skips that, the application is over.
LEMMA HandlerStep ==
  ASSUME IInv, NEW s \in Present, requestHandler(s)
  PROVE  IInv'
<1>1. /\ queue \in [Present -> Seq(Request)] /\ queue[s] # <<>>
      /\ queue' = [queue EXCEPT ![s] = Tail(@)]
      /\ updatePending \in [Present -> BOOLEAN] /\ running
  BY DEF requestHandler, IInv, TypeOK
<1>2. \A r \in Present : FlagAgrees(updatePending[r], queue[r])
  BY <1>1 DEF IInv, UpdateQueuedOnce
<1>3. queue'[s] = Tail(queue[s]) /\ queue[s] \in Seq(Request)
      /\ \A r \in Present \ {s} : queue'[r] = queue[r]
  BY <1>1
<1>4. ASSUME doUpdateStats(s) PROVE UpdateQueuedOnce'
  <2>1. CASE UpdateThrows(s)
    BY <2>1 DEF UpdateThrows, UpdateQueuedOnce
  <2>2. CASE UpdateSucceeds(s) \/ UpdateFails(s)
    <3>1. updatePending' = [updatePending EXCEPT ![s] = FALSE]
      BY <2>2 DEF UpdateSucceeds, UpdateFails
    <3>2. Head(queue[s]) = UpdateStats BY <1>4 DEF doUpdateStats
    <3>3. Updates(queue'[s]) = {} BY <1>1, <1>2, <1>3, <3>2, TakeUpdate
    <3>4. ~updatePending'[s] BY <1>1, <3>1
    <3>5. FlagAgrees(updatePending'[s], queue'[s]) BY <3>3, <3>4 DEF FlagAgrees
    <3>6. \A r \in Present \ {s} : updatePending'[r] = updatePending[r]
      BY <1>1, <3>1
    <3>7. \A r \in Present : FlagAgrees(updatePending'[r], queue'[r])
      BY <1>2, <1>3, <3>5, <3>6
    <3>8. QED BY <3>7 DEF UpdateQueuedOnce
  <2>3. QED BY <1>4, <2>1, <2>2 DEF doUpdateStats
<1>5. ASSUME doCollectAndSend(s) PROVE UpdateQueuedOnce'
  <2>1. updatePending' = updatePending /\ Head(queue[s]) # UpdateStats
    BY <1>5 DEF doCollectAndSend
  <2>2. FlagAgrees(updatePending[s], queue'[s])
    BY <1>1, <1>2, <1>3, <2>1, TakeData
  <2>3. \A r \in Present : FlagAgrees(updatePending'[r], queue'[r])
    BY <1>2, <1>3, <2>1, <2>2
  <2>4. QED BY <2>3 DEF UpdateQueuedOnce
<1>6. UpdateQueuedOnce' BY <1>4, <1>5 DEF requestHandler
<1>7. QED BY <1>6, HandlerTypes DEF IInv

\* Dropping the cache empties every list.
LEMMA ExpireStep ==
  ASSUME IInv, ExpireTimer
  PROVE  IInv'
<1> USE DEF ExpireTimer, dropData
<1>1. TypeOK' BY DEF IInv, TypeOK
<1>2. UpdateQueuedOnce' BY DEF IInv, UpdateQueuedOnce
<1>3. DroppedCacheStaysEmpty' BY DEF DroppedCacheStaysEmpty
<1>4. QED BY <1>1, <1>2, <1>3 DEF IInv

\* Every step keeps the invariant.
LEMMA NextIInv == IInv /\ [Next]_vars => IInv'
<1> SUFFICES ASSUME IInv, [Next]_vars PROVE IInv' OBVIOUS
<1> USE DEF IInv
<1>1. ASSUME NEW s \in Present, NEW state \in {"ok", "bad", "gone"},
             FileChanges(s, state)
      PROVE  IInv'
  BY <1>1, OtherSteps DEF FileChanges, startup, TypeOK
<1>2. ASSUME NEW c \in Client, GetStartupData(c) PROVE IInv'
  <2>1. startupQueue \in Seq(Client) /\ startupQueue' = Append(startupQueue, c)
    BY <1>2 DEF GetStartupData, TypeOK
  <2>2. startupQueue' \in Seq(Client) BY <2>1
  <2>3. QED BY <1>2, <2>2, OtherSteps DEF GetStartupData, TypeOK
<1>3. CASE StartupRequestHandler
  <2>1. startupQueue \in Seq(Client) /\ startupQueue # <<>>
        /\ startupQueue' = Tail(startupQueue)
    BY <1>3 DEF StartupRequestHandler, TypeOK
  <2>2. startupQueue' \in Seq(Client) BY <2>1
  <2>3. QED BY <1>3, <2>2, OtherSteps DEF StartupRequestHandler, TypeOK
<1>4. CASE UNCHANGED vars
  BY <1>4, OtherSteps DEF vars, startup, TypeOK
<1>5. QED
  BY <1>1, <1>2, <1>3, <1>4, AskStep, LaneTimerStep, HandlerStep, ExpireStep
  DEF Next, GetDataTCP, GetDataUDS

-----------------------------------------------------------------------------
(* The lanes *)

\* The classes, by name.
LEMMA ClassNames ==
  DOMAIN Class = {"SysProcStat", "SysProcMemInfo", "SysProcPressure", "SysProcDiskStats",
                  "SysProcBuddyInfo", "SysProcWireless", "SysProcVMStat"}
BY DEF Class

\* Application and the two tables for the sessions agree on every class.
LEMMA LanesAgree ==
  ASSUME NEW s \in Present
  PROVE  TCPSessionLane(s) = LaneOf(s) /\ UDSSessionLane(s) = LaneOf(s)
<1>1. s \in DOMAIN Class BY DataSourcesAssumption
<1>2. QED BY <1>1, ClassNames DEF LaneOf, TCPSessionLane, UDSSessionLane

\* A flag is set by the timer of the lane of its source and by nothing else.
LEMMA SetByLaneTimer ==
  ASSUME TypeOK, [Next]_vars, NEW s \in Present, updatePending'[s], ~updatePending[s]
  PROVE  LaneTimer(LaneOf(s))
<1>1. ASSUME NEW lane \in Lane, LaneTimer(lane) PROVE LaneTimer(LaneOf(s))
  <2>1. LaneOf(s) = lane BY <1>1 DEF LaneTimer
  <2>2. QED BY <1>1, <2>1
<1>2. ASSUME NEW r \in Present, requestHandler(r) PROVE FALSE
  <2>1. updatePending \in [Present -> BOOLEAN] BY DEF TypeOK
  <2>2. \/ updatePending' = updatePending
        \/ updatePending' = [updatePending EXCEPT ![r] = FALSE]
    BY <1>2 DEF requestHandler, doUpdateStats, doCollectAndSend, UpdateSucceeds,
                UpdateFails, UpdateThrows
  <2>3. QED BY <2>1, <2>2
<1>3. QED
  BY <1>1, <1>2 DEF Next, vars, FileChanges, Ask, GetDataTCP, GetDataUDS, GetStartupData,
                    ExpireTimer, StartupRequestHandler

-----------------------------------------------------------------------------
(* The theorems *)

\* The safety properties of the data sources hold together in every state.
THEOREM InvariantCorrect == Spec => []IInv
BY InitIInv, NextIInv, PTL DEF Spec

\* Every variable keeps its type, for any sources and collectors.
THEOREM TypeCorrect == Spec => []TypeOK
BY InvariantCorrect, PTL DEF IInv

\* update() may trust m_updatePending: while the application runs the flag is
\* set exactly while one UpdateStats request is queued.
THEOREM UpdateQueuedOnceCorrect == Spec => []UpdateQueuedOnce
BY InvariantCorrect, PTL DEF IInv

\* A source is updated at the interval that the sessions of either server are
\* told for it, and at no other.
THEOREM UpdatedOnAdvertisedLaneCorrect == Spec => UpdatedOnAdvertisedLane
<1>1. TypeOK /\ [Next]_vars =>
        [\A s \in Present : updatePending'[s] /\ ~updatePending[s] =>
           LaneTimer(TCPSessionLane(s)) /\ LaneTimer(UDSSessionLane(s))]_vars
  <2> SUFFICES ASSUME TypeOK, [Next]_vars, NEW s \in Present,
                      updatePending'[s], ~updatePending[s]
               PROVE  LaneTimer(TCPSessionLane(s)) /\ LaneTimer(UDSSessionLane(s))
    OBVIOUS
  <2>1. LaneTimer(LaneOf(s)) BY SetByLaneTimer
  <2>2. QED BY <2>1, LanesAgree
<1>2. QED BY <1>1, TypeCorrect, PTL DEF Spec, UpdatedOnAdvertisedLane

\* Start-up data that was dropped stays dropped, whatever update was on its way.
THEOREM DroppedCacheStaysEmptyCorrect == Spec => []DroppedCacheStaysEmpty
BY InvariantCorrect, PTL DEF IInv
=============================================================================
