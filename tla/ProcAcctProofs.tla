--------------------------- MODULE ProcAcctProofs ---------------------------
(***************************************************************************)
(* The invariants of task accounting for every finite set of pids, every   *)
(* set of settings and every size of the buffer of its socket.             *)
(***************************************************************************)
EXTENDS ProcAcct, SequenceTheorems, FiniteSetTheorems, TLAPS

\* The buffer of the socket tells whether answers were dropped, and a socket that
\* is congested was not read empty since.
SocketInv ==
  /\ TypeOK
  /\ buffer = "congested" => socket # <<>>
  /\ buffer # "ok" => dropped
  /\ SourceKept

-----------------------------------------------------------------------------
(* The socket *)

\* The settings the program may have.
LEMMA OptionsTyped ==
  ASSUME TypeOK
  PROVE  options.RxBufferSize \in Nat \ {0}
  BY ProcAcctAssumption DEF TypeOK, Setting

\* A read leaves a socket of its type, which is congested only if it is not
\* empty, and in order if it was.
LEMMA ReadTyped ==
  ASSUME NEW d \in Seq(Datagram), NEW n \in Nat, Len(d) <= n, NEW state \in Buffer,
         state # "overrun" => d # <<>>, Read(d, state)
  PROVE  /\ socket' \in Seq(Datagram) /\ Len(socket') <= n
         /\ buffer' \in Buffer
         /\ buffer' = "congested" => socket' # <<>>
         /\ buffer' # "ok" => state # "ok"
<1>1. socket' = IF state = "overrun" THEN d ELSE Tail(d) BY DEF Read
<1>2. buffer' = IF socket' = <<>> THEN "ok"
                ELSE IF state = "overrun" THEN "congested" ELSE state
  BY DEF Read
<1>3. d # <<>> => Tail(d) \in Seq(Datagram) /\ Len(Tail(d)) = Len(d) - 1 OBVIOUS
<1>4. socket' \in Seq(Datagram) /\ Len(socket') <= n BY <1>1, <1>3
<1>5. QED BY <1>2, <1>4 DEF Buffer

\* The pids a datagram answers.
LEMMA AnsweredTyped ==
  ASSUME NEW d \in Seq(Datagram), NEW state, state # "overrun" => d # <<>>
  PROVE  Answered(d, state) \subseteq Pid
<1>1. d # <<>> => Head(d) \in Datagram OBVIOUS
<1>2. QED BY <1>1 DEF Answered, Datagram

\* What the kernel answers to a request.
LEMMA AnswersTyped ==
  ASSUME NEW p \in Pid
  PROVE  /\ Answers(p) \in Seq(Datagram) /\ Len(Answers(p)) \in {1, 2}
         /\ Running(p) => /\ Len(Answers(p)) = 2
                          /\ Answers(p)[1] = [what |-> "stats", pid |-> p]
                          /\ Answers(p)[2] = [what |-> "ack", pid |-> p]
         /\ ~Running(p) => /\ Len(Answers(p)) = 1
                           /\ Answers(p)[1] = [what |-> "error", pid |-> p]
<1>1. /\ [what |-> "stats", pid |-> p] \in Datagram
      /\ [what |-> "ack", pid |-> p] \in Datagram
      /\ [what |-> "error", pid |-> p] \in Datagram
  BY DEF Datagram
<1>2. QED BY <1>1 DEF Answers

\* What finds room fits into the socket, and there is something to read unless
\* the next read fails.
LEMMA AcceptedTyped ==
  ASSUME SocketInv, NEW p \in Pid
  PROVE  /\ socket \o Accepted(p) \in Seq(Datagram)
         /\ Len(socket \o Accepted(p)) <= options.RxBufferSize
         /\ socket \o Accepted(p) = <<>> =>
              buffer = "overrun" \/ (buffer = "ok" /\ Accepted(p) # Answers(p))
<1> DEFINE a == Accepted(p)
<1>1. /\ socket \in Seq(Datagram) /\ Len(socket) <= options.RxBufferSize
      /\ options.RxBufferSize \in Nat \ {0} /\ buffer \in Buffer
      /\ (buffer = "congested" => socket # <<>>)
  BY OptionsTyped DEF SocketInv, TypeOK
<1>2. Answers(p) \in Seq(Datagram) /\ Len(Answers(p)) \in {1, 2} BY AnswersTyped
<1>3. Room \in Nat /\ Len(socket) + Room <= options.RxBufferSize
  BY <1>1 DEF Room
<1>4. a \in Seq(Datagram) /\ Len(a) <= Room
  <2>1. CASE Len(Answers(p)) <= Room BY <1>2, <2>1 DEF Accepted
  <2>2. CASE ~(Len(Answers(p)) <= Room)
    <3>1. a = SubSeq(Answers(p), 1, Room) BY <2>2 DEF Accepted
    <3>2. \A i \in 1..Room : Answers(p)[i] \in Datagram BY <1>2, <1>3, <2>2
    <3>3. SubSeq(Answers(p), 1, Room) \in Seq(Datagram)
          /\ Len(SubSeq(Answers(p), 1, Room)) = IF 1 <= Room THEN Room - 1 + 1 ELSE 0
      BY <1>3, <3>2, SubSeqProperties
    <3>4. QED BY <1>3, <3>1, <3>3
  <2>3. QED BY <2>1, <2>2
<1> HIDE DEF a
<1>5. socket \o a \in Seq(Datagram) /\ Len(socket \o a) = Len(socket) + Len(a)
  BY <1>1, <1>4, ConcatProperties
<1>6. Len(socket) \in Nat /\ Len(a) \in Nat BY <1>1, <1>4
<1>7. Len(socket \o a) <= options.RxBufferSize BY <1>1, <1>3, <1>4, <1>5, <1>6
<1>8. socket \o a = <<>> => socket = <<>> /\ a = <<>>
  BY <1>1, <1>4, <1>5, <1>6
<1>9. a = <<>> => a # Answers(p) BY <1>2
<1>10. QED BY <1>1, <1>5, <1>7, <1>8, <1>9 DEF Buffer, a

-----------------------------------------------------------------------------
(* Types, and the source that stays *)

\* At start nothing was asked.
LEMMA InitSocketInv == Init => SocketInv
<1> SUFFICES ASSUME Init PROVE SocketInv OBVIOUS
<1>1. <<>> \in Seq(Event) /\ <<>> \in Seq(Datagram) /\ Len(<<>>) = 0 OBVIOUS
<1>2. options.RxBufferSize \in Nat BY ProcAcctAssumption DEF Init, Setting
<1>3. TypeOK
  <2>1. {accounting, inLoop, dropped} \subseteq BOOLEAN BY DEF Init
  <2>2. proc \in [Pid -> {"free", "running", "gone"}] BY DEF Init
  <2>3. QED BY <1>1, <1>2, <2>1, <2>2 DEF Init, TypeOK, Buffer
<1>4. QED BY <1>3 DEF Init, SocketInv, SourceKept

\* What the kernel reports has its type.
LEMMA EmitTyped ==
  ASSUME events \in Seq(Event), NEW what \in {"FORK", "EXIT"}, NEW p \in Pid,
         Emit(what, p)
  PROVE  /\ events' \in Seq(Event)
         /\ \/ options.scanning /\ UNCHANGED events
            \/ ~options.scanning /\ events' = Append(events, [what |-> what, pid |-> p])
<1>1. [what |-> what, pid |-> p] \in Event BY DEF Event
<1>2. QED BY <1>1 DEF Emit

\* A step that leaves the socket alone.
LEMMA QuietStep ==
  ASSUME SocketInv, UNCHANGED <<options, netlink, inLoop>>,
         proc' \in [Pid -> {"free", "running", "gone"}], events' \in Seq(Event),
         accounting' \in BOOLEAN,
         procList' \subseteq Pid, removing' \subseteq procList',
         pending' \subseteq procList', todo' \subseteq procList'
  PROVE  SocketInv'
<1>1. UNCHANGED <<socket, buffer, dropped>> BY DEF netlink
<1>2. {accounting', inLoop', dropped'} \subseteq BOOLEAN
  BY <1>1 DEF SocketInv, TypeOK
<1>3. TypeOK' BY <1>1, <1>2 DEF SocketInv, TypeOK
<1>4. QED BY <1>1, <1>3 DEF SocketInv, SourceKept

\* A request: it may read another answer than its own, and its failure removes an
\* entry that is listed.
LEMMA RequestSocketInv ==
  ASSUME SocketInv, NEW p \in todo, todo' = todo \ {p}, requestTaskAcct(p),
         UNCHANGED <<options, proc, events, accounting, inLoop>>
  PROVE  SocketInv'
<1> DEFINE d == socket \o Accepted(p)
           lost == Accepted(p) # Answers(p)
           state == IF lost /\ buffer = "ok" THEN "overrun" ELSE buffer
<1>1. p \in Pid /\ p \in procList BY DEF SocketInv, TypeOK
<1>2. d \in Seq(Datagram) /\ Len(d) <= options.RxBufferSize
      /\ (state # "overrun" => d # <<>>)
  BY <1>1, AcceptedTyped
<1>3. state \in Buffer BY DEF SocketInv, TypeOK, Buffer
<1>4. /\ Read(d, state) /\ dropped' = (dropped \/ lost)
      /\ pending' = FlagsAfter(p, Answered(d, state))
      /\ UNCHANGED procList
      /\ removing' \in {removing, removing \cup {p}}
  BY DEF requestTaskAcct, remProcEntry
<1>5. options.RxBufferSize \in Nat BY OptionsTyped DEF SocketInv
<1> HIDE DEF d
<1>6. /\ socket' \in Seq(Datagram) /\ Len(socket') <= options.RxBufferSize
      /\ buffer' \in Buffer
      /\ (buffer' = "congested" => socket' # <<>>)
      /\ (buffer' # "ok" => state # "ok")
  BY <1>2, <1>3, <1>4, <1>5, ReadTyped
<1>7. buffer' # "ok" => dropped'
  <2>1. state # "ok" => buffer # "ok" \/ lost OBVIOUS
  <2>2. buffer # "ok" => dropped BY DEF SocketInv
  <2>3. QED BY <1>4, <1>6, <2>1, <2>2
<1>8. pending' \subseteq procList' BY <1>1, <1>4 DEF FlagsAfter, SocketInv, TypeOK
<1>9. {accounting', inLoop', dropped'} \subseteq BOOLEAN
  BY <1>4 DEF SocketInv, TypeOK
<1>10. TypeOK' BY <1>1, <1>4, <1>6, <1>8, <1>9 DEF SocketInv, TypeOK
<1>11. SourceKept' BY <1>4 DEF SocketInv, SourceKept
<1>12. QED BY <1>6, <1>7, <1>10, <1>11 DEF SocketInv

\* A dispatch of the source: it leaves the loop only when a read fails.
LEMMA CallbackSocketInv ==
  ASSUME SocketInv, AcctCallback, UNCHANGED options
  PROVE  SocketInv'
<1>1. /\ socket \in Seq(Datagram) /\ Len(socket) <= options.RxBufferSize
      /\ buffer \in Buffer /\ (buffer # "overrun" => socket # <<>>)
  BY DEF SocketInv, TypeOK, AcctCallback
<1>2. options.RxBufferSize \in Nat BY OptionsTyped DEF SocketInv
<1>3. /\ Read(socket, buffer) /\ pending' \subseteq pending
      /\ inLoop' = (buffer # "overrun")
      /\ UNCHANGED <<proc, events, accounting, procList, removing, todo, dropped>>
  BY DEF AcctCallback, Tolerated
<1>4. /\ socket' \in Seq(Datagram) /\ Len(socket') <= options.RxBufferSize
      /\ buffer' \in Buffer
      /\ (buffer' = "congested" => socket' # <<>>)
      /\ (buffer' # "ok" => buffer # "ok")
  BY <1>1, <1>2, <1>3, ReadTyped
<1>5. {accounting', inLoop', dropped'} \subseteq BOOLEAN
  BY <1>3 DEF SocketInv, TypeOK
<1>6. TypeOK' BY <1>3, <1>4, <1>5 DEF SocketInv, TypeOK
<1>7. buffer' # "ok" => dropped' BY <1>3, <1>4 DEF SocketInv
<1>8. SourceKept' BY <1>3 DEF SocketInv, SourceKept
<1>9. QED BY <1>4, <1>6, <1>7, <1>8 DEF SocketInv

\* The head of the events of ProcEvent.
LEMMA EventTaken ==
  ASSUME events \in Seq(Event), events # <<>>
  PROVE  /\ Head(events) \in Event /\ Head(events).pid \in Pid
         /\ Tail(events) \in Seq(Event)
<1>1. Head(events) \in Event /\ Tail(events) \in Seq(Event) OBVIOUS
<1>2. QED BY <1>1 DEF Event

\* Every step keeps the invariant of the socket.
LEMMA NextSocketInv == SocketInv /\ [Next]_vars => SocketInv'
<1> SUFFICES ASSUME SocketInv, [Next]_vars PROVE SocketInv' OBVIOUS
<1>1. TypeOK BY DEF SocketInv
<1>2. ASSUME NEW p \in Pid, Fork(p) \/ Exit(p), UNCHANGED options PROVE SocketInv'
  <2>1. events \in Seq(Event) BY <1>1 DEF TypeOK
  <2>2. events' \in Seq(Event) BY <1>2, <2>1, EmitTyped DEF Fork, Exit
  <2>3. proc' \in [Pid -> {"free", "running", "gone"}]
    BY <1>1, <1>2 DEF TypeOK, Fork, Exit
  <2>4. UNCHANGED <<accounting, lists, todo, netlink, inLoop>> BY <1>2 DEF Fork, Exit
  <2>5. accounting' \in BOOLEAN BY <1>1, <2>4 DEF TypeOK
  <2>6. QED BY <1>1, <1>2, <2>2, <2>3, <2>4, <2>5, QuietStep DEF TypeOK, lists
<1>3. ASSUME SessionsChange, UNCHANGED options PROVE SocketInv'
  <2>1. accounting' \in BOOLEAN BY <1>3 DEF SessionsChange
  <2>2. UNCHANGED <<proc, events, lists, todo, netlink, inLoop>>
    BY <1>3 DEF SessionsChange
  <2>3. QED BY <1>1, <1>3, <2>1, <2>2, QuietStep DEF TypeOK, lists
<1>4. ASSUME NEW p \in todo, todo' = todo \ {p},
             IF WantsRequest(p) THEN requestTaskAcct(p) ELSE UNCHANGED <<lists, netlink>>,
             UNCHANGED <<proc, events, accounting, inLoop>>, UNCHANGED options
      PROVE  SocketInv'
  <2>1. CASE requestTaskAcct(p) BY <1>4, <2>1, RequestSocketInv
  <2>2. CASE UNCHANGED <<lists, netlink>>
    <3>1. accounting' \in BOOLEAN BY <1>1, <1>4 DEF TypeOK
    <3>2. QED BY <1>1, <1>4, <2>2, <3>1, QuietStep DEF TypeOK, lists
  <2>3. QED BY <1>4, <2>1, <2>2
<1>5. ASSUME NEW lane \in {"Pace", "Slow"}, LaneTimer(lane), UNCHANGED options
      PROVE  SocketInv'
  <2>1. Scanned \subseteq Pid BY DEF Scanned
  <2>2. accounting' \in BOOLEAN BY <1>1, <1>5 DEF TypeOK, LaneTimer
  <2>3. procList' \subseteq Pid /\ removing' \subseteq procList'
        /\ pending' \subseteq procList' /\ todo' \subseteq procList'
    BY <1>1, <1>5, <2>1 DEF TypeOK, LaneTimer
  <2>4. UNCHANGED <<proc, events, netlink, inLoop>> BY <1>5 DEF LaneTimer
  <2>5. QED BY <1>1, <1>5, <2>2, <2>3, <2>4, QuietStep DEF TypeOK
<1>6. ASSUME doCommitProcList, UNCHANGED options PROVE SocketInv'
  <2>1. accounting' \in BOOLEAN BY <1>1, <1>6 DEF TypeOK, doCommitProcList
  <2>2. procList' \subseteq Pid /\ removing' \subseteq procList'
        /\ pending' \subseteq procList' /\ todo' \subseteq procList'
    BY <1>1, <1>6 DEF TypeOK, doCommitProcList, Leave
  <2>3. QED BY <1>1, <1>6, <2>1, <2>2, QuietStep DEF TypeOK, doCommitProcList
<1>7. ASSUME ProcEventCallback, UNCHANGED options PROVE SocketInv'
  <2>1. accounting' \in BOOLEAN BY <1>1, <1>7 DEF TypeOK, ProcEventCallback
  <2>2. events' \in Seq(Event) /\ Head(events).pid \in Pid
    BY <1>1, <1>7, EventTaken DEF TypeOK, ProcEventCallback
  <2>3. procList' \subseteq Pid /\ removing' \subseteq procList'
        /\ pending' \subseteq procList' /\ todo' \subseteq procList'
    BY <1>1, <1>7, <2>2 DEF TypeOK, ProcEventCallback, Leave
  <2>4. QED BY <1>1, <1>7, <2>1, <2>2, <2>3, QuietStep DEF TypeOK, ProcEventCallback
<1>8. CASE UNCHANGED vars
  <2>1. UNCHANGED <<options, proc, events, accounting, procList, removing, pending, todo,
                    netlink, inLoop>>
    BY <1>8 DEF vars, changing, lists
  <2>2. accounting' \in BOOLEAN BY <1>1, <2>1 DEF TypeOK
  <2>3. QED BY <1>1, <2>1, <2>2, QuietStep DEF TypeOK
<1>9. QED
  BY <1>2, <1>3, <1>4, <1>5, <1>6, <1>7, <1>8, CallbackSocketInv
  DEF Next, Callback, updateProcAcct

\* TypeOK holds in every reachable state.
THEOREM TypeCorrect == Spec => []TypeOK
<1>1. SocketInv => TypeOK BY DEF SocketInv
<1>2. QED BY <1>1, InitSocketInv, NextSocketInv, PTL DEF Spec

\* The errors about processes that ended never cost the event source, in whatever
\* order its two readers get them: it leaves the loop only after answers were
\* dropped.
THEOREM SourceIsKept == Spec => []SourceKept
<1>1. SocketInv => SourceKept BY DEF SocketInv
<1>2. QED BY <1>1, InitSocketInv, NextSocketInv, PTL DEF Spec

-----------------------------------------------------------------------------
(* Flags and answers *)

\* The exit of p was reported and not read yet.
ExitQueued(p) == \E i \in DOMAIN events : events[i] = [what |-> "EXIT", pid |-> p]

\* An entry belongs to a process that runs or ran; without scans, the event that
\* takes the entry of one that ended is on its way.
EntriesKnown ==
  \A p \in procList :
    /\ proc[p] # "free"
    /\ ~options.scanning /\ proc[p] = "gone" => ExitQueued(p)

\* A queue of events that grows keeps what it has, and one whose head is taken
\* keeps the rest.
LEMMA ExitStays ==
  ASSUME events \in Seq(Event), NEW e \in Event, NEW p
  PROVE  /\ events' = Append(events, e) =>
              (ExitQueued(p)' <=> ExitQueued(p) \/ e = [what |-> "EXIT", pid |-> p])
         /\ events # <<>> /\ events' = Tail(events) =>
              (ExitQueued(p) <=> ExitQueued(p)'
                                   \/ Head(events) = [what |-> "EXIT", pid |-> p])
<1> DEFINE x == [what |-> "EXIT", pid |-> p]
<1>1. DOMAIN events = 1..Len(events) /\ Len(events) \in Nat OBVIOUS
<1>2. ASSUME events' = Append(events, e)
      PROVE  ExitQueued(p)' <=> ExitQueued(p) \/ e = x
  <2>1. /\ DOMAIN events' = 1..(Len(events) + 1)
        /\ \A i \in 1..Len(events) : events'[i] = events[i]
        /\ events'[Len(events) + 1] = e
    BY <1>2
  <2> HIDE DEF x
  <2>2. \A i \in DOMAIN events : i \in DOMAIN events' /\ events'[i] = events[i]
    BY <1>1, <2>1
  <2>3. \A i \in DOMAIN events' : i \in DOMAIN events \/ i = Len(events) + 1
    BY <1>1, <2>1
  <2>4. Len(events) + 1 \in DOMAIN events' BY <1>1, <2>1
  <2>5. (\E i \in DOMAIN events' : events'[i] = x)
          <=> (\E i \in DOMAIN events : events[i] = x) \/ e = x
    BY <2>1, <2>2, <2>3, <2>4
  <2>6. QED BY <2>5 DEF ExitQueued, x
<1>3. ASSUME events # <<>>, events' = Tail(events)
      PROVE  ExitQueued(p) <=> ExitQueued(p)' \/ Head(events) = x
  <2>1. /\ DOMAIN events' = 1..(Len(events) - 1)
        /\ \A i \in 1..(Len(events) - 1) : events'[i] = events[i + 1]
        /\ Head(events) = events[1] /\ Len(events) > 0
    BY <1>3
  <2> HIDE DEF x
  <2>2. \A i \in DOMAIN events' : i + 1 \in DOMAIN events /\ events'[i] = events[i + 1]
    BY <1>1, <2>1
  <2>3. \A i \in DOMAIN events :
          i # 1 => i - 1 \in DOMAIN events' /\ events'[i - 1] = events[i]
    BY <1>1, <2>1
  <2>4. 1 \in DOMAIN events BY <1>1, <2>1
  <2>5. (\E i \in DOMAIN events : events[i] = x)
          <=> (\E i \in DOMAIN events' : events'[i] = x) \/ Head(events) = x
    BY <2>1, <2>2, <2>3, <2>4
  <2>6. QED BY <2>5 DEF ExitQueued, x
<1>4. QED BY <1>2, <1>3

\* A step of the kernel about p keeps the exits that are queued, and adds that of
\* p where events are reported.
LEMMA KernelExits ==
  ASSUME TypeOK, NEW p \in Pid, Fork(p) \/ Exit(p), NEW q \in Pid
  PROVE  /\ ExitQueued(q) => ExitQueued(q)'
         /\ ~options.scanning /\ Exit(p) => ExitQueued(p)'
         /\ ExitQueued(q)' => ExitQueued(q) \/ (q = p /\ Exit(p))
<1>1. events \in Seq(Event) BY DEF TypeOK
<1>2. [what |-> "FORK", pid |-> p] \in Event /\ [what |-> "EXIT", pid |-> p] \in Event
  BY DEF Event
<1>3. CASE UNCHANGED events /\ options.scanning BY <1>3 DEF ExitQueued
<1>4. ASSUME Fork(p), events' = Append(events, [what |-> "FORK", pid |-> p])
      PROVE  ExitQueued(q)' <=> ExitQueued(q)
  <2>1. [what |-> "FORK", pid |-> p] # [what |-> "EXIT", pid |-> q] OBVIOUS
  <2>2. QED BY <1>1, <1>2, <1>4, <2>1, ExitStays
<1>5. ASSUME Exit(p), events' = Append(events, [what |-> "EXIT", pid |-> p])
      PROVE  (ExitQueued(q)' <=> ExitQueued(q) \/ q = p) /\ ExitQueued(p)'
  <2>1. [what |-> "EXIT", pid |-> p] = [what |-> "EXIT", pid |-> q] <=> q = p OBVIOUS
  <2>2. ExitQueued(q)' <=> ExitQueued(q) \/ q = p BY <1>1, <1>2, <1>5, <2>1, ExitStays
  <2>3. ExitQueued(p)' BY <1>1, <1>2, <1>5, ExitStays
  <2>4. QED BY <2>2, <2>3
<1>6. Fork(p) => proc'[p] = "running" BY DEF Fork, TypeOK
<1>7. Exit(p) => proc'[p] = "gone" BY DEF Exit, TypeOK
<1>8. CASE Fork(p)
  <2>1. ~Exit(p) BY <1>6, <1>7, <1>8
  <2>2. events' = Append(events, [what |-> "FORK", pid |-> p])
          \/ (UNCHANGED events /\ options.scanning)
    BY <1>8 DEF Fork, Emit
  <2>3. QED BY <1>3, <1>4, <1>8, <2>1, <2>2
<1>9. CASE Exit(p)
  <2>1. events' = Append(events, [what |-> "EXIT", pid |-> p])
          \/ (UNCHANGED events /\ options.scanning)
    BY <1>9 DEF Exit, Emit
  <2>2. QED BY <1>3, <1>5, <1>9, <2>1
<1>10. QED BY <1>8, <1>9

\* What the callback of ProcEvent takes from the queue, and does to the entries.
LEMMA EventEffect ==
  ASSUME TypeOK, ProcEventCallback
  PROVE  \E p \in Pid :
           \/ /\ \A q : q # p => (ExitQueued(q)' <=> ExitQueued(q))
              /\ ExitQueued(p) /\ (\A q : ExitQueued(q)' => ExitQueued(q))
              /\ Leave(removing \cup {p})
           \/ /\ \A q : ExitQueued(q)' <=> ExitQueued(q)
              /\ procList' \in {procList, procList \cup {p}}
              /\ p \in procList' => p \in procList \/ Running(p)
              /\ UNCHANGED <<removing, pending>>
<1> DEFINE h == Head(events)
           p == h.pid
<1>1. events \in Seq(Event) /\ events # <<>> /\ events' = Tail(events)
  BY DEF TypeOK, ProcEventCallback
<1>2. h \in Event /\ p \in Pid BY <1>1, EventTaken
<1>3. \A q : ExitQueued(q) <=> ExitQueued(q)' \/ h = [what |-> "EXIT", pid |-> q]
  BY <1>1, <1>2, ExitStays
<1>4. \A q : h = [what |-> "EXIT", pid |-> q] <=> h.what = "EXIT" /\ q = p
  BY <1>2 DEF Event
<1>5. IF h.what = "EXIT" THEN Leave(removing \cup {p})
      ELSE /\ procList' = IF Running(p) THEN procList \cup {p} ELSE procList
           /\ UNCHANGED <<removing, pending>>
  BY DEF ProcEventCallback
<1> HIDE DEF h, p
<1>6. CASE h.what = "EXIT" BY <1>2, <1>3, <1>4, <1>5, <1>6
<1>7. CASE h.what # "EXIT" BY <1>2, <1>3, <1>4, <1>5, <1>7
<1>8. QED BY <1>6, <1>7

\* No step of the callbacks that are not of ProcEvent takes an event, and only a
\* scan lists processes, that run.
LEMMA OtherCallbacks ==
  ASSUME TypeOK,
         \/ SessionsChange \/ updateProcAcct \/ AcctCallback \/ doCommitProcList
         \/ \E lane \in {"Pace", "Slow"} : LaneTimer(lane)
  PROVE  /\ UNCHANGED <<proc, events>>
         /\ \A p \in procList' : p \in procList \/ Running(p)
<1>1. UNCHANGED <<proc, events>>
  BY DEF SessionsChange, updateProcAcct, AcctCallback, doCommitProcList, LaneTimer
<1>2. \A p \in Scanned : Running(p) BY DEF Scanned
<1>3. CASE \E lane \in {"Pace", "Slow"} : LaneTimer(lane)
  BY <1>1, <1>2, <1>3 DEF LaneTimer
<1>4. CASE doCommitProcList BY <1>1, <1>4 DEF doCommitProcList, Leave
<1>5. CASE SessionsChange \/ updateProcAcct \/ AcctCallback
  <2>1. UNCHANGED procList
    BY <1>5 DEF SessionsChange, updateProcAcct, AcctCallback, requestTaskAcct,
                remProcEntry, lists
  <2>2. QED BY <1>1, <2>1
<1>6. QED BY <1>3, <1>4, <1>5

\* At start the entries are those of the processes that run.
LEMMA InitEntries == Init => EntriesKnown
  BY DEF Init, EntriesKnown, Running

\* Every step keeps them known.
LEMMA NextEntries == TypeOK /\ EntriesKnown /\ [Next]_vars => EntriesKnown'
<1> SUFFICES ASSUME TypeOK, EntriesKnown, [Next]_vars PROVE EntriesKnown' OBVIOUS
<1>1. procList \subseteq Pid BY DEF TypeOK
<1>2. ASSUME NEW p \in Pid, Fork(p) \/ Exit(p), UNCHANGED options PROVE EntriesKnown'
  <2>1. UNCHANGED procList BY <1>2 DEF Fork, Exit, lists
  <2>2. \A q \in Pid : ExitQueued(q) => ExitQueued(q)' BY <1>2, KernelExits
  <2>3. ~options.scanning /\ Exit(p) => ExitQueued(p)' BY <1>2, KernelExits
  <2>4. \A q \in Pid : q # p => proc'[q] = proc[q]
    BY <1>2 DEF TypeOK, Fork, Exit
  <2>5. proc'[p] \in {"running", "gone"} /\ (proc'[p] = "gone" => Exit(p))
    BY <1>2 DEF TypeOK, Fork, Exit
  <2>6. QED BY <1>1, <1>2, <2>1, <2>2, <2>3, <2>4, <2>5 DEF EntriesKnown
<1>3. ASSUME ProcEventCallback, UNCHANGED options PROVE EntriesKnown'
  <2>1. UNCHANGED proc BY <1>3 DEF ProcEventCallback
  <2>2. PICK p \in Pid :
           \/ /\ \A q : q # p => (ExitQueued(q)' <=> ExitQueued(q))
              /\ Leave(removing \cup {p})
           \/ /\ \A q : ExitQueued(q)' <=> ExitQueued(q)
              /\ procList' \in {procList, procList \cup {p}}
              /\ p \in procList' => p \in procList \/ Running(p)
    BY <1>3, EventEffect
  <2>3. CASE Leave(removing \cup {p}) /\ \A q : q # p => (ExitQueued(q)' <=> ExitQueued(q))
    <3>1. procList' = procList \ (removing \cup {p}) BY <2>3 DEF Leave
    <3>2. \A q \in procList' : q \in procList /\ q # p BY <3>1
    <3>3. QED BY <1>3, <2>1, <2>3, <3>2 DEF EntriesKnown
  <2>4. CASE /\ \A q : ExitQueued(q)' <=> ExitQueued(q)
             /\ procList' \in {procList, procList \cup {p}}
             /\ p \in procList' => p \in procList \/ Running(p)
    BY <1>3, <2>1, <2>4 DEF EntriesKnown, Running
  <2>5. QED BY <2>2, <2>3, <2>4
<1>4. ASSUME \/ SessionsChange \/ updateProcAcct \/ AcctCallback \/ doCommitProcList
             \/ \E lane \in {"Pace", "Slow"} : LaneTimer(lane),
             UNCHANGED options
      PROVE  EntriesKnown'
  <2>1. UNCHANGED <<proc, events>> /\ \A p \in procList' : p \in procList \/ Running(p)
    BY <1>4, OtherCallbacks
  <2>2. QED BY <1>4, <2>1 DEF EntriesKnown, Running, ExitQueued
<1>5. CASE UNCHANGED vars
  BY <1>5 DEF vars, changing, lists, EntriesKnown, ExitQueued
<1>6. QED BY <1>2, <1>3, <1>4, <1>5 DEF Next, Callback

\* The settings in which a request that is pending is the one of its entry.
Traced == ~(options.scanning /\ options.PidReuse)

\* PendingAnswered under those settings.
PendingInv == Traced => PendingAnswered

\* Statistics in the socket are read now, and clear the flag, or stay in it.
LEMMA UnderwayRead ==
  ASSUME NEW d \in Seq(Datagram), NEW state, state # "overrun",
         NEW i \in DOMAIN d, NEW q, d[i] = [what |-> "stats", pid |-> q],
         Read(d, state)
  PROVE  q \in Answered(d, state) \/ Underway(q)'
<1>1. /\ DOMAIN d = 1..Len(d) /\ Len(d) \in Nat /\ d # <<>>
      /\ DOMAIN Tail(d) = 1..(Len(d) - 1) /\ Head(d) = d[1]
      /\ \A j \in 1..(Len(d) - 1) : Tail(d)[j] = d[j + 1]
  OBVIOUS
<1>2. CASE i = 1
  <2>1. Head(d).what = "stats" /\ Head(d).pid = q BY <1>1, <1>2
  <2>2. QED BY <2>1 DEF Answered
<1>3. CASE i # 1
  <2>1. i - 1 \in DOMAIN Tail(d) /\ Tail(d)[i - 1] = d[i] BY <1>1, <1>3
  <2>2. socket' = Tail(d) BY DEF Read
  <2>3. QED BY <2>1, <2>2 DEF Underway
<1>4. QED BY <1>2, <1>3

\* The places of two sequences in their concatenation.
LEMMA Concatenated ==
  ASSUME NEW s \in Seq(Datagram), NEW t \in Seq(Datagram)
  PROVE  /\ s \o t \in Seq(Datagram) /\ DOMAIN (s \o t) = 1..(Len(s) + Len(t))
         /\ \A i \in 1..(Len(s) + Len(t)) :
              (s \o t)[i] = IF i <= Len(s) THEN s[i] ELSE t[i - Len(s)]
<1> DEFINE u == s \o t
<1>1. /\ u \in Seq(Datagram) /\ Len(u) = Len(s) + Len(t)
      /\ \A i \in 1..(Len(s) + Len(t)) : u[i] = IF i <= Len(s) THEN s[i] ELSE t[i - Len(s)]
  BY ConcatProperties
<1> HIDE DEF u
<1>2. DOMAIN u = 1..Len(u) BY <1>1, LenProperties
<1>3. QED BY <1>1, <1>2 DEF u

\* A request that is not dropped: its own answer is in what it reads from.
LEMMA RequestPending ==
  ASSUME SocketInv, PendingAnswered, NEW p \in Pid, requestTaskAcct(p), ~dropped',
         UNCHANGED <<proc, events>>
  PROVE  PendingAnswered'
<1> DEFINE d == socket \o Answers(p)
<1>1. Accepted(p) = Answers(p) /\ ~dropped BY DEF requestTaskAcct
<1>2. buffer = "ok" BY <1>1 DEF SocketInv
<1>3. /\ Read(d, buffer) /\ pending' = (pending \cup {p}) \ Answered(d, buffer)
      /\ removing \subseteq removing'
  BY <1>1, <1>2 DEF requestTaskAcct, remProcEntry, FlagsAfter
<1>4. socket \in Seq(Datagram) /\ Answers(p) \in Seq(Datagram)
  BY AnswersTyped DEF SocketInv, TypeOK
<1>5. /\ d \in Seq(Datagram) /\ DOMAIN d = 1..(Len(socket) + Len(Answers(p)))
      /\ \A i \in 1..(Len(socket) + Len(Answers(p))) :
           d[i] = IF i <= Len(socket) THEN socket[i] ELSE Answers(p)[i - Len(socket)]
  BY <1>4, Concatenated
<1>6. Len(socket) \in Nat /\ Len(Answers(p)) \in {1, 2} /\ DOMAIN socket = 1..Len(socket)
  <2>1. Len(Answers(p)) \in {1, 2} BY AnswersTyped
  <2>2. Len(socket) \in Nat /\ DOMAIN socket = 1..Len(socket) BY <1>4
  <2>3. QED BY <2>1, <2>2
<1> HIDE DEF d
<1>7. SUFFICES ASSUME NEW q \in pending' PROVE Underway(q)' \/ Leaving(q)'
  BY DEF PendingAnswered
<1>8. q \notin Answered(d, buffer) /\ (q \in pending \/ q = p) BY <1>3
<1>9. buffer # "overrun" BY <1>2
<1>10. \A i \in DOMAIN d : d[i] = [what |-> "stats", pid |-> q] => Underway(q)'
  BY <1>3, <1>5, <1>8, <1>9, UnderwayRead
<1>11. CASE Leaving(q) BY <1>3, <1>11 DEF Leaving, Running
<1>12. CASE Underway(q)
  <2>1. PICK i \in DOMAIN socket : socket[i] = [what |-> "stats", pid |-> q]
    BY <1>12 DEF Underway
  <2>2. i \in DOMAIN d /\ d[i] = socket[i] BY <1>5, <1>6, <2>1
  <2>3. QED BY <1>10, <2>1, <2>2
<1>13. CASE q = p /\ Running(p)
  <2>1. Answers(p)[1] = [what |-> "stats", pid |-> p] BY <1>13, AnswersTyped
  <2>2. Len(socket) + 1 \in DOMAIN d /\ d[Len(socket) + 1] = Answers(p)[1]
    BY <1>5, <1>6
  <2>3. QED BY <1>10, <1>13, <2>1, <2>2
<1>14. CASE q = p /\ ~Running(p) BY <1>14 DEF Leaving, Running
<1>15. QED BY <1>1, <1>8, <1>11, <1>12, <1>13, <1>14 DEF PendingAnswered

\* A dispatch of the source takes the flag of the statistics it reads.
LEMMA CallbackPending ==
  ASSUME SocketInv, PendingAnswered, AcctCallback, ~dropped'
  PROVE  PendingAnswered'
<1>1. UNCHANGED <<proc, events, removing, dropped>> /\ Read(socket, buffer)
      /\ pending' = pending \ Answered(socket, buffer)
  BY DEF AcctCallback
<1>2. buffer # "overrun" BY <1>1 DEF SocketInv
<1>3. socket \in Seq(Datagram) BY DEF SocketInv, TypeOK
<1>4. SUFFICES ASSUME NEW q \in pending' PROVE Underway(q)' \/ Leaving(q)'
  BY DEF PendingAnswered
<1>5. Underway(q) => Underway(q)'
  <2>1. SUFFICES ASSUME NEW i \in DOMAIN socket, socket[i] = [what |-> "stats", pid |-> q]
                 PROVE  Underway(q)'
    BY DEF Underway
  <2>2. q \notin Answered(socket, buffer) BY <1>1, <1>4
  <2>3. QED BY <1>1, <1>2, <1>3, <2>1, <2>2, UnderwayRead
<1>6. Leaving(q) => Leaving(q)' BY <1>1 DEF Leaving, Running
<1>7. QED BY <1>1, <1>4, <1>5, <1>6 DEF PendingAnswered

\* Every step keeps an answer for each flag underway.
LEMMA NextPending ==
  SocketInv /\ EntriesKnown /\ PendingInv /\ [Next]_vars => PendingInv'
<1> SUFFICES ASSUME SocketInv, EntriesKnown, PendingInv, [Next]_vars, Traced, ~dropped'
             PROVE  PendingAnswered'
  BY DEF PendingInv, Traced, Next, vars, PendingAnswered
<1>1. TypeOK /\ PendingAnswered BY DEF SocketInv, PendingInv
<1>2. pending \subseteq procList /\ procList \subseteq Pid BY <1>1 DEF TypeOK
<1>3. ASSUME NEW p \in Pid, Fork(p) \/ Exit(p) PROVE PendingAnswered'
  <2>1. UNCHANGED <<removing, pending, socket, dropped>>
    BY <1>3 DEF Fork, Exit, lists, netlink
  <2>2. SUFFICES ASSUME NEW q \in pending PROVE Underway(q)' \/ Leaving(q)'
    BY <2>1 DEF PendingAnswered
  <2>3. q \in Pid /\ q \in procList BY <1>2, <2>2
  <2>4. ExitQueued(q) => ExitQueued(q)' BY <1>1, <1>3, <2>3, KernelExits
  <2>5. Underway(q) => Underway(q)' BY <2>1 DEF Underway
  <2>6. CASE Running(q)' => Running(q)
    <3>1. Leaving(q) => Leaving(q)' BY <2>1, <2>4, <2>6 DEF Leaving, ExitQueued
    <3>2. QED BY <1>1, <2>1, <2>2, <2>5, <3>1 DEF PendingAnswered
  <2>7. CASE Running(q)' /\ ~Running(q)
    <3>1. q = p /\ Fork(p) BY <1>1, <1>3, <2>3, <2>7 DEF TypeOK, Running, Fork, Exit
    <3>2. proc[q] = "gone" /\ options.PidReuse
      BY <2>3, <3>1 DEF EntriesKnown, Fork
    <3>3. ExitQueued(q) BY <2>3, <3>2 DEF EntriesKnown, Traced
    <3>4. QED BY <2>4, <3>3 DEF Leaving, ExitQueued
  <2>8. QED BY <2>6, <2>7
<1>4. ASSUME UNCHANGED <<proc, socket, dropped>>, pending' \subseteq pending,
             \A q \in pending' : q \in removing => q \in removing',
             \A q \in pending' : ExitQueued(q) => ExitQueued(q)'
      PROVE  PendingAnswered'
  <2>1. \A q : Underway(q) => Underway(q)' BY <1>4 DEF Underway
  <2>2. \A q \in pending' : Leaving(q) => Leaving(q)'
    BY <1>4 DEF Leaving, Running, ExitQueued
  <2>3. QED BY <1>1, <1>4, <2>1, <2>2 DEF PendingAnswered
<1>5. CASE ProcEventCallback
  <2>1. UNCHANGED <<proc, socket, dropped>> BY <1>5 DEF ProcEventCallback, netlink
  <2>2. PICK p \in Pid :
           \/ /\ \A q : q # p => (ExitQueued(q)' <=> ExitQueued(q))
              /\ Leave(removing \cup {p})
           \/ /\ \A q : ExitQueued(q)' <=> ExitQueued(q)
              /\ UNCHANGED <<removing, pending>>
    BY <1>1, <1>5, EventEffect
  <2>3. CASE Leave(removing \cup {p}) /\ \A q : q # p => (ExitQueued(q)' <=> ExitQueued(q))
    BY <1>4, <2>1, <2>3 DEF Leave
  <2>4. CASE UNCHANGED <<removing, pending>> /\ \A q : ExitQueued(q)' <=> ExitQueued(q)
    BY <1>4, <2>1, <2>4
  <2>5. QED BY <2>2, <2>3, <2>4
<1>6. CASE \/ SessionsChange \/ doCommitProcList
           \/ \E lane \in {"Pace", "Slow"} : LaneTimer(lane)
  <2>1. UNCHANGED <<proc, events, socket, dropped>>
    BY <1>6 DEF SessionsChange, doCommitProcList, LaneTimer, netlink
  <2>2. pending' \subseteq pending /\ \A q \in pending' : q \in removing => q \in removing'
    BY <1>6 DEF SessionsChange, doCommitProcList, LaneTimer, lists, Leave
  <2>3. QED BY <1>4, <2>1, <2>2 DEF ExitQueued
<1>7. ASSUME NEW p \in todo,
             IF WantsRequest(p) THEN requestTaskAcct(p) ELSE UNCHANGED <<lists, netlink>>,
             UNCHANGED <<proc, events>>
      PROVE  PendingAnswered'
  <2>1. p \in Pid BY <1>1 DEF TypeOK
  <2>2. CASE requestTaskAcct(p) BY <1>1, <1>7, <2>1, <2>2, RequestPending
  <2>3. CASE UNCHANGED <<lists, netlink>>
    BY <1>4, <1>7, <2>3 DEF lists, netlink, ExitQueued
  <2>4. QED BY <1>7, <2>2, <2>3
<1>8. CASE UNCHANGED vars
  BY <1>4, <1>8 DEF vars, changing, lists, netlink, ExitQueued
<1>9. QED
  BY <1>1, <1>3, <1>5, <1>6, <1>7, <1>8, CallbackPending
  DEF Next, Callback, updateProcAcct

\* A flag is set only while the statistics that clear it are in the socket, or its
\* entry leaves, or an answer was dropped; except where /proc is scanned and pids
\* are used again: the entry of the process before then keeps its flag.
THEOREM PendingIsAnswered ==
  Spec => [](~(options.scanning /\ options.PidReuse) => PendingAnswered)
<1>1. Init => PendingInv BY DEF Init, PendingInv, PendingAnswered
<1>2. SocketInv => TypeOK BY DEF SocketInv
<1>3. PendingInv => (~(options.scanning /\ options.PidReuse) => PendingAnswered)
  BY DEF PendingInv, Traced
<1>4. QED
  BY <1>1, <1>2, <1>3, InitSocketInv, NextSocketInv, InitEntries, NextEntries,
     NextPending, PTL DEF Spec

-----------------------------------------------------------------------------
(* A buffer for every answer *)

\* The datagrams that a request for some pid is counted by.
Asked(s) == {i \in DOMAIN s : s[i].what # "ack"}

\* Every acknowledgement but the oldest datagram is behind its statistics.
Paired(s) == \A i \in DOMAIN s : i > 1 /\ s[i].what = "ack" => i - 1 \in Asked(s)

\* What counts the datagrams of a socket.
LEMMA AskedFinite ==
  ASSUME NEW s \in Seq(Datagram)
  PROVE  /\ Asked(s) \subseteq 1..Len(s) /\ DOMAIN s = 1..Len(s) /\ Len(s) \in Nat
         /\ IsFiniteSet(Asked(s)) /\ Cardinality(Asked(s)) \in Nat
<1>1. DOMAIN s = 1..Len(s) /\ Len(s) \in Nat OBVIOUS
<1>2. Asked(s) \subseteq 1..Len(s) BY <1>1 DEF Asked
<1>3. IsFiniteSet(1..Len(s)) BY <1>1, FS_Interval
<1>4. IsFiniteSet(Asked(s)) BY <1>2, <1>3, FS_Subset
<1>5. QED BY <1>1, <1>2, <1>4, FS_CardinalityType

\* Every acknowledgement but one has its statistics before it: a socket has at most
\* two datagrams for what was asked, and one more.
LEMMA LengthBound ==
  ASSUME NEW s \in Seq(Datagram), Paired(s)
  PROVE  Len(s) <= 2 * Cardinality(Asked(s)) + 1
<1> DEFINE acks == (1..Len(s)) \ Asked(s)
           later == acks \ {1}
           f == [i \in later |-> i - 1]
<1>1. /\ Asked(s) \subseteq 1..Len(s) /\ DOMAIN s = 1..Len(s) /\ Len(s) \in Nat
      /\ IsFiniteSet(Asked(s)) /\ Cardinality(Asked(s)) \in Nat
  BY AskedFinite
<1>2. IsFiniteSet(1..Len(s)) /\ Cardinality(1..Len(s)) = Len(s)
  <2>1. 1 \in Int /\ Len(s) \in Int BY <1>1
  <2>2. /\ IsFiniteSet(1..Len(s))
        /\ Cardinality(1..Len(s)) = IF 1 > Len(s) THEN 0 ELSE Len(s) - 1 + 1
    BY <2>1, FS_Interval
  <2>3. (IF 1 > Len(s) THEN 0 ELSE Len(s) - 1 + 1) = Len(s) BY <1>1
  <2>4. QED BY <2>2, <2>3
<1>3. \A i \in later : i - 1 \in Asked(s)
  <2>1. SUFFICES ASSUME NEW i \in later PROVE i - 1 \in Asked(s) OBVIOUS
  <2>2. i \in DOMAIN s /\ i > 1 /\ s[i].what = "ack" BY <1>1 DEF Asked
  <2>3. QED BY <2>2 DEF Paired
<1>4. f \in Injection(later, Asked(s))
  <2>1. f \in [later -> Asked(s)] BY <1>3
  <2>2. \A a, b \in later : f[a] = f[b] => a = b BY <1>1
  <2>3. QED BY <2>1, <2>2 DEF Injection, IsInjective
<1> HIDE DEF f
<1>5. IsFiniteSet(later) /\ Cardinality(later) <= Cardinality(Asked(s))
  BY <1>1, <1>4, FS_Injection
<1> HIDE DEF later
<1>6. IsFiniteSet(acks) /\ Cardinality(acks) = Len(s) - Cardinality(Asked(s))
  <2>1. (1..Len(s)) \cap Asked(s) = Asked(s) BY <1>1
  <2>2. /\ IsFiniteSet(acks)
        /\ Cardinality(acks) = Cardinality(1..Len(s)) - Cardinality((1..Len(s)) \cap Asked(s))
    BY <1>2, FS_Difference
  <2>3. QED BY <1>2, <2>1, <2>2
<1>7. Cardinality(later) \in Nat /\ Cardinality(acks) \in Nat
  BY <1>5, <1>6, FS_CardinalityType
<1>8. Cardinality(later) = IF 1 \in acks THEN Cardinality(acks) - 1 ELSE Cardinality(acks)
  BY <1>6, FS_RemoveElement DEF later
<1>9. QED BY <1>1, <1>5, <1>6, <1>7, <1>8

\* What a read takes from the count.
LEMMA AskedTail ==
  ASSUME NEW s \in Seq(Datagram), s # <<>>
  PROVE  /\ Paired(s) => Paired(Tail(s))
         /\ Cardinality(Asked(Tail(s)))
              <= Cardinality(Asked(s)) - (IF Head(s).what = "ack" THEN 0 ELSE 1)
<1> DEFINE t == Tail(s)
           f == [i \in Asked(t) |-> i + 1]
<1>1. /\ t \in Seq(Datagram) /\ Len(t) = Len(s) - 1 /\ DOMAIN t = 1..Len(t)
      /\ DOMAIN s = 1..Len(s) /\ Len(s) \in Nat \ {0}
      /\ \A i \in 1..Len(t) : t[i] = s[i + 1]
      /\ Head(s) = s[1]
  OBVIOUS
<1>2. IsFiniteSet(Asked(s)) /\ Cardinality(Asked(s)) \in Nat
      /\ Asked(t) \subseteq 1..Len(t)
      /\ Cardinality(Asked(t)) \in Nat
  BY <1>1, AskedFinite
<1> HIDE DEF t
<1>3. \A i \in 1..Len(t) : i \in Asked(t) <=> i + 1 \in Asked(s) \ {1}
  BY <1>1 DEF Asked
<1>4. f \in Injection(Asked(t), Asked(s) \ {1})
  <2>1. f \in [Asked(t) -> Asked(s) \ {1}] BY <1>2, <1>3
  <2>2. \A a, b \in Asked(t) : f[a] = f[b] => a = b BY <1>1, <1>2
  <2>3. QED BY <2>1, <2>2 DEF Injection, IsInjective
<1> HIDE DEF f
<1>5. /\ IsFiniteSet(Asked(s) \ {1})
      /\ Cardinality(Asked(s) \ {1}) = IF 1 \in Asked(s) THEN Cardinality(Asked(s)) - 1
                                       ELSE Cardinality(Asked(s))
  BY <1>2, FS_RemoveElement
<1>6. Cardinality(Asked(t)) <= Cardinality(Asked(s) \ {1})
  BY <1>4, <1>5, FS_Injection
<1>7. 1 \in Asked(s) <=> Head(s).what # "ack" BY <1>1 DEF Asked
<1>8. Cardinality(Asked(t))
        <= Cardinality(Asked(s)) - (IF Head(s).what = "ack" THEN 0 ELSE 1)
  <2>1. CASE Head(s).what = "ack" BY <1>2, <1>5, <1>6, <1>7, <2>1
  <2>2. CASE Head(s).what # "ack" BY <1>2, <1>5, <1>6, <1>7, <2>2
  <2>3. QED BY <2>1, <2>2
<1>9. ASSUME Paired(s) PROVE Paired(t)
  <2>1. SUFFICES ASSUME NEW i \in DOMAIN t, i > 1, t[i].what = "ack"
                 PROVE  i - 1 \in Asked(t)
    BY DEF Paired
  <2>2. i + 1 \in DOMAIN s /\ i + 1 > 1 /\ s[i + 1].what = "ack" BY <1>1, <2>1
  <2>3. (i + 1) - 1 \in Asked(s) BY <1>9, <2>2 DEF Paired
  <2>4. i \in Asked(s) /\ i - 1 \in 1..Len(t) /\ (i - 1) + 1 = i
    BY <1>1, <2>1, <2>3
  <2>5. QED BY <1>3, <2>1, <2>4
<1>10. QED BY <1>8, <1>9 DEF t

\* The answers to one request are counted once.
LEMMA AskedAnswers ==
  ASSUME NEW s \in Seq(Datagram), NEW p \in Pid
  PROVE  /\ Paired(s) => Paired(s \o Answers(p))
         /\ Cardinality(Asked(s \o Answers(p))) = Cardinality(Asked(s)) + 1
<1> DEFINE a == Answers(p)
           d == s \o a
           n == Len(s) + 1
<1>1. /\ a \in Seq(Datagram) /\ Len(a) \in {1, 2}
      /\ a[1].what # "ack" /\ (Len(a) = 2 => a[2].what = "ack")
  <2>1. a \in Seq(Datagram) /\ Len(a) \in {1, 2} BY AnswersTyped
  <2>2. CASE Running(p)
    <3>1. /\ a[1] = [what |-> "stats", pid |-> p]
          /\ a[2] = [what |-> "ack", pid |-> p]
      BY <2>2, AnswersTyped
    <3>2. a[1].what = "stats" /\ a[2].what = "ack" BY <3>1
    <3>3. QED BY <2>1, <3>2
  <2>3. CASE ~Running(p)
    <3>1. a[1] = [what |-> "error", pid |-> p] /\ Len(a) = 1 BY <2>3, AnswersTyped
    <3>2. a[1].what = "error" BY <3>1
    <3>3. QED BY <2>1, <3>1, <3>2
  <2>4. QED BY <2>2, <2>3
<1>2. /\ Asked(s) \subseteq 1..Len(s) /\ DOMAIN s = 1..Len(s) /\ Len(s) \in Nat
      /\ IsFiniteSet(Asked(s)) /\ Cardinality(Asked(s)) \in Nat
  BY AskedFinite
<1> HIDE DEF a
<1>3. /\ DOMAIN d = 1..(Len(s) + Len(a))
      /\ \A i \in 1..(Len(s) + Len(a)) : d[i] = IF i <= Len(s) THEN s[i] ELSE a[i - Len(s)]
  BY <1>1, Concatenated
<1> HIDE DEF d
<1>4. /\ \A i \in 1..Len(s) : i \in DOMAIN d /\ d[i] = s[i]
      /\ n \in DOMAIN d /\ d[n] = a[1] /\ n \notin 1..Len(s)
      /\ \A i \in DOMAIN d : i \in 1..Len(s) \/ i = n \/ (i = n + 1 /\ d[i] = a[2]
                                                                     /\ Len(a) = 2)
  BY <1>1, <1>2, <1>3
<1>5. Asked(d) = Asked(s) \cup {n} BY <1>1, <1>2, <1>4 DEF Asked
<1>6. Cardinality(Asked(d)) = Cardinality(Asked(s)) + 1
  <2>1. n \notin Asked(s) BY <1>2, <1>4
  <2> HIDE DEF n
  <2>2. QED BY <1>2, <1>5, <2>1, FS_AddElement
<1>7. ASSUME Paired(s) PROVE Paired(d)
  <2>1. SUFFICES ASSUME NEW i \in DOMAIN d, i > 1, d[i].what = "ack"
                 PROVE  i - 1 \in Asked(d)
    BY DEF Paired
  <2>2. CASE i \in 1..Len(s)
    <3>1. i - 1 \in Asked(s) BY <1>2, <1>4, <1>7, <2>1, <2>2 DEF Paired
    <3>2. QED BY <1>5, <3>1
  <2>3. CASE i = n BY <1>1, <1>4, <2>1, <2>3
  <2>4. CASE i = n + 1 BY <1>2, <1>5, <2>4
  <2>5. QED BY <1>4, <2>1, <2>2, <2>3, <2>4
<1>8. QED BY <1>6, <1>7 DEF d, a

\* The pids that a request may be sent for without anything being read: those
\* that are not pending, unless they are gone and not listed, and once more the
\* running ones whose removal clears the flag.
Askable == {p \in Pid : p \notin pending /\ (proc[p] = "gone" => p \in procList)}

\* Those that a removal makes ready for another request.
AskableAgain == {p \in removing : Running(p)}

\* Without reuse of pids an exit that is reported is the last of its pid.
EndedOnce == \A p \in Pid : ExitQueued(p) => proc[p] = "gone"

\* While nothing is dropped, what is in the socket and what may still be asked are
\* together no more than there are pids.
Budget ==
  ~options.PidReuse =>
    /\ EndedOnce
    /\ ~dropped =>
         /\ Paired(socket)
         /\ Cardinality(Asked(socket)) + Cardinality(Askable) + Cardinality(AskableAgain)
              <= Cardinality(Pid)

\* How the size of a set of pids changes with its elements.
LEMMA PidsCounted ==
  ASSUME NEW S \in SUBSET Pid, NEW T \in SUBSET Pid
  PROVE  /\ IsFiniteSet(S) /\ Cardinality(S) \in Nat
         /\ T \subseteq S => Cardinality(T) <= Cardinality(S)
         /\ \A x \in Pid : T \subseteq S \cup {x} => Cardinality(T) <= Cardinality(S) + 1
         /\ \A x \in S : T \subseteq S \ {x} => Cardinality(T) <= Cardinality(S) - 1
<1>1. IsFiniteSet(Pid) BY ProcAcctAssumption
<1>2. IsFiniteSet(S) /\ IsFiniteSet(T) BY <1>1, FS_Subset
<1>3. Cardinality(S) \in Nat /\ Cardinality(T) \in Nat BY <1>2, FS_CardinalityType
<1>4. T \subseteq S => Cardinality(T) <= Cardinality(S) BY <1>2, FS_Subset
<1>5. ASSUME NEW x \in Pid, T \subseteq S \cup {x}
      PROVE  Cardinality(T) <= Cardinality(S) + 1
  <2>1. /\ IsFiniteSet(S \cup {x})
        /\ Cardinality(S \cup {x}) = IF x \in S THEN Cardinality(S) ELSE Cardinality(S) + 1
    BY <1>2, FS_AddElement
  <2>2. Cardinality(T) <= Cardinality(S \cup {x}) BY <1>5, <2>1, FS_Subset
  <2>3. QED BY <1>3, <2>1, <2>2
<1>6. ASSUME NEW x \in S, T \subseteq S \ {x}
      PROVE  Cardinality(T) <= Cardinality(S) - 1
  <2>1. /\ IsFiniteSet(S \ {x})
        /\ Cardinality(S \ {x}) = IF x \in S THEN Cardinality(S) - 1 ELSE Cardinality(S)
    BY <1>2, FS_RemoveElement
  <2>2. Cardinality(T) <= Cardinality(S \ {x}) BY <1>6, <2>1, FS_Subset
  <2>3. QED BY <1>3, <2>1, <2>2
<1>7. QED BY <1>2, <1>3, <1>4, <1>5, <1>6

\* Elements that move from one set to another are not counted twice.
LEMMA PidsMerged ==
  ASSUME NEW S \in SUBSET Pid, NEW T \in SUBSET Pid, NEW U \in SUBSET Pid,
         U \subseteq S \cup T
  PROVE  Cardinality(U) <= Cardinality(S) + Cardinality(T)
<1>1. IsFiniteSet(S) /\ IsFiniteSet(T) BY PidsCounted
<1>2. /\ IsFiniteSet(S \cup T) /\ Cardinality(S \cup T) =
           Cardinality(S) + Cardinality(T) - Cardinality(S \cap T)
  BY <1>1, FS_Union
<1>3. IsFiniteSet(S \cap T) BY <1>1, FS_Intersection
<1>4. Cardinality(U) <= Cardinality(S \cup T) BY <1>2, FS_Subset
<1>5. /\ Cardinality(S) \in Nat /\ Cardinality(T) \in Nat
      /\ Cardinality(S \cap T) \in Nat /\ Cardinality(S \cup T) \in Nat
      /\ Cardinality(U) \in Nat
  BY <1>1, <1>2, <1>3, FS_CardinalityType, PidsCounted
<1>6. QED BY <1>2, <1>4, <1>5

\* A step that leaves the socket alone adds nothing to what may be asked.
LEMMA QuietBudget ==
  ASSUME TypeOK, TypeOK', Budget, UNCHANGED <<options, netlink>>,
         ~options.PidReuse => EndedOnce',
         ~options.PidReuse =>
           \/ Askable' \subseteq Askable /\ AskableAgain' \subseteq AskableAgain
           \/ Askable' \subseteq Askable \cup AskableAgain /\ AskableAgain' = {}
  PROVE  Budget'
<1> DEFINE a == Askable
           b == AskableAgain
           c == Askable'
           e == AskableAgain'
<1>1. a \in SUBSET Pid /\ b \in SUBSET Pid /\ c \in SUBSET Pid /\ e \in SUBSET Pid
  BY DEF Askable, AskableAgain, TypeOK
<1>2. UNCHANGED <<options, socket, dropped>> BY DEF netlink
<1> HIDE DEF a, b, c, e
<1>3. /\ Cardinality(a) \in Nat /\ Cardinality(b) \in Nat
      /\ Cardinality(c) \in Nat /\ Cardinality(e) \in Nat
  BY <1>1, PidsCounted
<1>4. c \subseteq a /\ e \subseteq b =>
        Cardinality(c) + Cardinality(e) <= Cardinality(a) + Cardinality(b)
  <2>1. c \subseteq a => Cardinality(c) <= Cardinality(a) BY <1>1, PidsCounted
  <2>2. e \subseteq b => Cardinality(e) <= Cardinality(b) BY <1>1, PidsCounted
  <2>3. QED BY <1>3, <2>1, <2>2
<1>5. c \subseteq a \cup b /\ e = {} =>
        Cardinality(c) + Cardinality(e) <= Cardinality(a) + Cardinality(b)
  <2>1. c \subseteq a \cup b => Cardinality(c) <= Cardinality(a) + Cardinality(b)
    BY <1>1, PidsMerged
  <2>2. e = {} => Cardinality(e) = 0 BY FS_EmptySet
  <2>3. QED BY <1>3, <2>1, <2>2
<1>6. ~options.PidReuse =>
        Cardinality(c) + Cardinality(e) <= Cardinality(a) + Cardinality(b)
  BY <1>4, <1>5 DEF a, b, c, e
<1>7. Cardinality(Asked(socket)) \in Nat BY AskedFinite DEF TypeOK
<1>8. Cardinality(Pid) \in Nat BY ProcAcctAssumption, FS_CardinalityType
<1>9. ASSUME ~options.PidReuse, ~dropped
      PROVE  /\ Paired(socket)
             /\ Cardinality(Asked(socket)) + Cardinality(c) + Cardinality(e)
                  <= Cardinality(Pid)
  <2>1. Paired(socket) /\ Cardinality(Asked(socket)) + Cardinality(a) + Cardinality(b)
                            <= Cardinality(Pid)
    BY <1>9 DEF Budget, a, b
  <2>2. QED BY <1>3, <1>6, <1>7, <1>8, <1>9, <2>1
<1>10. QED BY <1>2, <1>9 DEF Budget, c, e

\* A request counts for what it reads: while the budget holds it finds room.
LEMMA RequestFits ==
  ASSUME SocketInv, Budget, NothingDropped, NEW p \in Askable,
         ~options.PidReuse, options.RxBufferSize > 2 * Cardinality(Pid)
  PROVE  Accepted(p) = Answers(p) /\ ~dropped
<1> DEFINE c == Cardinality(Asked(socket))
           a == Cardinality(Askable)
           b == Cardinality(AskableAgain)
           n == Cardinality(Pid)
<1>1. ~dropped /\ buffer = "ok" BY DEF NothingDropped, SocketInv
<1>2. Paired(socket) /\ c + a + b <= n BY <1>1 DEF Budget
<1>3. socket \in Seq(Datagram) /\ options.RxBufferSize \in Nat
  BY OptionsTyped DEF SocketInv, TypeOK
<1>4. Len(socket) <= 2 * c + 1 BY <1>2, <1>3, LengthBound
<1>5. c \in Nat /\ Len(socket) \in Nat BY <1>3, AskedFinite
<1>6. Askable \in SUBSET Pid /\ AskableAgain \in SUBSET Pid /\ Pid \in SUBSET Pid
  BY DEF Askable, AskableAgain, SocketInv, TypeOK
<1>7. a \in Nat /\ b \in Nat /\ n \in Nat BY <1>6, PidsCounted
<1>8. a >= 1
  <2>1. {} \subseteq Askable \ {p} /\ {} \in SUBSET Pid OBVIOUS
  <2>2. Cardinality({}) <= a - 1 BY <1>6, <2>1, PidsCounted
  <2>3. QED BY <1>7, <2>2, FS_EmptySet
<1> HIDE DEF a, b, c, n
<1>9. options.RxBufferSize > 2 * n BY DEF n
<1>10. Room = options.RxBufferSize - Len(socket) BY <1>1 DEF Room
<1>11. 2 <= Room BY <1>2, <1>3, <1>4, <1>5, <1>7, <1>8, <1>9, <1>10
<1>12. Len(Answers(p)) \in {1, 2} BY <1>6, AnswersTyped
<1>13. Len(Answers(p)) <= Room
  <2> DEFINE m == Len(Answers(p))
  <2>1. m \in {1, 2} BY <1>12
  <2>2. Room \in Int BY <1>3, <1>5, <1>10
  <2> HIDE DEF m
  <2>3. m <= Room BY <1>11, <2>1, <2>2
  <2>4. QED BY <2>3 DEF m
<1>14. QED BY <1>1, <1>13 DEF Accepted

\* What a request adds to the socket and what it reads, against what may be asked.
LEMMA RequestBudget ==
  ASSUME SocketInv, SocketInv', Budget, NEW p \in todo, WantsRequest(p),
         requestTaskAcct(p), UNCHANGED <<options, proc, events>>
  PROVE  Budget'
<1> SUFFICES ASSUME ~options.PidReuse, ~dropped'
             PROVE  /\ Paired(socket)'
                    /\ Cardinality(Asked(socket'))
                         + Cardinality(Askable') + Cardinality(AskableAgain')
                         <= Cardinality(Pid)
  <2>1. ~options.PidReuse => EndedOnce' BY DEF Budget, EndedOnce, ExitQueued
  <2>2. UNCHANGED options OBVIOUS
  <2>3. QED BY <2>1, <2>2 DEF Budget
<1> DEFINE d == socket \o Answers(p)
           a == Askable
           b == AskableAgain
           f == Askable'
           g == AskableAgain'
           n == Cardinality(Pid)
<1>1. Accepted(p) = Answers(p) /\ ~dropped BY DEF requestTaskAcct
<1>2. buffer = "ok" BY <1>1 DEF SocketInv
<1>3. /\ Read(d, buffer) /\ pending' = (pending \cup {p}) \ Answered(d, buffer)
      /\ procList' = procList
      /\ removing' = IF Head(d).what = "error" THEN removing \cup {p} ELSE removing
  BY <1>1, <1>2 DEF requestTaskAcct, remProcEntry, FlagsAfter, Failed
<1>4. socket' = Tail(d) BY <1>2, <1>3 DEF Read
<1>5. Answered(d, buffer) = IF Head(d).what = "stats" THEN {Head(d).pid} ELSE {}
  BY <1>2 DEF Answered
<1>6. p \in Pid /\ p \in procList /\ p \in a BY DEF SocketInv, TypeOK, Askable, WantsRequest
<1>7. socket \in Seq(Datagram) /\ Answers(p) \in Seq(Datagram)
      /\ Len(Answers(p)) \in {1, 2}
  BY <1>6, AnswersTyped DEF SocketInv, TypeOK
<1>8. d \in Seq(Datagram) /\ d # <<>> BY <1>7, Concatenated
<1>9. Paired(d) /\ Cardinality(Asked(d)) = Cardinality(Asked(socket)) + 1
  BY <1>1, <1>6, <1>7, AskedAnswers DEF Budget
<1>10. Cardinality(Asked(socket)) + Cardinality(a) + Cardinality(b) <= n
  BY <1>1 DEF Budget
<1> HIDE DEF d
<1>11. Head(d) \in Datagram BY <1>8
<1>12. Head(d).pid \in Pid /\ Head(d).what \in {"stats", "ack", "error"}
  BY <1>11 DEF Datagram
<1>13. Paired(socket') /\ Cardinality(Asked(socket'))
           <= Cardinality(Asked(d)) - (IF Head(d).what = "ack" THEN 0 ELSE 1)
  BY <1>4, <1>8, <1>9, AskedTail
<1>14. Cardinality(Asked(socket)) \in Nat /\ Cardinality(Asked(socket')) \in Nat
  <2>1. socket' \in Seq(Datagram) BY DEF SocketInv, TypeOK
  <2>2. QED BY <1>7, <2>1, AskedFinite
<1>15. a \in SUBSET Pid /\ b \in SUBSET Pid /\ f \in SUBSET Pid /\ g \in SUBSET Pid
       /\ Pid \in SUBSET Pid
  BY DEF Askable, AskableAgain, SocketInv, TypeOK
<1>16. /\ f \subseteq (a \ {p}) \cup (IF Head(d).what = "stats" THEN {Head(d).pid} ELSE {})
       /\ g \subseteq b \cup (IF Head(d).what = "error" THEN {p} ELSE {})
  BY <1>3, <1>5, <1>6 DEF Askable, AskableAgain, Running
<1> HIDE DEF a, b, f, g, n
<1>17. /\ Cardinality(a) \in Nat /\ Cardinality(b) \in Nat
       /\ Cardinality(f) \in Nat /\ Cardinality(g) \in Nat /\ n \in Nat
  BY <1>15, PidsCounted DEF n
<1>18. a \ {p} \in SUBSET Pid /\ Cardinality(a \ {p}) \in Nat
       /\ Cardinality(a \ {p}) <= Cardinality(a) - 1
  <2>1. a \ {p} \in SUBSET Pid BY <1>15
  <2>2. QED BY <1>6, <1>15, <2>1, PidsCounted
<1>19. CASE Head(d).what = "stats"
  <2>1. f \subseteq (a \ {p}) \cup {Head(d).pid} /\ g \subseteq b BY <1>16, <1>19
  <2> DEFINE r == a \ {p}
  <2> HIDE DEF r
  <2>2. Cardinality(f) <= Cardinality(r) + 1 BY <1>12, <1>15, <1>18, <2>1, PidsCounted DEF r
  <2>3. Cardinality(g) <= Cardinality(b) BY <1>15, <2>1, PidsCounted
  <2>4. Cardinality(Asked(socket')) <= Cardinality(Asked(socket)) BY <1>9, <1>13, <1>14, <1>19
  <2>5. QED BY <1>10, <1>13, <1>14, <1>17, <1>18, <2>2, <2>3, <2>4 DEF f, g, n, r
<1>20. CASE Head(d).what = "error"
  <2>1. f \subseteq a \ {p} /\ g \subseteq b \cup {p} BY <1>16, <1>20
  <2>2. Cardinality(f) <= Cardinality(a) - 1 BY <1>6, <1>15, <2>1, PidsCounted
  <2>3. Cardinality(g) <= Cardinality(b) + 1 BY <1>6, <1>15, <2>1, PidsCounted
  <2>4. Cardinality(Asked(socket')) <= Cardinality(Asked(socket)) BY <1>9, <1>13, <1>14, <1>20
  <2>5. QED BY <1>10, <1>13, <1>14, <1>17, <2>2, <2>3, <2>4 DEF f, g, n
<1>21. CASE Head(d).what = "ack"
  <2>1. f \subseteq a \ {p} /\ g \subseteq b BY <1>16, <1>21
  <2>2. Cardinality(f) <= Cardinality(a) - 1 BY <1>6, <1>15, <2>1, PidsCounted
  <2>3. Cardinality(g) <= Cardinality(b) BY <1>15, <2>1, PidsCounted
  <2>4. Cardinality(Asked(socket')) <= Cardinality(Asked(socket)) + 1
    BY <1>9, <1>13, <1>14, <1>21
  <2>5. QED BY <1>10, <1>13, <1>14, <1>17, <2>2, <2>3, <2>4 DEF f, g, n
<1>22. QED BY <1>12, <1>19, <1>20, <1>21

\* A dispatch of the source reads the statistics before it frees their flag.
LEMMA CallbackBudget ==
  ASSUME SocketInv, SocketInv', Budget, AcctCallback, UNCHANGED options
  PROVE  Budget'
<1>1. /\ UNCHANGED <<proc, events, procList, removing, dropped>>
      /\ Read(socket, buffer) /\ pending' = pending \ Answered(socket, buffer)
      /\ (socket # <<>> \/ buffer = "overrun")
  BY DEF AcctCallback
<1> SUFFICES ASSUME ~options.PidReuse, ~dropped
             PROVE  /\ Paired(socket)'
                    /\ Cardinality(Asked(socket'))
                         + Cardinality(Askable') + Cardinality(AskableAgain')
                         <= Cardinality(Pid)
  <2>1. ~options.PidReuse => EndedOnce' BY <1>1 DEF Budget, EndedOnce, ExitQueued
  <2>2. UNCHANGED options OBVIOUS
  <2>3. QED BY <1>1, <2>1, <2>2 DEF Budget
<1> DEFINE a == Askable
           b == AskableAgain
           f == Askable'
           n == Cardinality(Pid)
           h == Head(socket)
<1>2. buffer = "ok" /\ socket # <<>> BY <1>1 DEF SocketInv
<1>3. socket' = Tail(socket) BY <1>1, <1>2 DEF Read
<1>4. socket \in Seq(Datagram) /\ socket' \in Seq(Datagram) BY DEF SocketInv, TypeOK
<1>5. h \in Datagram BY <1>2, <1>4
<1>6. h.pid \in Pid /\ h.what \in {"stats", "ack", "error"} BY <1>5 DEF Datagram
<1>7. Paired(socket) /\ Cardinality(Asked(socket)) + Cardinality(a) + Cardinality(b) <= n
  BY DEF Budget
<1>8. Paired(socket') /\ Cardinality(Asked(socket'))
           <= Cardinality(Asked(socket)) - (IF h.what = "ack" THEN 0 ELSE 1)
  BY <1>2, <1>3, <1>4, <1>7, AskedTail
<1>9. Cardinality(Asked(socket)) \in Nat /\ Cardinality(Asked(socket')) \in Nat
  BY <1>4, AskedFinite
<1>10. AskableAgain' = b BY <1>1 DEF AskableAgain, Running
<1>11. f \subseteq a \cup (IF h.what = "stats" THEN {h.pid} ELSE {})
  BY <1>1, <1>2 DEF Askable, Answered
<1>12. a \in SUBSET Pid /\ b \in SUBSET Pid /\ f \in SUBSET Pid /\ Pid \in SUBSET Pid
  BY DEF Askable, AskableAgain, SocketInv, TypeOK
<1> HIDE DEF a, b, f, n, h
<1>13. /\ Cardinality(a) \in Nat /\ Cardinality(b) \in Nat
       /\ Cardinality(f) \in Nat /\ n \in Nat
  BY <1>12, PidsCounted DEF n
<1>14. CASE h.what = "stats"
  <2>1. Cardinality(f) <= Cardinality(a) + 1 BY <1>6, <1>11, <1>12, <1>14, PidsCounted
  <2>2. Cardinality(Asked(socket')) <= Cardinality(Asked(socket)) - 1 BY <1>8, <1>14
  <2>3. QED BY <1>7, <1>8, <1>9, <1>10, <1>13, <2>1, <2>2 DEF f, n
<1>15. CASE h.what # "stats"
  <2>1. Cardinality(f) <= Cardinality(a) BY <1>11, <1>12, <1>15, PidsCounted
  <2>2. Cardinality(Asked(socket')) <= Cardinality(Asked(socket)) BY <1>6, <1>8, <1>9
  <2>3. QED BY <1>7, <1>8, <1>9, <1>10, <1>13, <2>1, <2>2 DEF f, n
<1>16. QED BY <1>14, <1>15

\* Budget holds at start.
LEMMA InitBudget == Init => Budget /\ NothingDropped
<1> SUFFICES ASSUME Init PROVE Budget /\ NothingDropped OBVIOUS
<1>1. EndedOnce BY DEF Init, EndedOnce, ExitQueued
<1>2. socket = <<>> /\ ~dropped /\ pending = {} /\ removing = {}
      /\ proc \in [Pid -> {"free", "running"}]
  BY DEF Init
<1>3. Asked(socket) = {} /\ Paired(socket) BY <1>2 DEF Asked, Paired
<1>4. Askable = Pid /\ AskableAgain = {} BY <1>2 DEF Askable, AskableAgain
<1>5. Cardinality({}) = 0 BY FS_EmptySet
<1>6. Cardinality(Pid) \in Nat BY ProcAcctAssumption, FS_CardinalityType
<1>7. Cardinality(Asked(socket)) + Cardinality(Askable) + Cardinality(AskableAgain)
        <= Cardinality(Pid)
  BY <1>3, <1>4, <1>5, <1>6
<1>8. QED BY <1>1, <1>2, <1>3, <1>7 DEF Budget, NothingDropped

\* Every step keeps the budget, and with it the room in the socket.
LEMMA NextBudget ==
  ASSUME SocketInv, SocketInv', EntriesKnown, Budget, NothingDropped, [Next]_vars
  PROVE  Budget' /\ NothingDropped'
<1>1. TypeOK /\ TypeOK' /\ procList \subseteq Pid /\ removing \subseteq procList
      /\ pending \subseteq procList
  BY DEF SocketInv, TypeOK
<1>2. ASSUME NEW p \in Pid, Fork(p) \/ Exit(p), UNCHANGED options
      PROVE  Budget' /\ NothingDropped'
  <2>1. UNCHANGED <<procList, removing, pending, netlink, dropped>>
    BY <1>2 DEF Fork, Exit, lists, netlink
  <2>2. \A q \in Pid : q # p => proc'[q] = proc[q] BY <1>1, <1>2 DEF TypeOK, Fork, Exit
  <2>3. \A q \in Pid : ExitQueued(q)' => ExitQueued(q) \/ (q = p /\ Exit(p))
    BY <1>1, <1>2, KernelExits
  <2>4. CASE Fork(p)
    <3>1. ~options.PidReuse => proc[p] = "free" BY <2>4 DEF Fork
    <3>2. proc'[p] = "running" BY <1>1, <2>4 DEF TypeOK, Fork
    <3>3. ~options.PidReuse => p \notin procList BY <3>1 DEF EntriesKnown
    <3>4. ~Exit(p) BY <3>2 DEF Exit, TypeOK, SocketInv
    <3>5. ~options.PidReuse => EndedOnce'
      BY <2>2, <2>3, <3>1, <3>4 DEF Budget, EndedOnce
    <3>6. ~options.PidReuse =>
             Askable' \subseteq Askable /\ AskableAgain' \subseteq AskableAgain
      BY <1>1, <2>1, <2>2, <3>1, <3>3 DEF Askable, AskableAgain, Running
    <3>7. QED BY <1>1, <1>2, <2>1, <3>5, <3>6, QuietBudget DEF NothingDropped
  <2>5. CASE Exit(p)
    <3>1. proc'[p] = "gone" BY <1>1, <2>5 DEF TypeOK, Exit
    <3>2. proc[p] = "running" BY <2>5 DEF Exit, Running
    <3>3. ~options.PidReuse => EndedOnce' BY <2>2, <2>3, <3>1 DEF Budget, EndedOnce
    <3>4. Askable' \subseteq Askable /\ AskableAgain' \subseteq AskableAgain
      BY <1>1, <2>1, <2>2, <3>1, <3>2 DEF Askable, AskableAgain, Running
    <3>5. QED BY <1>1, <1>2, <2>1, <3>3, <3>4, QuietBudget DEF NothingDropped
  <2>6. QED BY <1>2, <2>4, <2>5
<1>3. ASSUME NEW lane \in {"Pace", "Slow"}, LaneTimer(lane), UNCHANGED options
      PROVE  Budget' /\ NothingDropped'
  <2>1. UNCHANGED <<proc, events, pending, netlink, dropped>>
    BY <1>3 DEF LaneTimer, netlink
  <2>2. procList' = procList \cup Scanned /\ \A q \in Scanned : Running(q)
    BY <1>3 DEF LaneTimer, Scanned
  <2>3. \A q \in removing' : q \in removing \/ ~Running(q) BY <1>3 DEF LaneTimer
  <2>4. Askable' \subseteq Askable /\ AskableAgain' \subseteq AskableAgain
    BY <2>1, <2>2, <2>3 DEF Askable, AskableAgain, Running
  <2>5. ~options.PidReuse => EndedOnce' BY <2>1 DEF Budget, EndedOnce, ExitQueued
  <2>6. QED BY <1>1, <1>3, <2>1, <2>4, <2>5, QuietBudget DEF NothingDropped
<1>4. ASSUME UNCHANGED <<options, proc, netlink, dropped>>, NEW left \in SUBSET Pid,
             Leave(left), removing \subseteq left,
             ~options.PidReuse => EndedOnce',
             ~options.PidReuse => \A q \in left : q \in removing \/ ~Running(q)
      PROVE  Budget' /\ NothingDropped'
  <2>1. procList' = procList \ left /\ pending' = pending \ left /\ removing' = {}
    BY <1>4 DEF Leave
  <2>2. ~options.PidReuse =>
          Askable' \subseteq Askable \cup AskableAgain /\ AskableAgain' = {}
    <3>1. SUFFICES ASSUME ~options.PidReuse, NEW q \in Askable'
                   PROVE  q \in Askable \cup AskableAgain
      BY <2>1 DEF AskableAgain
    <3>2. q \in Pid /\ q \notin pending' /\ (proc[q] = "gone" => q \in procList')
      BY <1>4 DEF Askable
    <3>3. CASE q \in left
      <4>1. proc[q] # "gone" BY <2>1, <3>2, <3>3
      <4>2. CASE q \in pending
        <5>1. proc[q] # "free" BY <1>1, <4>2 DEF EntriesKnown
        <5>2. Running(q) BY <1>1, <3>2, <4>1, <5>1 DEF TypeOK, Running
        <5>3. QED BY <1>4, <3>1, <3>3, <5>2 DEF AskableAgain
      <4>3. QED BY <3>2, <4>1, <4>2 DEF Askable
    <3>4. CASE q \notin left BY <2>1, <3>2, <3>4 DEF Askable
    <3>5. QED BY <3>3, <3>4
  <2>3. QED BY <1>1, <1>4, <2>2, QuietBudget DEF NothingDropped
<1>5. ASSUME doCommitProcList, UNCHANGED options PROVE Budget' /\ NothingDropped'
  <2>1. UNCHANGED <<proc, events, netlink, dropped>> /\ Leave(removing)
    BY <1>5 DEF doCommitProcList, netlink
  <2>2. ~options.PidReuse => EndedOnce' BY <2>1 DEF Budget, EndedOnce, ExitQueued
  <2>3. removing \in SUBSET Pid BY <1>1
  <2>4. QED BY <1>4, <1>5, <2>1, <2>2, <2>3
<1>6. ASSUME ProcEventCallback, UNCHANGED options PROVE Budget' /\ NothingDropped'
  <2>1. UNCHANGED <<proc, netlink, dropped>> BY <1>6 DEF ProcEventCallback, netlink
  <2>2. PICK p \in Pid :
           \/ /\ ExitQueued(p) /\ (\A q : ExitQueued(q)' => ExitQueued(q))
              /\ Leave(removing \cup {p})
           \/ /\ \A q : ExitQueued(q)' <=> ExitQueued(q)
              /\ procList' \in {procList, procList \cup {p}}
              /\ p \in procList' => p \in procList \/ Running(p)
              /\ UNCHANGED <<removing, pending>>
    BY <1>1, <1>6, EventEffect
  <2>3. \A q : ExitQueued(q)' => ExitQueued(q) BY <2>2
  <2>4. ~options.PidReuse => EndedOnce' BY <2>1, <2>3 DEF Budget, EndedOnce
  <2>5. CASE Leave(removing \cup {p}) /\ ExitQueued(p)
    <3>1. ~options.PidReuse => ~Running(p) BY <2>5 DEF Budget, EndedOnce, Running
    <3>2. removing \cup {p} \in SUBSET Pid BY <1>1
    <3>3. QED BY <1>4, <1>6, <2>1, <2>4, <2>5, <3>1, <3>2
  <2>6. CASE /\ procList' \in {procList, procList \cup {p}}
             /\ p \in procList' => p \in procList \/ Running(p)
             /\ UNCHANGED <<removing, pending>>
    <3>1. Askable' \subseteq Askable /\ AskableAgain' \subseteq AskableAgain
      BY <2>1, <2>6 DEF Askable, AskableAgain, Running
    <3>2. QED BY <1>1, <1>6, <2>1, <2>4, <3>1, QuietBudget DEF NothingDropped
  <2>7. QED BY <2>2, <2>5, <2>6
<1>7. CASE UNCHANGED <<options, proc, events, lists, netlink>>
  <2>1. ~options.PidReuse => EndedOnce' BY <1>7 DEF Budget, EndedOnce, ExitQueued
  <2>2. UNCHANGED <<procList, removing, pending, dropped>> BY <1>7 DEF lists, netlink
  <2>3. Askable' \subseteq Askable /\ AskableAgain' \subseteq AskableAgain
    BY <1>7, <2>2 DEF Askable, AskableAgain, Running
  <2>4. QED BY <1>1, <1>7, <2>1, <2>2, <2>3, QuietBudget DEF NothingDropped
<1>8. ASSUME NEW p \in todo,
             IF WantsRequest(p) THEN requestTaskAcct(p) ELSE UNCHANGED <<lists, netlink>>,
             UNCHANGED <<options, proc, events>>
      PROVE  Budget' /\ NothingDropped'
  <2>1. CASE WantsRequest(p)
    <3>1. requestTaskAcct(p) BY <1>8, <2>1
    <3>2. p \in Askable BY <1>1, <2>1 DEF TypeOK, WantsRequest, Askable
    <3>3. ~options.PidReuse /\ options.RxBufferSize > 2 * Cardinality(Pid) => ~dropped'
      BY <3>1, <3>2, RequestFits DEF requestTaskAcct
    <3>4. NothingDropped' BY <1>8, <3>3 DEF NothingDropped
    <3>5. Budget' BY <1>8, <2>1, <3>1, RequestBudget
    <3>6. QED BY <3>4, <3>5
  <2>2. CASE ~WantsRequest(p) BY <1>7, <1>8, <2>2
  <2>3. QED BY <2>1, <2>2
<1>9. ASSUME AcctCallback, UNCHANGED options PROVE Budget' /\ NothingDropped'
  <2>1. Budget' BY <1>9, CallbackBudget
  <2>2. UNCHANGED dropped BY <1>9 DEF AcctCallback
  <2>3. QED BY <1>9, <2>1, <2>2 DEF NothingDropped
<1>10. SessionsChange => UNCHANGED <<proc, events, lists, netlink>>
  BY DEF SessionsChange
<1>11. UNCHANGED vars => UNCHANGED <<options, proc, events, lists, netlink>>
  BY DEF vars, changing
<1>12. QED
  BY <1>2, <1>3, <1>5, <1>6, <1>7, <1>8, <1>9, <1>10, <1>11
  DEF Next, Callback, updateProcAcct

\* While no pid is used again, a socket with room for two datagrams for each
\* process and one more is never overrun, however late it is read.
THEOREM NothingIsDropped == Spec => []NothingDropped
<1> DEFINE Inv == SocketInv /\ EntriesKnown /\ Budget /\ NothingDropped
<1>1. Init => Inv BY InitSocketInv, InitEntries, InitBudget
<1>2. Inv /\ [Next]_vars => Inv'
  <2>1. SocketInv => TypeOK BY DEF SocketInv
  <2>2. QED BY <2>1, NextSocketInv, NextEntries, NextBudget
<1>3. Inv => NothingDropped OBVIOUS
<1>4. QED BY <1>1, <1>2, <1>3, PTL DEF Spec

=============================================================================
