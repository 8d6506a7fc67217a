----------------------------- MODULE Collectors -----------------------------
(***************************************************************************)
(* The client sessions of taskmonitor: TCPServer and UDSServer accept a    *)
(* connection and read its descriptor, TCPCollector and UDSCollector read  *)
(* and dispatch its requests from the event loop, and StateManager keeps   *)
(* the list of monitored collectors, disconnects the inactive ones and     *)
(* holds the wake lock of the system while a TCP collector is connected.   *)
(*                                                                         *)
(* Everything runs on the one thread of the event loop.  A callback is     *)
(* atomic, ready sources are dispatched in any order, and an AsyncQueue is *)
(* an event source of its own that handles one request per dispatch.  The  *)
(* hazards are in what happens between a push and the dispatch that        *)
(* handles it.                                                             *)
(*                                                                         *)
(* A Collector is the identity of a collector object together with the     *)
(* client at the other end.  The object exists while something refers to   *)
(* it (shared_ptr); after that the identity may connect again.             *)
(***************************************************************************)
EXTENDS Integers, Sequences, FiniteSets, SequencesExt

CONSTANTS
  Collector,          \* the clients, and the collector objects serving them
  TCP,                \* those that connect to TCPServer, the rest to UDSServer
  UDSMonitorCollectorInactivity,  \* option: monitor UDS collectors too
  TCPActiveWakeLock,  \* option, in a build with WITH_WAKE_LOCK
  WakeLockSysfs,      \* /sys/power/wake_lock and wake_unlock exist
  UShortMax,          \* the largest unsigned short
  RemFinalizes,       \* EventLoop: remEventSource runs the finalize callback
  MaxInbox,           \* bound: unread messages of one client
  MaxQueue            \* bound: the inactivity timer waits for a shorter queue

ASSUME CollectorsAssumption ==
  /\ IsFiniteSet(Collector)
  /\ UShortMax \in Nat /\ Cardinality(Collector) <= UShortMax
  /\ TCP \subseteq Collector
  /\ {UDSMonitorCollectorInactivity, TCPActiveWakeLock,
      WakeLockSysfs, RemFinalizes} \subseteq BOOLEAN
  /\ MaxInbox \in Nat /\ MaxQueue \in Nat

VARIABLES
  servers,    \* the kinds of server whose event source is in the loop
  backlog,    \* clients connected and not accepted yet
  loop,       \* collectors whose event source is in the loop
  gone,       \* clients that closed or reset a connection still served
  inbox,      \* per client, the messages sent and not read yet
  pending,    \* per collector, CollectAndSend requests in the module queues
  active,     \* StateManager::m_activeCollectorList
  idle,       \* listed collectors, the last update more than the timeout ago
  smQueue,    \* StateManager::m_queue
  procAcctCollectorCounter,
  wakeLock,   \* gActiveWakeLock
  kernelLock  \* the kernel holds the wake lock "taskmonitor"

vars == <<servers, backlog, loop, gone, inbox, pending, active, idle, smQueue,
          procAcctCollectorCounter, wakeLock, kernelLock>>

-----------------------------------------------------------------------------

\* What a client may send.  "KeepAlive" stands for CreateSession too, "Get" for
\* every data request, "Invalid" for an envelope of another origin and for an
\* unknown request type.
Message == {"KeepAlive", "Get", "Invalid"}

MonitorCollector(c) ==
  [action |-> "MonitorCollector", collector |-> c, args |-> {}]

\* Variant: the argument WithEventSource is lost.
RemoveCollectorNoArgs(c, args) ==
  [action |-> "RemoveCollector", collector |-> c, args |-> {}]

RemoveCollector(c, args) ==
  [action |-> "RemoveCollector", collector |-> c, args |-> args]

UpdateWakeLock(c) ==
  [action |-> "UpdateWakeLock", collector |-> c, args |-> {}]

Request ==
  {MonitorCollector(c) : c \in Collector} \cup
  {RemoveCollector(c, args) : c \in Collector, args \in SUBSET {"WithEventSource"}} \cup
  {UpdateWakeLock(c) : c \in Collector}

\* Variant: pushed only while the lock is still to be taken.
WakeLockRequestsToTake(c) ==
  IF c \in TCP /\ ~wakeLock THEN <<UpdateWakeLock(c)>> ELSE <<>>

\* The request a handler pushes for a TCP collector and not for a UDS one.
WakeLockRequests(c) == IF c \in TCP THEN <<UpdateWakeLock(c)>> ELSE <<>>

ServerOf(c) == IF c \in TCP THEN "TCPServer" ELSE "UDSServer"

\* TCPServer has every collector monitored, UDSServer by option.
Monitored == IF UDSMonitorCollectorInactivity THEN Collector ELSE TCP

Queued(rq) == \E i \in DOMAIN smQueue : smQueue[i] = rq

\* Some owner holds a shared_ptr to the collector object.
Referenced(c) ==
  \/ c \in loop \cup active
  \/ pending[c] > 0
  \/ \E i \in DOMAIN smQueue : smQueue[i].collector = c

\* std::atomic<unsigned short>
inc(n) == IF n = UShortMax THEN 0 ELSE n + 1
dec(n) == IF n = 0 THEN UShortMax ELSE n - 1

Init ==
  /\ servers = {"TCPServer", "UDSServer"}
  /\ backlog = {} /\ loop = {} /\ gone = {}
  /\ inbox = [c \in Collector |-> <<>>]
  /\ pending = [c \in Collector |-> 0]
  /\ active = {} /\ idle = {}
  /\ smQueue = <<>>
  /\ procAcctCollectorCounter = 0
  /\ wakeLock = FALSE /\ kernelLock = FALSE

-----------------------------------------------------------------------------
(* Clients and the passing of time *)

Connect(c) ==
  /\ c \notin backlog /\ ~Referenced(c)
  /\ backlog' = backlog \cup {c}
  /\ UNCHANGED <<servers, loop, gone, inbox, pending, active, idle, smQueue,
                 procAcctCollectorCounter, wakeLock, kernelLock>>

\* What a client does before it is accepted shows only afterwards.
Send(c, m) ==
  /\ c \in loop \ gone
  /\ Len(inbox[c]) + pending[c] < MaxInbox
  /\ inbox' = [inbox EXCEPT ![c] = Append(@, m)]
  /\ UNCHANGED <<servers, backlog, loop, gone, pending, active, idle, smQueue,
                 procAcctCollectorCounter, wakeLock, kernelLock>>

HangUp(c) ==
  /\ c \in loop \ gone
  /\ gone' = gone \cup {c}
  /\ UNCHANGED <<servers, backlog, loop, inbox, pending, active, idle, smQueue,
                 procAcctCollectorCounter, wakeLock, kernelLock>>

\* The last update of a collector is now more than CollectorInactiveTimeout ago.
BecomeIdle(c) ==
  /\ c \in active \ idle
  /\ idle' = idle \cup {c}
  /\ UNCHANGED <<servers, backlog, loop, gone, inbox, pending, active, smQueue,
                 procAcctCollectorCounter, wakeLock, kernelLock>>

-----------------------------------------------------------------------------
(* TCPServer and UDSServer *)

\* The descriptor arrived within 3 seconds: the collector object is made, its
\* source added to the loop, and StateManager asked to monitor it.
Accept(c) ==
  /\ c \in backlog /\ ServerOf(c) \in servers
  /\ backlog' = backlog \ {c}
  /\ loop' = loop \cup {c}
  /\ procAcctCollectorCounter' = IF c \in TCP
                                 THEN inc(procAcctCollectorCounter)
                                 ELSE procAcctCollectorCounter
  /\ smQueue' = smQueue \o IF c \in Monitored
                           THEN <<MonitorCollector(c)>> ELSE <<>>
  /\ UNCHANGED <<servers, gone, inbox, pending, active, idle, wakeLock, kernelLock>>

\* No descriptor, or not the right one: the connection is closed and the server
\* goes on with the next one.
RejectDescriptor(c) ==
  /\ c \in backlog /\ ServerOf(c) \in servers
  /\ backlog' = backlog \ {c}
  /\ UNCHANGED <<servers, loop, gone, inbox, pending, active, idle, smQueue,
                 procAcctCollectorCounter, wakeLock, kernelLock>>

\* accept() fails with something else than EWOULDBLOCK: the callback returns
\* false and the server is never dispatched again.
AcceptFails(s) ==
  /\ \E c \in backlog : ServerOf(c) = s
  /\ s \in servers
  /\ servers' = servers \ {s}
  /\ UNCHANGED <<backlog, loop, gone, inbox, pending, active, idle, smQueue,
                 procAcctCollectorCounter, wakeLock, kernelLock>>

-----------------------------------------------------------------------------
(* TCPCollector and UDSCollector *)

\* Variant: ask for the removal of a listed collector only.
FinalizeRequestsIfListed(c) ==
  IF c \in active THEN <<RemoveCollector(c, {})>> ELSE <<>>

\* What the finalize callback of a collector pushes.
FinalizeRequests(c) == <<RemoveCollector(c, {})>>

\* The event source of c leaves the loop.  The other end sees the connection
\* closed when the object dies; what it sends until then is never read.
LeaveLoop(c) ==
  /\ loop' = loop \ {c}
  /\ gone' = gone \ {c}
  /\ inbox' = [inbox EXCEPT ![c] = <<>>]

\* Variant: UDSCollector gives back what it never took.
FinalizeAnyType(c) == procAcctCollectorCounter' = dec(procAcctCollectorCounter)

\* The finalize callback on the counter: only TCPCollector uses it.
Finalize(c) ==
  procAcctCollectorCounter' = IF c \in TCP
                              THEN dec(procAcctCollectorCounter)
                              ELSE procAcctCollectorCounter

\* The doGet functions push one CollectAndSend request for a data request.
DataRequests(c, n) == Cardinality({i \in 1..n : inbox[c][i] = "Get"})

\* The messages that may end the session of a client that is still there: an
\* invalid one, or a CreateSession whose answer could not be written.
EndingMessage == {"Invalid", "KeepAlive"}

\* One dispatch handles messages until there is none left (Again) or until one
\* ends the session.  The first n messages are handled with status true: each
\* renews the last update time, and a data request is pushed to its module.
\* A client that is gone may have reset the connection before the rest.
HandleMessages(c, n) ==
  /\ \A i \in 1..n : inbox[c][i] # "Invalid"
  /\ pending' = [pending EXCEPT ![c] = @ + DataRequests(c, n)]
  /\ idle' = IF n > 0 THEN idle \ {c} ELSE idle

ReadAll(c) ==
  /\ c \in loop \ gone /\ inbox[c] # <<>>
  /\ HandleMessages(c, Len(inbox[c]))
  /\ inbox' = [inbox EXCEPT ![c] = <<>>]
  /\ UNCHANGED <<servers, backlog, loop, gone, active, smQueue,
                 procAcctCollectorCounter, wakeLock, kernelLock>>

ReadAndLeave(c) ==
  /\ c \in loop
  /\ \E n \in 0..Len(inbox[c]) :
       /\ HandleMessages(c, n)
       /\ \/ c \in gone
          \/ n < Len(inbox[c]) /\ inbox[c][n + 1] \in EndingMessage
  /\ LeaveLoop(c)
  /\ Finalize(c)
  /\ smQueue' = smQueue \o FinalizeRequests(c)
  /\ UNCHANGED <<servers, backlog, active, wakeLock, kernelLock>>

ReadCallback(c) == ReadAll(c) \/ ReadAndLeave(c)

\* A module handles a CollectAndSend request and drops its reference; what it
\* writes to a connection that is closed already is lost.
CollectAndSend(c) ==
  /\ pending[c] > 0
  /\ pending' = [pending EXCEPT ![c] = @ - 1]
  /\ UNCHANGED <<servers, backlog, loop, gone, inbox, active, idle, smQueue,
                 procAcctCollectorCounter, wakeLock, kernelLock>>

-----------------------------------------------------------------------------
(* StateManager *)

\* Variant: only TCP collectors are looked at.
InactiveTCP(c) == c \in idle \cap TCP

\* durationUs > collectorTimeout
Inactive(c) == c \in idle

\* A request to remove each of a sequence of collectors.
Removals(order) ==
  [i \in DOMAIN order |-> RemoveCollector(order[i], {"WithEventSource"})]

\* m_collectorsTimer asks for the removal of every inactive collector.
CollectorsTimer ==
  LET late == {c \in active : Inactive(c)} IN
  /\ late # {} /\ Len(smQueue) < MaxQueue
  /\ \E order \in SetToSeqs(late) : smQueue' = smQueue \o Removals(order)
  /\ UNCHANGED <<servers, backlog, loop, gone, inbox, pending, active, idle,
                 procAcctCollectorCounter, wakeLock, kernelLock>>

doMonitorCollector(rq) ==
  /\ rq.action = "MonitorCollector"
  /\ active' = active \cup {rq.collector}
  /\ smQueue' = Tail(smQueue) \o WakeLockRequests(rq.collector)
  /\ UNCHANGED <<servers, backlog, loop, gone, inbox, pending, idle,
                 procAcctCollectorCounter, wakeLock, kernelLock>>

\* remEventSource does nothing for a source that left the loop before.
doRemoveCollector(rq) ==
  LET c == rq.collector IN
  /\ rq.action = "RemoveCollector"
  /\ active' = active \ {c} /\ idle' = idle \ {c}
  /\ \/ /\ "WithEventSource" \in rq.args /\ c \in loop
        /\ LeaveLoop(c)
        /\ IF RemFinalizes
           THEN /\ Finalize(c)
                /\ smQueue' = Tail(smQueue) \o FinalizeRequests(c)
                                            \o WakeLockRequests(c)
           ELSE /\ smQueue' = Tail(smQueue) \o WakeLockRequests(c)
                /\ UNCHANGED procAcctCollectorCounter
     \/ /\ ~("WithEventSource" \in rq.args /\ c \in loop)
        /\ smQueue' = Tail(smQueue) \o WakeLockRequests(c)
        /\ UNCHANGED <<loop, gone, inbox, procAcctCollectorCounter>>
  /\ UNCHANGED <<servers, backlog, pending, wakeLock, kernelLock>>

\* Variant: the flag is not reset with the lock.
doUpdateWakeLockFlagKept(rq) ==
  LET haveTcpCollector == active \cap TCP # {} IN
  /\ rq.action = "UpdateWakeLock"
  /\ IF TCPActiveWakeLock /\ WakeLockSysfs /\ haveTcpCollector # wakeLock
     THEN wakeLock' = TRUE /\ kernelLock' = haveTcpCollector
     ELSE UNCHANGED <<wakeLock, kernelLock>>
  /\ smQueue' = Tail(smQueue)
  /\ UNCHANGED <<servers, backlog, loop, gone, inbox, pending, active, idle,
                 procAcctCollectorCounter>>

doUpdateWakeLock(rq) ==
  LET haveTcpCollector == active \cap TCP # {} IN
  /\ rq.action = "UpdateWakeLock"
  /\ IF TCPActiveWakeLock /\ WakeLockSysfs /\ haveTcpCollector # wakeLock
     THEN wakeLock' = haveTcpCollector /\ kernelLock' = haveTcpCollector
     ELSE UNCHANGED <<wakeLock, kernelLock>>
  /\ smQueue' = Tail(smQueue)
  /\ UNCHANGED <<servers, backlog, loop, gone, inbox, pending, active, idle,
                 procAcctCollectorCounter>>

requestHandler ==
  /\ smQueue # <<>>
  /\ \/ doMonitorCollector(Head(smQueue))
     \/ doRemoveCollector(Head(smQueue))
     \/ doUpdateWakeLock(Head(smQueue))

\* The process ends (a signal, a failure) and is started again.  Every
\* connection ends with it; the kernel keeps the wake lock until the
\* constructor of StateManager writes wake_unlock.
Restart ==
  /\ servers' = {"TCPServer", "UDSServer"}
  /\ backlog' = {} /\ loop' = {} /\ gone' = {}
  /\ inbox' = [c \in Collector |-> <<>>]
  /\ pending' = [c \in Collector |-> 0]
  /\ active' = {} /\ idle' = {}
  /\ smQueue' = <<>>
  /\ procAcctCollectorCounter' = 0
  /\ wakeLock' = FALSE
  /\ kernelLock' = (kernelLock /\ ~WakeLockSysfs)

-----------------------------------------------------------------------------

Next ==
  \/ \E c \in Collector :
       \/ Connect(c) \/ HangUp(c) \/ BecomeIdle(c)
       \/ \E m \in Message : Send(c, m)
       \/ Accept(c) \/ RejectDescriptor(c)
       \/ ReadCallback(c) \/ CollectAndSend(c)
  \/ \E s \in servers : AcceptFails(s)
  \/ CollectorsTimer
  \/ requestHandler
  \/ Restart

\* The loop dispatches a source that stays ready, and the timer is periodic.
\* Nothing is assumed of clients, of failures and of time.
Fairness ==
  /\ \A c \in Collector : WF_vars(ReadCallback(c)) /\ WF_vars(CollectAndSend(c))
  /\ WF_vars(CollectorsTimer)
  /\ WF_vars(requestHandler)

Spec == Init /\ [][Next]_vars

FairSpec == Spec /\ Fairness

-----------------------------------------------------------------------------
(* Properties *)

SessionTypeOK ==
  /\ servers \subseteq {"TCPServer", "UDSServer"}
  /\ backlog \subseteq Collector /\ loop \subseteq Collector
  /\ gone \subseteq loop
  /\ inbox \in [Collector -> Seq(Message)]
  /\ pending \in [Collector -> Nat]
  /\ active \subseteq Collector /\ idle \subseteq active
  /\ smQueue \in Seq(Request)
  /\ procAcctCollectorCounter \in 0..UShortMax

LockTypeOK ==
  /\ wakeLock \in BOOLEAN /\ kernelLock \in BOOLEAN
  /\ wakeLock => kernelLock

\* Every variable has its type: a listed idle collector, a client that went
\* away while its source is in the loop, an unsigned short counter.  The flag
\* gActiveWakeLock is set only while the kernel holds the lock.
TypeOK == SessionTypeOK /\ LockTypeOK

\* ProcEntry::updateProcAcct asks the kernel for task accounting only while the
\* counter is not zero.  However the inactivity timer, the end of a connection
\* and a repeated removal interleave, each TCP session is counted once and
\* given back once: the counter is the number of TCP sources in the loop.
CounterCountsSessions ==
  RemFinalizes => procAcctCollectorCounter = Cardinality(loop \cap TCP)

\* A collector that StateManager still lists after its source left the loop has
\* its removal queued, and queued behind any request to monitor it: the list
\* never keeps a dead collector (and its descriptor) for good.
DeadCollectorsLeave ==
  \A c \in Collector \ loop :
    /\ c \in active => Queued(RemoveCollector(c, {}))
    /\ \A i \in DOMAIN smQueue : smQueue[i] = MonitorCollector(c) =>
         \E j \in DOMAIN smQueue : j > i /\ smQueue[j] = RemoveCollector(c, {})

\* A session that has to be monitored is in the list or on its way there: no
\* late or repeated removal takes it out of the list and leaves its source in
\* the loop, where nothing would ever notice that its client is silent.
SessionsMonitored ==
  \A c \in loop \cap Monitored : c \in active \/ Queued(MonitorCollector(c))

\* doc: "Hold a wakelock if server has an active client".  The lock of the
\* kernel disagrees with the list only while an update of it is queued, across
\* restarts too.
WakeLockCurrent ==
  (kernelLock # (TCPActiveWakeLock /\ WakeLockSysfs /\ active \cap TCP # {}))
    => \E i \in DOMAIN smQueue : smQueue[i].action = "UpdateWakeLock"

\* A connection that ended, for whatever reason, is forgotten: the last
\* reference goes and the descriptor is closed.
EndedSessionReleased ==
  \A c \in Collector : (c \notin loop) ~> (~Referenced(c) \/ c \in loop)

\* A client that went away, or stays idle while it is monitored, does not keep
\* its source in the loop.
SilentSessionEnds ==
  \A c \in Collector :
    (c \in loop /\ c \in gone \cup idle)
      ~> (c \notin loop \/ c \notin gone \cup idle)

\* The wake lock does not outlive the last TCP session.
WakeLockReleased ==
  (loop \cap TCP = {}) ~> (~kernelLock \/ loop \cap TCP # {})

-----------------------------------------------------------------------------
(* What the sessions implement *)

\* The stage of a session, as its client sees it.
SessionOf(c) ==
  CASE c \in backlog -> "connecting"
    [] c \in loop -> "open"
    [] c \notin backlog \cup loop /\ Referenced(c) -> "ended"
    [] OTHER -> "closed"

Service == INSTANCE Sessions WITH
  session <- [c \in Collector |-> SessionOf(c)],
  owed <- pending,
  accounting <- procAcctCollectorCounter # 0

\* The servers, the collectors and StateManager together, with their queues and
\* their shared pointers, give each client the session that Sessions describes:
\* nothing is taken in before a session is open or after it ended, no answer is
\* made up, a client can only come back when nothing of its last session is
\* left, and task accounting is asked for while a TCP session is open.  It needs
\* a loop that finalizes what is removed from it (RemFinalizes).
ImplementsSessions == Service!Spec

=============================================================================
