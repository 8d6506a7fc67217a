----------------------------- MODULE KeepAlive -----------------------------
(***************************************************************************)
(* Sessions in time: how long a client may be silent before StateManager   *)
(* disconnects it, and what the wait for a descriptor does to a client     *)
(* that is not silent and to the heartbeat that systemd waits for.         *)
(* Collectors has the same sessions without time.                          *)
(*                                                                         *)
(* The event loop works in rounds: it polls, dispatches every source that  *)
(* is ready in an order of its own, and polls again.  A dispatch takes no  *)
(* time but for one: the accept callback of a server waits up to Block for *)
(* the descriptor of the client it accepted, and nothing else of the       *)
(* program runs meanwhile.  Time also passes while nothing is ready.       *)
(***************************************************************************)
EXTENDS Integers, Sequences, FiniteSets, SequencesExt

CONSTANTS
  Client,           \* clients that are monitored for inactivity
  TCP,              \* those that TCPServer accepts
  Obedient,         \* those that send a message every half of the timeout
  Server,           \* the servers that accept connections
  Configs,          \* what a start of the program may find as its options
  MinTimeout,       \* the least value of CollectorInactiveTimeout
  DefaultTimeout,   \* Defaults: CollectorInactiveTimeout
  FallbackTimeout,  \* Defaults: ProfModeFastLaneInt
  Block,            \* SO_RCVTIMEO while a server reads a descriptor
  RemFinalizes      \* whether remEventSource runs the finalize callback

\* The option in the configuration file, where a property that is absent or that
\* stoul refuses is not valid, and what sd_watchdog_enabled tells, 0 if disabled
\* and else more than one unit of time.
Config == [file : BOOLEAN, valid : BOOLEAN, value : Nat, usec : Nat \ {1}]

\* An applicant that never becomes a client.
Stranger == "stranger"

Nobody == "nobody"

\* The sources that are not those of clients and servers.
OwnSources == {"CollectorsStateTimer", "Watchdog", "StateManagerEventQueue"}

ASSUME KeepAliveAssumption ==
  /\ IsFiniteSet(Server)
  /\ Client \cap (Server \cup OwnSources \cup {Stranger, Nobody}) = {}
  /\ Server \cap OwnSources = {}
  /\ TCP \subseteq Client /\ Obedient \subseteq Client
  /\ Configs \subseteq Config
  /\ {MinTimeout, DefaultTimeout, FallbackTimeout} \subseteq Nat \ {0}
  /\ Block \in Nat /\ RemFinalizes \in BOOLEAN

VARIABLES
  timeout,    \* collectorTimeout of StateManager
  usec,       \* the timeout of the systemd watchdog
  open,       \* clients whose collector is in the loop
  age,        \* per client, the time since its last update
  quiet,      \* per client, the time since it sent something
  unread,     \* clients with a message, or an end of theirs, that is not read yet
  monitored,  \* StateManager::m_activeCollectorList
  late,       \* history: how long a client was inactive before it was listed
  requests,   \* StateManager::m_queue
  phase,      \* per timer, the time since it expired last
  expired,    \* the timers that are ready
  beat,       \* the time since the last heartbeat
  ready,      \* the sources of this round that are not dispatched yet
  applicant,  \* whom an accept callback serves
  waited      \* the time it has waited

sessions == <<open, age, quiet, unread, monitored, late>>
options == <<timeout, usec>>
timers == <<phase, expired, beat>>
accepting == <<applicant, waited>>
vars == <<options, sessions, requests, timers, ready, accepting>>

-----------------------------------------------------------------------------

MonitorCollector(c) ==
  [action |-> "MonitorCollector", collector |-> c, args |-> {}]

RemoveCollector(c, args) ==
  [action |-> "RemoveCollector", collector |-> c, args |-> args]

UpdateWakeLock(c) ==
  [action |-> "UpdateWakeLock", collector |-> c, args |-> {}]

Request ==
  [action : {"MonitorCollector", "RemoveCollector", "UpdateWakeLock"},
   collector : Client, args : SUBSET {"WithEventSource"}]

\* The Watchdog timer is made if systemd wants heartbeats.
Timer == {"CollectorsStateTimer"} \cup {t \in {"Watchdog"} : usec > 0}

Source == Client \cup Server \cup Timer \cup {"StateManagerEventQueue"}

\* Variant: any number that stoul accepts will do.
getForUnchecked(config) ==
  CASE ~config.file -> FallbackTimeout
    [] config.file /\ config.valid -> config.value
    [] OTHER -> DefaultTimeout

\* Options::getFor(CollectorInactiveTimeout).
getFor(config) ==
  CASE ~config.file -> FallbackTimeout
    [] config.file /\ config.valid /\ config.value >= MinTimeout -> config.value
    [] OTHER -> DefaultTimeout

Init ==
  /\ \E config \in Configs : timeout = getFor(config) /\ usec = config.usec
  /\ open = {} /\ unread = {} /\ monitored = {} /\ requests = <<>>
  /\ age = [c \in Client |-> 0] /\ quiet = [c \in Client |-> 0]
  /\ late = [c \in Client |-> 0]
  /\ phase = [t \in Timer |-> 0] /\ expired = {} /\ beat = 0
  /\ ready = {}
  /\ applicant = Nobody /\ waited = 0

-----------------------------------------------------------------------------
(* Time and the clients *)

\* The sources a poll finds, without the servers.
Pending ==
  unread \cup expired \cup {s \in {"StateManagerEventQueue"} : requests # <<>>}

\* The longest an obedient client is silent: half of the timeout, as the comment in
\* the configuration file asks for.  What the program tells a client is the timeout.
KeepAliveInterval == timeout \div 2

\* The collector object of a session of c exists, if only as a reference.
Referenced(c) ==
  c \in open \cup monitored \/ \E i \in DOMAIN requests : requests[i].collector = c

\* The last update time of c may yet be read: it is in the loop, listed or to be listed.
Watched(c) ==
  c \in open \cup monitored \/ \E i \in DOMAIN requests : requests[i] = MonitorCollector(c)

\* Variant: the timer is started with twice the interval.
PeriodDoubled(t) == IF t = "Watchdog" THEN usec \div 2 ELSE 2 * timeout

\* Variant: a heartbeat in each interval of the watchdog.
PeriodFull(t) == IF t = "Watchdog" THEN usec ELSE timeout

Period(t) == IF t = "Watchdog" THEN usec \div 2 ELSE timeout

\* Time passes in the wait for a descriptor and when there is nothing to do, and
\* an obedient client has sent what it has to send by then.
Tick ==
  /\ \/ applicant # Nobody /\ waited < Block /\ waited' = waited + 1
     \/ applicant = Nobody /\ ready \cup Pending = {} /\ UNCHANGED waited
  /\ \A c \in open \cap Obedient : quiet[c] < KeepAliveInterval
  /\ age' = [c \in Client |-> IF Watched(c) THEN age[c] + 1 ELSE 0]
  /\ quiet' = [c \in Client |-> IF c \in open \cap Obedient THEN quiet[c] + 1 ELSE 0]
  /\ phase' = [t \in Timer |-> (phase[t] + 1) % Period(t)]
  /\ expired' = expired \cup {t \in Timer : phase'[t] = 0}
  /\ beat' = IF usec > 0 THEN beat + 1 ELSE 0
  /\ UNCHANGED <<options, open, unread, monitored, late, requests, ready, applicant>>

\* A KeepAlive message, any other request, or the end of the connection.
Send(c) ==
  /\ c \in open
  /\ unread' = unread \cup {c}
  /\ quiet' = [quiet EXCEPT ![c] = 0]
  /\ UNCHANGED <<options, open, age, monitored, late, requests, timers, ready,
                 accepting>>

-----------------------------------------------------------------------------
(* The event loop *)

\* Somebody may connect to any server at any time.
Poll ==
  /\ applicant = Nobody /\ ready = {}
  /\ \E connected \in SUBSET Server : ready' = Pending \cup connected
  /\ ready' # {}
  /\ UNCHANGED <<options, sessions, requests, timers, accepting>>

\* s is dispatched and leaves the round.
Dispatch(s) ==
  /\ applicant = Nobody
  /\ s \in ready /\ ready' = ready \ {s}

\* A connection is a new session: c stands for it when nothing is left of the one
\* before.
AcceptCallback(s) ==
  /\ Dispatch(s)
  /\ applicant' \in {c \in Client : ~Referenced(c)} \cup {Stranger}
  /\ UNCHANGED <<options, sessions, requests, timers, waited>>

\* The descriptor arrived, or something else did, or nothing in time.
AcceptReturns ==
  /\ applicant # Nobody
  /\ applicant' = Nobody /\ waited' = 0
  /\ \/ UNCHANGED <<sessions, requests>>
     \/ /\ applicant \in Client
        /\ open' = open \cup {applicant}
        /\ age' = [age EXCEPT ![applicant] = 0]
        /\ quiet' = [quiet EXCEPT ![applicant] = 0]
        /\ requests' = Append(requests, MonitorCollector(applicant))
        /\ UNCHANGED <<unread, monitored, late>>
  /\ UNCHANGED <<options, timers, ready>>

\* The last update time of c, which each message that is handled sets.
Update(c) == age' = [age EXCEPT ![c] = 0] /\ late' = [late EXCEPT ![c] = 0]

\* Nothing is left to read.
ReadAll(c) == Update(c) /\ UNCHANGED <<open, requests>>

\* The connection ended or failed, or a message was refused, before or after others
\* were handled: the source leaves the loop, and finalize asks for the removal.
ReadAndLeave(c) ==
  /\ Update(c) \/ UNCHANGED <<age, late>>
  /\ open' = open \ {c}
  /\ requests' = Append(requests, RemoveCollector(c, {}))

ReadCallback(c) ==
  /\ Dispatch(c)
  /\ unread' = unread \ {c}
  /\ ReadAll(c) \/ ReadAndLeave(c)
  /\ UNCHANGED <<options, quiet, monitored, timers, accepting>>

\* Variant: a collector whose age is the timeout is inactive already.
InactiveAtTimeout(c) == age[c] >= timeout

\* durationUs > collectorTimeout
Inactive(c) == age[c] > timeout

CollectorsTimer ==
  /\ Dispatch("CollectorsStateTimer")
  /\ expired' = expired \ {"CollectorsStateTimer"}
  /\ \E order \in SetToSeqs({RemoveCollector(c, {"WithEventSource"}) :
                               c \in {d \in monitored : Inactive(d)}}) :
       requests' = requests \o order
  /\ UNCHANGED <<options, sessions, phase, beat, accepting>>

\* The callback of startWatchdog: sd_notify.
Watchdog ==
  /\ Dispatch("Watchdog")
  /\ expired' = expired \ {"Watchdog"}
  /\ beat' = 0
  /\ UNCHANGED <<options, sessions, requests, phase, accepting>>

\* The request a handler pushes for a TCP collector.
WakeLockRequests(c) == IF c \in TCP THEN <<UpdateWakeLock(c)>> ELSE <<>>

doMonitorCollector(c) ==
  /\ Head(requests) = MonitorCollector(c)
  /\ monitored' = monitored \cup {c}
  /\ late' = [late EXCEPT ![c] = IF Inactive(c) THEN age[c] - timeout ELSE 0]
  /\ requests' = Tail(requests) \o WakeLockRequests(c)
  /\ ready' = ready \ {"StateManagerEventQueue"}
  /\ UNCHANGED <<open, age, quiet, unread>>

\* What the removal of the event source of c pushes, by its finalize callback.
FinalizeRequests(c) == IF RemFinalizes THEN <<RemoveCollector(c, {})>> ELSE <<>>

\* remEventSource takes the source out of the loop, and out of this round, unless
\* it left before.
doRemoveCollector(c, args) ==
  /\ Head(requests) = RemoveCollector(c, args)
  /\ monitored' = monitored \ {c}
  /\ late' = [late EXCEPT ![c] = 0]
  /\ \/ /\ "WithEventSource" \in args /\ c \in open
        /\ open' = open \ {c} /\ unread' = unread \ {c}
        /\ ready' = ready \ {"StateManagerEventQueue", c}
        /\ requests' = Tail(requests) \o FinalizeRequests(c) \o WakeLockRequests(c)
     \/ /\ ~("WithEventSource" \in args /\ c \in open)
        /\ ready' = ready \ {"StateManagerEventQueue"}
        /\ requests' = Tail(requests) \o WakeLockRequests(c)
        /\ UNCHANGED <<open, unread>>
  /\ UNCHANGED <<age, quiet>>

\* The wake lock itself is in Collectors.
doUpdateWakeLock(c) ==
  /\ Head(requests) = UpdateWakeLock(c)
  /\ requests' = Tail(requests)
  /\ ready' = ready \ {"StateManagerEventQueue"}
  /\ UNCHANGED sessions

requestHandler ==
  /\ applicant = Nobody /\ "StateManagerEventQueue" \in ready
  /\ \E c \in Client :
       \/ doMonitorCollector(c)
       \/ \E args \in SUBSET {"WithEventSource"} : doRemoveCollector(c, args)
       \/ doUpdateWakeLock(c)
  /\ UNCHANGED <<options, timers, accepting>>

-----------------------------------------------------------------------------

Next ==
  \/ Tick \/ Poll
  \/ \E c \in Client : Send(c) \/ ReadCallback(c)
  \/ \E s \in Server : AcceptCallback(s)
  \/ AcceptReturns
  \/ CollectorsTimer \/ Watchdog
  \/ requestHandler

Spec == Init /\ [][Next]_vars

-----------------------------------------------------------------------------
(* Properties *)

\* Every variable has its type: the timeout is none that Options refuses, and only
\* the sources that are in the loop are read and dispatched.
TypeOK ==
  /\ timeout \in Nat \ {0} /\ usec \in Nat \ {1}
  /\ timeout >= MinTimeout \/ timeout \in {DefaultTimeout, FallbackTimeout}
  /\ open \subseteq Client /\ unread \subseteq open /\ monitored \subseteq Client
  /\ age \in [Client -> Nat] /\ quiet \in [Client -> Nat] /\ late \in [Client -> Nat]
  /\ requests \in Seq(Request)
  /\ phase \in [Timer -> Nat] /\ \A t \in Timer : phase[t] < Period(t)
  /\ expired \subseteq Timer /\ beat \in Nat
  /\ ready \subseteq Source /\ ready \cap Client \subseteq open
  /\ applicant \in Client \cup {Stranger, Nobody}
  /\ waited \in 0..Block

\* The timer asked for the removal of c.
TimedOut(c) ==
  \E i \in DOMAIN requests : requests[i] = RemoveCollector(c, {"WithEventSource"})

\* The removal of c was asked for, by the timer or because its session ended.
Removed(c) == TimedOut(c) \/ \E i \in DOMAIN requests : requests[i] = RemoveCollector(c, {})

\* config/taskmonitor.conf.in: "A client collector should send any request or the
\* KeepAlive message at least half this interval time to keep the session alive."
\* A client that does, while its session lasts, is never taken for inactive.
ObedientKept == \A c \in Obedient \cap open : ~TimedOut(c)

\* A message waits for the rest of a round and the servers of the next one.
LongestWait == 2 * Cardinality(Server) * Block

\* Where half the timeout covers that wait, the promise is kept.
ObedientKeptWithSlack ==
  KeepAliveInterval + LongestWait <= timeout => ObedientKept

\* A silent client is noticed: its removal is asked for by the second expiry of
\* the timer after its last update, later only by the wait for descriptors and by
\* the time its listing was late, in a queue that handles one request per round.
SilentNoticed ==
  \A c \in monitored : age[c] > 2 * timeout + LongestWait + late[c] => Removed(c)

\* systemd restarts the daemon when there is no heartbeat in usec.  One is sent
\* every half of it, and comes in time where the other half covers the wait.
HeartbeatInTime ==
  usec > 0 /\ usec \div 2 + LongestWait <= usec => beat <= usec

=============================================================================
