# A TLA+ model of taskmonitor

taskmonitor is a Linux daemon that reads `/proc` and two netlink interfaces and
reports what it finds to *collectors*, clients that connect over TCP or a Unix
socket. This directory holds TLA+ modules translated from its source, the TLC
configurations that check them and TLAPS proofs about them. `PROJECT.json` lists
the runs, maps each definition to the lines it models, and lists the hazards the
properties are for.

Check a module with `tlc -config <cfg> <module>` and a module of proofs (those whose
names end in `Proofs`) with `tlapm <module>.tla`.

## The system

Everything runs on one thread, in the event loop of bswinfra. A component is
made of event sources: sockets (`Pollable`), queues of requests (`AsyncQueue`)
and timers (`Timer`). Components talk by pushing a request into another's queue,
so *what is decided in one callback is done in a later one*, and anything may be
dispatched in between. The kernel and the clients act at any time.

| Component | State | Operations | Talks to |
|---|---|---|---|
| TCPServer, UDSServer | listening socket, source in the loop or not | accept, read the descriptor, reject, fail | makes collectors, StateManager (MonitorCollector) |
| TCPCollector, UDSCollector (ICollector) | connection, last update time, source in the loop or not | read and dispatch requests, end, finalize | module queues (CollectAndSend), StateManager (RemoveCollector), counter of Application |
| StateManager | active collectors, queue, wake lock flag | MonitorCollector, RemoveCollector, UpdateWakeLock, UpdateProcessList, inactivity timer | loop, `/sys/power`, ProcRegistry |
| ProcRegistry, ProcEntry, ContextEntry | process list, context list (SafeLists with deferred removal), queue | read `/proc`, add, rename and remove entries, commit, collect and send | ProcEvent, StateManager, lanes, collectors |
| ProcEvent | netlink socket, counters, queue | fork, exec and exit events, overrun, loss of the source | ProcRegistry, StateManager, Application |
| ProcAcct | netlink socket | request and receive task accounting | ProcEntry |
| SysProc* | last values, pending flag, queue | update on a lane, UpdateStats, CollectAndSend | collectors, StartupData |
| StartupData | cached samples, expiry timer | add, drop, send | SysProc*, collectors |
| Application | three lane timers, data sources, counter of TCP sessions | start up, lanes, watchdog | all |
| Options | configuration | read with validation and defaults | all |

What is hard, and what correctness means, by component:

- **Sessions.** A session may be ended by its client, by a bad message or by the
  inactivity timer, in overlapping ways, while requests that refer to it are
  queued in StateManager and in the modules. Correct: it is counted once and
  given back once, listed while it lives if it has to be monitored, unlisted and
  released after it ended, ended if its client is silent.
- **Wake lock.** A file of the kernel that outlives the process, driven by a
  request that reads the list later than the change. Correct: held exactly
  while a TCP session is listed, up to a queued update.
- **Process list.** It follows a kernel that changes while `/proc` is read,
  through events that are late, may be dropped, and name pids that are used
  again; removal is deferred to a commit. Correct: no running process is
  forgotten, no entry describes an earlier process, dead entries leave, the
  blacklist is honoured.
- **Contexts.** Removed by a request of their own. Correct: the context of each
  listed process is listed.
- **Sessions in time.** The loop waits for descriptors while messages are unread
  and timers are due. Correct: who sends as often as the documentation asks is
  kept, who is silent is noticed, systemd gets its heartbeat.
- **ProcAcct.** A pending flag, and a socket read in two places that take each
  other's answers. Correct: the flag is cleared, errors about processes that ended
  cost neither the source nor a running process, the socket is not overrun.
- **Data sources and StartupData.** A flag set by a lane's callback and cleared by
  the queue's, over a file that may be unreadable for a while; a cache that expires
  under updates on their way. Correct: at most one update queued and never none for
  good, the cache dropped once, each source on the lane that its clients poll at.
- **CPUStat.** Percentages from differences of counters that may go back. Correct:
  what is reported is the load of the last interval, and what cannot be is
  discarded.

## Modules

| Module | What it is |
|---|---|
| `Collectors` | servers, collectors, StateManager, the session counter and the wake lock |
| `MCCollectors` | its instances: two TCP clients and one UDS client |
| `CollectorsProofs` | its inductive invariant and the theorems |
| `Sessions` | what a session promises its client: the abstract specification `Collectors` implements |
| `SessionsProofs` | that it does, step by step, from the invariant of `CollectorsProofs` |
| `KeepAlive` | sessions in discrete time: the rounds of the loop, the wait for a descriptor, the inactivity timer, the watchdog |
| `MCKeepAlive` | its instances: two clients, one server, what a start may find as options |
| `KeepAliveProofs` | the longest wait of a source for its dispatch, and the bounds on ages that follow |
| `ProcRegistry` | the kernel's processes, ProcEvent, the lane timers, the two lists and their queue |
| `MCProcRegistry` | its instances: two pids, two or three names, one or two contexts, and the settings of the runs |
| `ProcRegistryProofs` | its invariants about the lists, the queued events and the scans, and the theorems |
| `ProcAcct` | task accounting: requests and answers on a netlink socket, the pending flags, the list of pids |
| `MCProcAcct` | its instances: two pids and three settings |
| `ProcAcctProofs` | its invariants about the socket, the flags and the room for answers, and the theorems |
| `DataSources` | the seven SysProc sources, the lane timers and StartupData |
| `MCDataSources` | its instances: two sources, a TCP and a UDS client |
| `DataSourcesProofs` | its inductive invariant and the theorems |
| `CPUStat` | the load of a processor, from the counters of `/proc/stat` |
| `CPUStatProofs` | its arithmetic lemmas, inductive invariant and theorems |

### Collectors

| In the model | In the code |
|---|---|
| `servers`, `loop` | event sources of the servers and of the collectors that are in the loop |
| `backlog`, `inbox`, `gone` | the sockets: connections not accepted, messages not read, connections closed or reset by the client |
| `pending` | references to a collector held by CollectAndSend requests in the module queues |
| `active` | `StateManager::m_activeCollectorList` |
| `idle` | listed collectors whose last update is older than `CollectorInactiveTimeout` |
| `smQueue` | `StateManager::m_queue` |
| `procAcctCollectorCounter`, `wakeLock` | the variables of Application and StateManager |
| `kernelLock` | the kernel holds the wake lock |

`Accept`, `RejectDescriptor` and `AcceptFails` are the outcomes of the accept callback;
`ReadCallback` is one dispatch of the read callback, which handles messages until there
are none (`ReadAll`) or one ends the session (`ReadAndLeave`), which an invalid one does
and a CreateSession whose answer cannot be written (`EndingMessage`); `LeaveLoop`,
`Finalize` and `FinalizeRequests` are the removal of the source, by a callback that
returns false or by `remEventSource`, and its finalize callback; `CollectorsTimer` the
inactivity timer; `doMonitorCollector`, `doRemoveCollector` and `doUpdateWakeLock` the
requests; `Restart` the end of the process and the constructor of the next one. The
order in which the timer visits the list is any order. Production mode, where the TCP
server is not started, is the case `TCP = {}` of the proofs.

A `Get` stands for the twelve data requests; the modules' queues are a count per
collector, because their order matters to no property here. `AsyncQueue::push`
is taken to succeed: the doGet functions return its result as the status of the
message. A handler that makes its own queue leave the loop, which `DataSources` leaves
open, is not in this module: its queues answer what they hold. Time is abstract: a
listed collector may become idle at any moment until it is read again. UpdateProcessList
is left to ProcRegistry; it changes no variable of this module.

### Sessions

The abstract service knows of a session only its stage (closed, connecting, open,
ended), the requests taken from it and not answered, and whether the kernel is asked
for task accounting. `Collectors` implements it under the mapping `SessionOf`: a
session is open while its source is in the loop, ended while anything still refers
to the collector, and connecting in the backlog; `owed` is `pending`, and
`accounting` says that the counter is not zero. `ImplementsSessions` is checked as a
property of the run `sessions`: requests are taken in while the session is open and
at no other time, each is answered at most once, an identity is free again only when
nothing is owed, and accounting goes on exactly as long as a TCP session is open. It
takes `RemFinalizes` to be TRUE (below). The abstract specification states no
fairness; that ended sessions are released is checked in `sessions_end`.

### KeepAlive

| In the model | In the code |
|---|---|
| `timeout`, `usec` | the inactivity timeout as `Options::getFor` returns it, and the timeout of the systemd watchdog |
| `open`, `unread`, `monitored`, `requests` | sources in the loop, sockets with a message, `m_activeCollectorList`, `StateManager::m_queue` |
| `age` | the time since `m_lastUpdateTime` of a collector |
| `quiet` | the time since the client sent something |
| `late` | history: how long a client was inactive before it was listed |
| `phase`, `expired`, `beat` | the periodic timers and the last heartbeat |
| `ready` | what the loop found ready in this round and has not dispatched |
| `applicant`, `waited` | the connection whose descriptor the accept callback waits for, and how long |

`Poll` finds what is ready, the servers if somebody connects; `AcceptCallback` and
`AcceptReturns` are the two ends of the blocking read; each of the other dispatches
(`ReadCallback`, `CollectorsTimer`, `Watchdog`, `requestHandler`) is one step and
takes no time. `Tick` is one unit: it passes in the wait for a descriptor and when
nothing is ready. An obedient client has sent a message within each half of the
timeout: that is what the comment in `config/taskmonitor.conf.in` asks of it
(`KeepAliveInterval`). What the program tells it as `keep_alive_interval` is the whole
timeout (`TCPCollector.cpp:184-186`), and a client that takes that for its interval has
no slack at all. The others send what they like. A connection that sends no usable
descriptor is a `Stranger`.

A session ends by itself when a read finds the end of the connection, an error or a
message that is refused (`ReadAndLeave`), before or after other messages, or by the
request the timer queued. Its source leaves the loop at once; the collector stays in
`monitored`, and the timer may find it there, until the RemoveCollector of its finalize
callback is handled. `WakeLockRequests` are in the queue for the place they take in it,
since it handles one request in each round; the lock itself is in `Collectors`. The age
of a collector grows while anything may yet look at it (`Watched`).

The run counts in units of three seconds, the longest wait for a descriptor and the
least value of the option; the default of 10 s is rounded down, and the 1 s that a start
without a file falls back to is rounded up. What happens within one unit is in any order. The run of the
violation counts in seconds.

`late` is there because StateManager's queue handles one request in each round: with
many clients that connect at once, and a server that waits in each round, a client may
be inactive for any time before it is listed. An earlier form of `SilentNoticed`, a
bound of two timeouts and one wait, held on the instance of the run and did not with
sixteen clients, two servers and a timeout of four; the attempt to prove it showed
that. It now counts from what the listing came late.

### ProcRegistry

| In the model | In the code |
|---|---|
| `proc` | the kernel's table, each pid free, running, a zombie, or reaped (free to be used again) |
| `options` | the options and what the build and the system decide, fixed by a start (`Setting`) |
| `events`, `buffer` | the netlink socket, and whether the next recv returns ENOBUFS |
| `missed` | history: pids whose fork was dropped without notice |
| `unread` | history: how many reads of a process have failed while it runs |
| `resync` | UpdateProcessList requests queued in StateManager |
| `pc`, `todo` | the callback that is iterating over `/proc` or over the list, and what it has left |
| `procList`, `removing` | `m_procList` and the entries that leave it at its next commit |
| `contextList`, `ctxRemoving` | the same of `m_contextList` |
| `queue` | `ProcRegistry::m_queue` |

`Fork`, `Exec`, `Exit` and `Reap` are the kernel and may come between any two
steps of a scan. An event and the change it reports are one step; its dispatch is
later. `ProcEventCallback` is one recv with what it calls; `ProcEventLost` is the
recv error that stops the application; `LaneTimer` starts what the lane does,
`Scan` and `updateProcInfo` take one pid of it at a time. When an event finds no room
the kernel reports ENOBUFS once and drops what comes until the socket was read empty
(`buffer` is then congested): the scan that the error asks for may come before that, so
a fork in between is in no event and no scan.

A read of `/proc/<pid>` fails when the process is gone, and may fail while it runs, for
want of a descriptor or a permission, in a parser, or by an exception in ProcEntry
(`reading`, with `Noted` for the history). Then no entry is made of the process
(`initProcEntry`), its entry is not renamed (`updProcEntry`), or its entry is removed
(`updateProcInfo`, which does not ask why the read failed). A process that runs is read
in the end: at most `MaxUnread` of its reads fail. The requests for ProcInfo and
ProcAcct read the lists only and are left out. The mode is production mode (profiling
mode adds ProcAcct); the change of an LXC context after the entry was made is not
modelled. At start no process is a zombie.

### ProcAcct

| In the model | In the code |
|---|---|
| `options` | whether `/proc` is scanned or events are followed, whether pids are used again, the size of the socket |
| `accounting` | `procAcctCollectorCounter` is not zero, as in `Sessions` |
| `procList`, `removing`, `pending` | the pids of `m_procList`, those that leave it at its commit, those with `m_updateProcAcctPending` |
| `todo` | what the iteration of the Slow lane has left |
| `socket`, `buffer` | `m_nlSock`: datagrams not read, and whether the kernel has dropped one |
| `inLoop` | the source of ProcAcct is in the loop |
| `events` | the socket of ProcEvent |
| `dropped` | history: an answer found no room |

A request (`requestTaskAcct`) makes the kernel put its answers into the socket,
statistics and an acknowledgement or the error ESRCH, and then reads *one* datagram,
whatever is the oldest: `nl_send_sync` waits for an acknowledgement, and the check of
sequence numbers is disabled. The statistics of another process clear that process's
flag; an error about another process is taken for this one's, whose entry is
removed. The rest is read by `AcctCallback`, one datagram per dispatch; an error other
than ESRCH takes the source out of the loop (`Tolerated`). The kernel drops answers
as it drops events. Of the registry only the pids are kept, and exit and reap are one
step. A process may end between any two steps of the iteration.

### DataSources

| In the model | In the code |
|---|---|
| `Class` | what differs between the seven `SysProc*.cpp`: the states of the file for which an update throws (it cannot be opened, a field is no number), whether one returns false when a line has too few fields, whether it has a sample for StartupData |
| `file` | what the next read of the source's file finds |
| `alive` | sources whose queue is in the loop |
| `updatePending`, `queue` | `IDataSource::m_updatePending` and the `m_queue` of each source |
| `startupQueue`, `expired`, `samples` | StartupData: its queue, `m_expired`, the lengths of its lists |
| `running` | no exception has left a callback |

`LaneTimer` is one timeout of a lane, which calls `update()` of each of its sources;
`requestHandler` takes one request of a source, an update (`UpdateSucceeds`,
`UpdateFails`, `UpdateThrows`) or a `CollectAndSend`; `ExpireTimer` and
`StartupRequestHandler` are those of StartupData; once the cache was dropped the handler
takes a request and sends nothing. `TCPSessionLane` and `UDSSessionLane` are the tables
of the two `doCreateSession`, `LaneOf` that of Application; `GetDataTCP` and
`GetDataUDS` are the requests of the two kinds of clients, `GetStartupData` one only TCP
clients can make. A client with an answer to come does not ask the same source again,
which bounds the queues; a lane waits while a list of samples is at `MaxSamples`. What
happens after an exception ended the application is not followed. Values, and the lists
of disks, cores and interfaces that hold them, are left out; so is a push that fails,
after which the code would try again at the next timeout.

### CPUStat

`m_last` and `m_data` are the variables of the class; the seven counters that are
never reported on their own are summed in `rest`, since they only enter in the
total. `getDiff`, `getTotalTime` and `getPercent` wrap at `ULong`, the percentages are
cut at `UInt`. `Tick` is time passing, `Resume` a step of the kernel that takes
counters back; both may come any number of times between updates. `prev`, `interval`
and `steady` are history variables the properties need: what the last update read,
the growth between the last two updates, and how many there were since the last
resume. A total of zero divides by zero: `crashed`, after which nothing is claimed.

### What is external

bswinfra is a submodule whose directory is empty; libtaskmonitor, protobuf and
the kernel are not in the repository either. They are modelled from how
`source/` uses them:

- a callback is atomic with respect to other callbacks, ready sources are
  dispatched in any order, an AsyncQueue is FIFO and handles one request per
  dispatch, and a callback that returns false has its source removed and its
  finalize callback run;
- `RemFinalizes`: whether `remEventSource` runs the finalize callback too. The
  runs take TRUE. `CounterCountsSessions` and `ImplementsSessions` need it: if it
  did not, a session ended by the timer would never be given back. Everything
  else is proved for both;
- `SafeList` applies removals at its commit, or at once when told `true`;
  `CommitOnAppend` says whether an append told `true` applies pending removals
  as well. `registry_updates` takes both;
- whether a request handler that returns false takes its AsyncQueue out of the loop
  is open: `UpdateFails` does either;
- libnl and netlink as said under ProcAcct and ProcRegistry: one datagram per
  non-multipart read, ENOBUFS before what the socket still holds, nothing accepted
  until it is empty.

## Runs

| Run | Bounds | Shows |
|---|---|---|
| `sessions` | 2 TCP and 1 UDS client that is not monitored, 1 unread message or pending request per client, the timers wait for a queue shorter than 3 | `TypeOK`, `CounterCountsSessions`, `DeadCollectorsLeave`, `SessionsMonitored`, `WakeLockCurrent`, `ImplementsSessions` |
| `sessions_end` | 1 TCP and 1 monitored UDS client, queue bound 3, fairness | `EndedSessionReleased`, `SilentSessionEnds`, `WakeLockReleased` |
| `registry_events` | 2 pids used again without end, 3 names of which 1 blacklisted, 2 contexts, a socket of 2 events, queue bound 2, 1 failed read of a running process | `TypeOK`, `RunningListed`, `EntryCurrent`, `RemovalsCommitted` |
| `registry_updates` | two settings: pids used once and a socket of 1 event that overflows; pids used again, no events, removals not applied by append. 2 names, 1 context, 1 failed read of a running process, fairness | `RunningListed`, `DeadProcessLeaves`, `RunningGetsListed` |
| `data_sources` | SysProcPressure (pace, cached, throws on a bad file) and SysProcBuddyInfo (slow, fails), a TCP and a UDS client, 2 samples, fairness | `TypeOK`, `UpdateQueuedOnce`, `DroppedCacheStaysEmpty`, `UpdatedOnAdvertisedLane`, `SourceKeepsUpdating`, `RequestAnswered` |
| `cpu_load` | counters that sum to at most 3, `ULong` 2^20, `UInt` 2^10 | `TypeOK`, `ReportedExact`, `NothingDiscarded` |
| `accounting` | 2 pids; scanning with pids used once and room for 2 or 5 datagrams, events with room for 5, events with pids used again and room for 2; 2 unread events, fairness | `TypeOK`, `PendingAnswered`, `SourceKept`, `NothingDropped`, `PendingCleared`, `RunningRelisted` |
| `keep_alive` | 1 obedient UDS and 1 other TCP client, 1 server that waits 3 s, in units of 3 s; no file, an invalid value, one below the minimum, 3 s, 6 s with a watchdog of 12 s, 12 s | `TypeOK`, `ObedientKeptWithSlack`, `SilentNoticed`, `HeartbeatInTime` |
| `resume_discarded` | as `cpu_load` | violation of `ResumeDiscarded` |
| `contexts_listed` | as `registry_events`, 2 names, queue bound 1, all reads of running processes succeed | violation of `ContextsListed` |
| `blacklist_scan` | the second setting of `registry_updates`, pids used once, all reads of running processes succeed | violation of `BlacklistHonoured` |
| `obedient_client` | as `keep_alive` with 2 TCP clients, in seconds, 3 s | violation of `ObedientKept` |

Two TCP clients are needed for the wake lock (one leaves, one stays) and for the
counter; they are interchangeable, which the safety run uses as a symmetry. The queue
bound limits only the timer, which would otherwise queue the same removal again at every
tick: with room for three requests it queues a removal behind a MonitorCollector, behind
a finalize's removal, and a second time, and handlers may push beyond it. The
interesting interleavings of the registry need two pids (two entries in one scan, a
context emptied by one process and entered by another), one pid that is used again, and
two events about a pid in the socket at once. One failed read of a running process is
enough to take it off the list or to keep it out; what follows does not depend on how
many fail. Two sources of different lanes and classes show all the outcomes of an
update; two collectors queue requests on both sides of it. Counters up to three give
intervals whose parts are rounded (thirds, halves), counters that go back one by one or
in total, and intervals without growth; the bounds on the widths only have to be large
against them, and the proofs take any.

For accounting, two processes are enough for one to read the other's answer; room for
two datagrams is less than the answers to two requests, so the socket is overrun, and
room for five is more than what two processes can ever have in it, which
`NothingDropped` states for any number. The starts of `keep_alive` are those the options
can make of a file: a fallback, a refused value, the minimum, and 12 s, the least
timeout whose half covers a message that waits for the rest of a round and for the
server of the next (`LongestWait`) however it is rounded; at 12 s the oldest age of an
obedient client is exactly the timeout. The default of 10 s is not covered by
`ObedientKeptWithSlack`; rounded to three units, with an interval of one, it is. One
server is enough to delay everything; more of them make `LongestWait` grow.

The four violations are disagreements between code and documentation.
`contexts_listed`: a CollectAndSend of ContextInfo finds a context empty and asks
for its removal; a process starts in it and finds it listed; the CommitContextList
request then removes it, and it comes back only when yet another process starts in
it (`ProcRegistry.cpp:302-312,488-494`; the changelog records the fix of the same
symptom). `blacklist_scan`: without events nothing looks at the name of a listed
pid again, so a program on the blacklist is reported, under the name its process
had before exec (`ProcRegistry.cpp:141-147`). `resume_discarded`: the comment in
`updateStats` says that what was computed across a resume and is not valid is
dropped, but the only test is that the sum of the percentages, as 32 bits, is at most
100. With iowait one tick back and one tick of growth in all, system time is 100 and
iowait 2^32 - 100, the sum is 0, and both are reported (`SysProcStat.cpp:33-40`).
`obedient_client`: with the documented minimum of 3 s a client that sends every second
is disconnected when the accept callback waits 3 s for the descriptor of somebody else
and the inactivity timer is dispatched before the client's messages are read
(`TCPServer.cpp:53-59`, `StateManager.cpp:57-60`).

### Fairness

A callback that is ready is dispatched in the end: the loop is level-triggered and goes
round its sources. In `Collectors` each dispatch is one step that stays enabled until it
is taken, so weak fairness of each collector's read callback, of the modules' queues, of
the timer and of StateManager's queue is enough. That the modules' queues are dispatched
takes it that they stay in the loop, which `DataSources` leaves open:
`EndedSessionReleased` says nothing of a session whose request is in the queue of a
source that left. In `ProcRegistry` a callback takes several steps, during which no
other is enabled: the steps have weak fairness (a callback that was started goes on) and
the sources strong fairness. In `DataSources` a dispatch is one step again: weak
fairness of each lane timer, of each queue and of the timer that expires the cache.
`ProcAcct` is as `ProcRegistry`: weak fairness of the iteration, strong fairness of the
callbacks that wait for its end. `KeepAlive` has invariants only and assumes none.
Nothing is assumed of clients, of the kernel, of time or of failures. `ProcEventLost` in
particular never has to happen; when it does, the application has stopped and the
liveness properties ask for nothing more, and the runs that may end there do not check
for deadlock.

## Proofs

### Sessions

`CollectorsProofs` proves, for any finite set of clients, any subset of TCP ones,
any values of the options and bounds, and `UShortMax` at least the number of
clients (`CollectorsAssumption`; a connection needs a descriptor, of which there
are fewer than 65536):

| Theorem | Establishes |
|---|---|
| `TypeCorrect` | `Spec => []TypeOK` |
| `DeadCollectorsLeaveCorrect` | `Spec => []DeadCollectorsLeave` |
| `SessionsMonitoredCorrect` | `Spec => []SessionsMonitored` |
| `CounterCountsSessionsCorrect` | `Spec => []CounterCountsSessions` |
| `WakeLockCurrentCorrect` | `Spec => []WakeLockCurrent` |
| `InvariantCorrect` | `Spec => []IInv`, the conjunction of them with what makes them inductive |

`DeadCollectorsLeave` and `SessionsMonitored` are inductive only together with
three facts the code relies on without stating them (`QueueInv`): a client that
waits to be accepted is mentioned by no request (`BacklogFresh`, because an
identity connects again only when nothing refers to the old object); the request
to monitor a session is queued once and before anything that depends on its being
listed (`MonitorOnce`); a removal without the event source is queued only after
the source is gone (`LiveNotFinalized`). The work is in the request handlers,
which take the head and push up to two requests: `HandlerShift` says once what
such a step does to the positions in the queue. The counter needs `QueueInv` to
know that a session leaves the loop once (`SessionCount` does the arithmetic), and
the wake lock needs that the flag and the kernel agree (`LockAgrees`) and that
every change of the list pushes an update (`ListStepsUpdate`).

### Data sources

`DataSourcesProofs` proves, for any of the seven sources, any set of collectors
(with any number of requests queued up to one per collector) and either value of
every option:

| Theorem | Establishes |
|---|---|
| `TypeCorrect` | `Spec => []TypeOK` |
| `UpdateQueuedOnceCorrect` | `Spec => []UpdateQueuedOnce` |
| `DroppedCacheStaysEmptyCorrect` | `Spec => []DroppedCacheStaysEmpty` |
| `UpdatedOnAdvertisedLaneCorrect` | `Spec => UpdatedOnAdvertisedLane`: what pushes an update is the timer of the lane in both tables |
| `InvariantCorrect` | `Spec => []IInv`, the conjunction, which is inductive as it stands |

The work is in what an append and a `Tail` do to the places of the UpdateStats
requests in a queue (`PushUpdate`, `PushData`, `TakeUpdate`, `TakeData`): when the
handler takes one, its place was the only one, so the flag may be cleared.

### The service of a session

`SessionsProofs` proves the refinement for any set of clients and any options, under
the assumption about bswinfra that the run makes:

| Theorem | Establishes |
|---|---|
| `SessionsImplemented` | `RemFinalizes => (Spec => ImplementsSessions)` |

Each action of `Collectors` is an action of `Sessions` for one client, or leaves the
abstract state as it is (`ServerStep`, `EndStep`, `AnswerStep`, `HandlerStep` and
their like, joined in `NextService`). What makes it work is that the stage of a
session can be read off the sockets, the loop and the queue (`Stages`), which needs
`QueueInv` of `CollectorsProofs` (a client in the backlog is referred to by nothing),
`CounterCountsSessions` (the counter is not zero exactly while a TCP source is in the
loop) and that a client in the backlog is owed no answer (`BacklogOwed`). `Mentions`
says of a queue whom its requests refer to, so that popping and pushing are done once
for all handlers.

### Process list

`ProcRegistryProofs` proves, for any pids, names, contexts and blacklist, any set of
settings and any sizes of the socket and the queue (`ProcRegistryAssumption`: there is
a pid):

| Theorem | Establishes |
|---|---|
| `TypeCorrect` | `Spec => []TypeOK`: one entry for a pid |
| `RemovalsAreCommitted` | `Spec => []RemovalsCommitted` |
| `EntriesAreCurrent` | `EntryCurrent` always, where events are followed and none is lost |
| `RunningAreListed` | `RunningListed` always, in all settings but the two below |

Types and removals need that the reading of `/proc` at the start, which does not look
for the pid in the list, only visits pids that are not listed (`NotYetListed`, in
`ListInv`). The other two rest on `EventInv`, about the order of the events of one pid
in the socket: the EXIT of a process that ended is queued behind the FORK that would
list it, and while a process runs the EXIT of an earlier one is followed by its FORK
(`Follows`, `ExitsReported`, `ForksReported`). From it, an entry that is not the running
process's own has an EXIT or an EXEC queued (`EntriesCorrect`), and a process that is to
be listed has a FORK queued, is yet to be visited by a scan, or a scan is asked for,
unless a read of it failed (`AddsPending`). `EventInv` is proved for the kernel's steps
and for the dispatch once, with what an append and a `Tail` do to a `Follows`.

The hypotheses are settings in which the statement is false of the code, and TLC finds
it violated there. Where events are lost (`EventsLost`) an entry may miss its EXIT and
keep the pid for a later process, so `EntryCurrent` is claimed without loss; for the
same reason that pid's new process is hidden from the scan, so `RunningListed` is
claimed without loss *and* reuse together. Where a blacklisted program may execute
another (`ExecFromBlacklisted`), nothing lists it.

### Task accounting

`ProcAcctProofs` proves, for any finite set of pids, any set of settings and any size
of the socket (`ProcAcctAssumption`):

| Theorem | Establishes |
|---|---|
| `TypeCorrect` | `Spec => []TypeOK` |
| `SourceIsKept` | `Spec => []SourceKept` |
| `PendingIsAnswered` | `PendingAnswered` always, but where `/proc` is scanned and pids are used again |
| `NothingIsDropped` | `Spec => []NothingDropped` |

`SocketInv` ties the state of the buffer to what was dropped. `PendingAnswered` follows
the statistics of each pid through the socket, whichever of its two readers takes what
is before them (`UnderwayRead`), and uses that an entry of a process that ended has its
EXIT queued or will be found by a scan (`EntriesKnown`); where the pid is used again
before the scan, the entry survives with the flag of the process before.
`NothingDropped` is a budget: the datagrams in the socket other than acknowledgements,
the pids that may still be asked about, and once more the running ones whose removal
clears their flag, are together never more than the pids (`Budget`). Every
acknowledgement has its statistics before it, unless that is the oldest datagram
(`Paired`), so the socket holds at most twice as many and one.

### Sessions in time

`KeepAliveProofs` proves, for any clients, any finite set of servers, any options a
start may find and any time a server may wait (`KeepAliveAssumption`: the timeouts of
Defaults are not zero, sources have different names, and systemd wants heartbeats in
more than one unit of time, since half of one is zero):

| Theorem | Establishes |
|---|---|
| `TypeCorrect` | `Spec => []TypeOK` |
| `ObedientAreKept` | `Spec => []ObedientKeptWithSlack` |
| `SilentAreNoticed` | `Spec => []SilentNoticed` |
| `HeartbeatComesInTime` | `Spec => []HeartbeatInTime` |

They rest on one quantity, `Delay(s)`: what is left of the wait that goes on, and a
whole wait for each server that the round has not dispatched yet and, if `s` is not in
the round, for each server of the next. It never exceeds `LongestWait`; no step that takes
no time makes it grow while `s` has something to do (`DelayKept`); and when time passes,
it shrinks by as much (`DelayTicks`). So age and delay together do not grow while a
message or a timer waits for its dispatch, and each bound is one clause of an
invariant: `BeatInv` (the heartbeat is no older than its timer, or waits),
`AttendedInv` (an obedient client's last update is no older than its silence, or its
message waits) and `NoticedInv` (a listed client is not inactive for longer than the
timer runs, or the timer waits, or the removal is queued). `RoundInv` has the types,
and what they need: a client to be listed is not listed yet and is asked for once
(`MonitoredOnce`, for `late` is set then), the applicant is no client and nothing refers
to its last session, a timer in the round has expired, a queue in it is not empty. A
session that ended by itself may still be listed, and the timer may ask for its removal
again: `TypeOK` claims of the sources in the loop only that nothing else is read or
dispatched.

### Load of a processor

`CPUStatProofs` proves, for any `ULong`, `UInt` and `MaxTime` with
`100 * MaxTime < ULong` and `300 < UInt` (`CPUStatAssumption`; counters of 64 bits stay
below the bound for longer than machines live):

| Theorem | Establishes |
|---|---|
| `TypeCorrect` | `Spec => []TypeOK`: the overall load is the sum of the parts and at most 100 |
| `NothingDiscardedCorrect` | `Spec => []NothingDiscarded` |
| `ReportedExactCorrect` | `Spec => []ReportedExact` |
| `InvariantCorrect` | `Spec => []IInv` |

The arithmetic is in `FloorSum` (three parts rounded down do not exceed a hundred),
`DiffGrown` and `PercentGrown` (no wrap-around and no cut where counters have grown).
The invariant adds what the update relies on: the counters have grown since the last
update unless a resume came after it (`PrevGrown`), and the first update after a
resume leaves either what it read or nothing as the base of the next (`BaseKnown`).

### Only model-checked

The liveness properties of `sessions_end`, `registry_updates`, `data_sources` and
`accounting`: the prover has no rule for fairness and ENABLED. Every invariant and every
action property that a passing run checks is proved, `RunningListed`, `EntryCurrent`,
`PendingAnswered` and `ImplementsSessions` under the hypotheses said above, which all
the instances of the runs meet.

## Not modelled

Descriptors as numbers and their double close; the cpu percentage of a process, which
depends on one reading and on which nothing depends; the options other than the
inactivity timeout, whose intervals follow the same pattern and enter in no property;
the session description that a client may have written twice. The values of the data
sources other than CPUStat, and their lists, whose entries are never removed. The
wording and encoding of messages, parsing of `/proc`, logging and `nice` keep no state
the properties are about.

Known limits of the registry model: a process whose blacklisted name changes to another
one is never listed in event mode (`ExecFromBlacklisted = FALSE` excludes it from the
runs), and after lost events a pid that was used again may keep the entry of its
predecessor (`EntryCurrent` is checked without loss, and loss with each pid used once).
A process whose fork was dropped by a congested socket is listed only after another
loss: `RunningListed` and `RunningGetsListed` leave it out (`missed`), and TLC finds
both violated if they do not. Where events maintain the list, a process that could not
be read, by the scan, by the callback of its fork or by the Pace lane, is listed again
only after a loss of events (`ProcRegistry.cpp:286-292`, `ProcEntry.cpp:87-97`):
`RunningListed` and `RunningGetsListed` leave it out (`unread`), and TLC finds both
violated if they do not. `EntryCurrent` leaves out the name of its entry, which an exec
whose name was not read leaves as it was. A process that can never be read is not listed
in either mode: the bound on the failures excludes it.

In `ProcAcct`, an entry whose answer was dropped keeps its flag (`dropped`), and where
events maintain the list nothing lists a running process again that accounting took off
it (`RunningRelisted` is stated for scanning, where the next scan is taken to read it).
A server whose source left the loop after a failed accept does not come back, and no
property says that it should. Requests for start-up data that come after it was dropped
get no answer, and a request for data waits for ever in the queue of a source that left
the loop: `RequestAnswered` claims neither. With `WatchdogSec=10` as shipped, half the
interval does not cover the wait for a descriptor, and `HeartbeatInTime` claims nothing.

## Plan

In the order of what matters most; every module is written with its parameters as
CONSTANTS and its invariants as conjunctions of named parts, and without RECURSIVE
operators where it is to be proved about.

1. `Collectors`, `ProcRegistry`, `DataSources` and `CPUStat`: done, with their proofs.
2. `Sessions` with the refinement, `ProcAcct` and `KeepAlive`: done, with their proofs.
3. Lemmas about what the liveness properties need, as far as they are action
   properties: a dispatch that is enabled stays so, a handler makes its request go away.
4. `Descriptors`: numbers, owners and the second close.
