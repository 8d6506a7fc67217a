---------------------------- MODULE DataSources ----------------------------
(***************************************************************************)
(* The seven SysProc data sources of taskmonitor, the lane timers that     *)
(* drive them, and the cache of start-up data that three of them feed.     *)
(*                                                                         *)
(* A lane timer does not read /proc: it pushes an UpdateStats request into *)
(* the queue of each source of its lane, unless one is pending there, and  *)
(* the queue is dispatched later, in line with the CollectAndSend requests *)
(* of the collectors.  A handler may succeed, return false or let an       *)
(* exception end the application, and differs in this from class to class. *)
(***************************************************************************)
EXTENDS Integers, Sequences, FiniteSets

CONSTANTS
  Present,            \* the sources Application creates: their file exists
  Client,             \* the collectors that send requests
  TCP,                \* those served by a TCPCollector, the rest by a UDSCollector
  StartupEnabled,     \* profiling mode with EnableStartupData
  MaxSamples          \* bound: the lanes wait while a cache list is longer

VARIABLES
  running,        \* no exception has left a callback
  file,           \* what a read of the source's file in /proc would find
  alive,          \* sources whose queue is in the loop
  updatePending,  \* IDataSource::m_updatePending
  queue,          \* per source, its m_queue
  startupQueue,   \* StartupData::m_queue, the collectors that asked
  expired,        \* StartupData::m_expired
  samples         \* per source, the length of its list in StartupData

startup == <<startupQueue, expired, samples>>
vars == <<running, file, alive, updatePending, queue, startup>>

-----------------------------------------------------------------------------
(* What tells the classes apart: what a file must not be for an update to   *)
(* throw (not to be opened, or with a field that is no number), the false   *)
(* when a line has too few fields, the sample for the cache of start-up     *)
(* data.                                                                    *)

SysProcStat      == [throws |-> {"gone"},        fails |-> TRUE,  cached |-> TRUE]
SysProcMemInfo   == [throws |-> {"gone", "bad"}, fails |-> TRUE,  cached |-> TRUE]
SysProcPressure  == [throws |-> {"bad"},         fails |-> FALSE, cached |-> TRUE]
SysProcDiskStats == [throws |-> {"gone", "bad"}, fails |-> TRUE,  cached |-> FALSE]
SysProcBuddyInfo == [throws |-> {"gone"},        fails |-> TRUE,  cached |-> FALSE]
SysProcWireless  == [throws |-> {"gone", "bad"}, fails |-> TRUE,  cached |-> FALSE]
SysProcVMStat    == [throws |-> {"gone", "bad"}, fails |-> TRUE,  cached |-> FALSE]

Class ==
  [SysProcStat |-> SysProcStat, SysProcMemInfo |-> SysProcMemInfo,
   SysProcPressure |-> SysProcPressure, SysProcDiskStats |-> SysProcDiskStats,
   SysProcBuddyInfo |-> SysProcBuddyInfo, SysProcWireless |-> SysProcWireless,
   SysProcVMStat |-> SysProcVMStat]

ASSUME DataSourcesAssumption ==
  /\ Present \subseteq DOMAIN Class
  /\ TCP \subseteq Client
  /\ StartupEnabled \in BOOLEAN
  /\ MaxSamples \in Nat

Lane == {"Fast", "Pace", "Slow"}

\* Variant: the free memory blocks moved to another lane.
LaneOfMoved(s) ==
  CASE s \in {"SysProcStat", "SysProcMemInfo"} -> "Fast"
    [] s \in {"SysProcPressure", "SysProcDiskStats", "SysProcBuddyInfo"} -> "Pace"
    [] OTHER -> "Slow"

\* setUpdateLane
LaneOf(s) ==
  CASE s \in {"SysProcStat", "SysProcMemInfo"} -> "Fast"
    [] s \in {"SysProcPressure", "SysProcDiskStats"} -> "Pace"
    [] OTHER -> "Slow"

\* The lane at whose interval a session is told to poll a source: TCPCollector
\* and UDSCollector each have a table of their own.
TCPSessionLane(s) ==
  CASE s \in {"SysProcStat", "SysProcMemInfo"} -> "Fast"
    [] s \in {"SysProcPressure", "SysProcDiskStats"} -> "Pace"
    [] s \in {"SysProcBuddyInfo", "SysProcWireless", "SysProcVMStat"} -> "Slow"

UDSSessionLane(s) ==
  CASE s \in {"SysProcStat", "SysProcMemInfo"} -> "Fast"
    [] s \in {"SysProcPressure", "SysProcDiskStats"} -> "Pace"
    [] s \in {"SysProcBuddyInfo", "SysProcWireless", "SysProcVMStat"} -> "Slow"

UpdateStats == [action |-> "UpdateStats"]
CollectAndSend(c) == [action |-> "CollectAndSend", collector |-> c]
Request == {UpdateStats} \cup {CollectAndSend(c) : c \in Client}

Asked(c, s) == \E i \in DOMAIN queue[s] : queue[s][i] = CollectAndSend(c)

AskedStartup(c) == \E i \in DOMAIN startupQueue : startupQueue[i] = c

Init ==
  /\ running = TRUE
  /\ file = [s \in Present |-> "ok"]
  /\ alive = Present
  /\ updatePending = [s \in Present |-> FALSE]
  /\ queue = [s \in Present |-> <<>>]
  /\ startupQueue = <<>> /\ expired = FALSE
  /\ samples = [s \in Present |-> 0]

-----------------------------------------------------------------------------
(* The kernel and the collectors *)

\* A file gets a line the parser does not take ("bad"), cannot be opened
\* ("gone": unloaded, or no descriptor left), or can be read again.
FileChanges(s, state) ==
  /\ running /\ state # file[s]
  /\ file' = [file EXCEPT ![s] = state]
  /\ UNCHANGED <<running, alive, updatePending, queue, startup>>

\* A data request of a client, pushed by its collector.  A client that has an
\* answer to come does not ask the same source again, which bounds the queues.
Ask(c, s) ==
  /\ running /\ ~Asked(c, s)
  /\ queue' = [queue EXCEPT ![s] = Append(@, CollectAndSend(c))]
  /\ UNCHANGED <<running, file, alive, updatePending, startup>>

GetDataTCP(c, s) == c \in TCP /\ Ask(c, s)

GetDataUDS(c, s) == c \in Client \ TCP /\ Ask(c, s)

\* A UDSCollector does not know this request.
GetStartupData(c) ==
  /\ c \in TCP /\ running /\ StartupEnabled /\ ~AskedStartup(c)
  /\ startupQueue' = Append(startupQueue, c)
  /\ UNCHANGED <<running, file, alive, updatePending, queue,
                 expired, samples>>

-----------------------------------------------------------------------------
(* The lane timers *)

\* Variant: nobody looks at the flag.
UpdateAnyway(s) == TRUE

\* update() returns early while an UpdateStats request is pending.
NeedsUpdate(s) == ~updatePending[s]

LaneTimer(lane) ==
  LET due == {s \in Present : LaneOf(s) = lane /\ NeedsUpdate(s)} IN
  /\ running /\ due # {}
  /\ \A s \in due : samples[s] < MaxSamples
  /\ queue' = [s \in Present |-> IF s \in due THEN Append(queue[s], UpdateStats)
                                              ELSE queue[s]]
  /\ updatePending' = [s \in Present |-> s \in due \/ updatePending[s]]
  /\ UNCHANGED <<running, file, alive, startup>>

-----------------------------------------------------------------------------
(* The request handler of a source *)

\* Variant: samples are taken after the cache was dropped, too.
AddSampleExpired(s) ==
  samples' = IF StartupEnabled /\ Class[s].cached
             THEN [samples EXCEPT ![s] = @ + 1] ELSE samples

\* Variant: a class takes over the samples of another one.
AddSampleAnyClass(s) ==
  samples' = IF StartupEnabled /\ ~expired
             THEN [samples EXCEPT ![s] = @ + 1] ELSE samples

\* addCpuData, addMemData, addPsiData, called by an update that succeeds.
AddSample(s) ==
  samples' = IF StartupEnabled /\ Class[s].cached /\ ~expired
             THEN [samples EXCEPT ![s] = @ + 1] ELSE samples

UpdateSucceeds(s) ==
  /\ file[s] = "gone" => "gone" \notin Class[s].throws
  /\ file[s] = "bad" => ~Class[s].fails
  /\ AddSample(s)
  /\ updatePending' = [updatePending EXCEPT ![s] = FALSE]
  /\ UNCHANGED <<running, alive>>

\* Variant: the flag is cleared by a good update only.
UpdateFailsPending(s) ==
  /\ file[s] = "bad" /\ Class[s].fails
  /\ alive' \in {alive, alive \ {s}}
  /\ UNCHANGED <<running, updatePending, samples>>

\* Whether AsyncQueue leaves the loop when its handler returns false is open.
UpdateFails(s) ==
  /\ file[s] = "bad" /\ Class[s].fails
  /\ updatePending' = [updatePending EXCEPT ![s] = FALSE]
  /\ alive' \in {alive, alive \ {s}}
  /\ UNCHANGED <<running, samples>>

UpdateThrows(s) ==
  /\ file[s] \in Class[s].throws
  /\ running' = FALSE
  /\ UNCHANGED <<alive, updatePending, samples>>

doUpdateStats(s) ==
  /\ Head(queue[s]) = UpdateStats
  /\ UpdateSucceeds(s) \/ UpdateFails(s) \/ UpdateThrows(s)

\* The last values are sent whatever became of the last update; the result of
\* sendData is not looked at.
doCollectAndSend(s) ==
  /\ Head(queue[s]) # UpdateStats
  /\ UNCHANGED <<running, alive, updatePending, samples>>

\* Variant: an update that would fail stays at the head of the queue until its
\* file can be read again.
requestHandlerPutOff(s) ==
  /\ running /\ s \in alive /\ queue[s] # <<>>
  /\ ~(Head(queue[s]) = UpdateStats /\ file[s] = "bad" /\ Class[s].fails)
  /\ queue' = [queue EXCEPT ![s] = Tail(@)]
  /\ doUpdateStats(s) \/ doCollectAndSend(s)
  /\ UNCHANGED <<file, startupQueue, expired>>

requestHandler(s) ==
  /\ running /\ s \in alive /\ queue[s] # <<>>
  /\ queue' = [queue EXCEPT ![s] = Tail(@)]
  /\ doUpdateStats(s) \/ doCollectAndSend(s)
  /\ UNCHANGED <<file, startupQueue, expired>>

-----------------------------------------------------------------------------
(* StartupData *)

dropData ==
  /\ samples' = [s \in Present |-> 0]
  /\ expired' = TRUE

\* The one-shot timer of the constructor.
ExpireTimer ==
  /\ running /\ StartupEnabled /\ ~expired
  /\ dropData
  /\ UNCHANGED <<running, file, alive, updatePending, queue, startupQueue>>

\* Every list is sent to the collector that asked; once the cache was dropped
\* the request is taken and nothing is sent.
StartupRequestHandler ==
  /\ running /\ startupQueue # <<>>
  /\ startupQueue' = Tail(startupQueue)
  /\ UNCHANGED <<running, file, alive, updatePending, queue,
                 expired, samples>>

-----------------------------------------------------------------------------

Next ==
  \/ \E s \in Present :
       \/ \E state \in {"ok", "bad", "gone"} : FileChanges(s, state)
       \/ \E c \in Client : GetDataTCP(c, s) \/ GetDataUDS(c, s)
       \/ requestHandler(s)
  \/ \E c \in Client : GetStartupData(c)
  \/ \E lane \in Lane : LaneTimer(lane)
  \/ ExpireTimer
  \/ StartupRequestHandler

\* The timers are periodic or expire, and the loop dispatches what is ready.
Fairness ==
  /\ \A lane \in Lane : WF_vars(LaneTimer(lane))
  /\ \A s \in Present : WF_vars(requestHandler(s))
  /\ WF_vars(ExpireTimer)
  /\ WF_vars(StartupRequestHandler)

Spec == Init /\ [][Next]_vars

FairSpec == Spec /\ Fairness

-----------------------------------------------------------------------------
(* Properties *)

\* Every variable has its type; only a class that feeds StartupData has samples.
TypeOK ==
  /\ running \in BOOLEAN /\ expired \in BOOLEAN
  /\ file \in [Present -> {"ok", "bad", "gone"}]
  /\ alive \subseteq Present
  /\ updatePending \in [Present -> BOOLEAN]
  /\ queue \in [Present -> Seq(Request)]
  /\ startupQueue \in Seq(Client)
  /\ samples \in [Present -> Nat]
  /\ \A s \in Present : samples[s] > 0 => StartupEnabled /\ Class[s].cached

\* The places of the UpdateStats requests in a queue.
Updates(q) == {i \in DOMAIN q : q[i] = UpdateStats}

FlagAgrees(flag, q) ==
  IF flag THEN \E i \in DOMAIN q : Updates(q) = {i} ELSE Updates(q) = {}

\* update() trusts m_updatePending to say what is in the queue.  As long as the
\* application runs the flag is set exactly while one UpdateStats request is
\* queued: the lanes neither pile up requests behind a slow or dead source nor
\* leave one out because an earlier update failed.
UpdateQueuedOnce ==
  running => \A s \in Present : FlagAgrees(updatePending[s], queue[s])

\* The timer that drops the start-up data may come between the push of an
\* update and its handler: a dropped cache stays empty all the same.
DroppedCacheStaysEmpty == expired => \A s \in Present : samples[s] = 0

\* Sessions are told which sources to poll at the interval of which lane in
\* TCPCollector and UDSCollector, and Application gives the sources their
\* lanes: an update is pushed by no other timer than that of the lane which
\* the sessions know.
UpdatedOnAdvertisedLane ==
  [][\A s \in Present : updatePending'[s] /\ ~updatePending[s] =>
       LaneTimer(TCPSessionLane(s)) /\ LaneTimer(UDSSessionLane(s))]_vars

\* A source whose file can be read again and whose queue is still in the loop
\* is updated again and again, whatever failed before and whatever collectors
\* ask for.
SourceKeepsUpdating ==
  \A s \in Present :
    <>[](running /\ file[s] = "ok" /\ s \in alive)
      => []<><<updatePending[s] /\ ~updatePending'[s]>>_vars

\* A request for the data of a source waits in one queue with the updates that
\* read the file.  It is answered, with what was read last, however long the file
\* cannot be read: an update that fails does not hold up what is behind it.  After
\* an update that ended the application or took the queue out of the loop nothing
\* is claimed, nor of the start-up data, whose requests are taken without an
\* answer once it was dropped.
RequestAnswered ==
  \A c \in Client, s \in Present :
    Asked(c, s) ~> (~Asked(c, s) \/ ~running \/ s \notin alive)

=============================================================================
