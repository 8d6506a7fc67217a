---------------------------- MODULE ProcRegistry ----------------------------
(***************************************************************************)
(* The registry of processes and of contexts (containers): ProcRegistry,   *)
(* ProcEntry as far as it enters or leaves the list, ContextEntry, and the *)
(* netlink source ProcEvent that feeds the registry.                       *)
(*                                                                         *)
(* The kernel changes /proc while taskmonitor reads it.  With              *)
(* UpdateOnProcEvent the list follows the events of the kernel, which are  *)
(* dispatched later than what they report and may be lost; without it each *)
(* lane timer scans /proc.  Either way the Pace lane reads every entry and *)
(* asks for the removal of those it cannot read.  Removals from the two    *)
(* SafeLists are deferred to a commit, and the commit may be a request in  *)
(* the queue of the registry.                                              *)
(*                                                                         *)
(* Callbacks run one at a time, but one that reads /proc is not atomic     *)
(* with respect to the kernel: pc and todo are its place in the iteration. *)
(* The registry is that of production mode, where there is no ProcAcct     *)
(* (module ProcAcct has the other).                                        *)
(***************************************************************************)
EXTENDS Integers, Sequences, FiniteSets

CONSTANTS
  Pid, Name, Context,
  Blacklisted,        \* the names that match a line of the blacklist
  Settings,           \* the settings a start of the program may find
  RxBufferSize,       \* bound: events the netlink socket holds
  MaxQueue,           \* bound: new requests wait for a shorter queue
  MaxUnread           \* bound: reads of one running process that fail

\* What is fixed when the program starts.
Setting ==
  [ReadProcAtInit      : BOOLEAN, \* option
   UpdateOnProcEvent   : BOOLEAN, \* option, with ProcEvent built and enabled
   CommitOnAppend      : BOOLEAN, \* SafeList: append(.., true) applies removals
   EventsLost          : BOOLEAN, \* the kernel drops events when the socket is full
   PidReuse            : BOOLEAN, \* the kernel gives a pid again once it is reaped
   ExecFromBlacklisted : BOOLEAN] \* a blacklisted program may exec one that is not

ASSUME ProcRegistryAssumption ==
  /\ Pid # {}
  /\ Blacklisted \subseteq Name
  /\ Settings \subseteq Setting
  /\ RxBufferSize \in Nat /\ MaxQueue \in Nat /\ MaxUnread \in Nat

VARIABLES
  options,        \* the setting of this start
  proc,           \* the kernel's processes
  events,         \* the netlink socket of ProcEvent
  buffer,         \* how the kernel treats this socket
  missed,         \* history: pids whose fork was dropped without notice
  unread,         \* history: per pid, failed reads of its process while it runs
  resync,         \* UpdateProcessList requests in the queue of StateManager
  pc, todo,       \* the callback that reads /proc and the pids it has left
  procList,       \* ProcRegistry::m_procList
  removing,       \* the pids of the entries m_procList removes at its commit
  contextList,    \* ProcRegistry::m_contextList
  ctxRemoving,    \* the contexts m_contextList removes at its commit
  queue           \* ProcRegistry::m_queue

kernel == <<proc, events, buffer, missed>>
lists == <<procList, removing, contextList, ctxRemoving>>
changing == <<kernel, unread, resync, pc, todo, lists, queue>>
vars == <<options, changing>>

-----------------------------------------------------------------------------

Process == [state : {"free", "running", "zombie", "reaped"}, name : Name, ctx : Context]

Entry == [pid : Pid, name : Name, ctx : Context]

Event == [what : {"FORK", "EXEC", "EXIT"}, pid : Pid]

\* After an event found no room the next recv fails with ENOBUFS, and the kernel
\* drops what comes until the socket has been read empty.
Buffer == {"ok", "overrun", "congested"}

\* /proc/<pid> exists; it does until the process is reaped.
Visible(p) == proc[p].state \in {"running", "zombie"}

ListedPids == {e.pid : e \in procList}

Init ==
  /\ options \in Settings
  /\ proc \in [Pid -> [state : {"free", "running"}, name : Name, ctx : Context]]
  /\ events = <<>> /\ buffer = "ok" /\ missed = {} /\ resync = 0
  /\ unread = [p \in Pid |-> 0]
  /\ pc = IF options.ReadProcAtInit THEN "init" ELSE "loop"
  /\ todo = IF options.ReadProcAtInit THEN Pid ELSE {}
  /\ procList = {} /\ removing = {}
  /\ contextList = {} /\ ctxRemoving = {}
  /\ queue = <<>>

-----------------------------------------------------------------------------
(* The kernel.  What it does once taskmonitor has stopped is not followed. *)

Room == buffer = "ok" /\ Len(events) < RxBufferSize

\* The connector reports to a socket that has room.
Emit(what, p) ==
  IF ~options.UpdateOnProcEvent THEN UNCHANGED <<events, buffer, missed>>
  ELSE \/ /\ Room
          /\ events' = Append(events, [what |-> what, pid |-> p])
          /\ UNCHANGED <<buffer, missed>>
       \/ /\ ~Room /\ options.EventsLost
          /\ buffer' = IF buffer = "ok" THEN "overrun" ELSE buffer
          /\ missed' = IF buffer = "congested" /\ what = "FORK" THEN missed \cup {p}
                                                           ELSE missed
          /\ UNCHANGED events

Fork(p, n, x) ==
  /\ pc # "stopped"
  /\ proc[p].state = "free" \/ (proc[p].state = "reaped" /\ options.PidReuse)
  /\ proc' = [proc EXCEPT ![p] = [state |-> "running", name |-> n, ctx |-> x]]
  /\ Emit("FORK", p)
  /\ UNCHANGED <<unread, resync, pc, todo, lists, queue>>

Exec(p, n) ==
  /\ pc # "stopped"
  /\ proc[p].state = "running" /\ n # proc[p].name
  /\ proc[p].name \in Blacklisted /\ n \notin Blacklisted => options.ExecFromBlacklisted
  /\ proc' = [proc EXCEPT ![p].name = n]
  /\ Emit("EXEC", p)
  /\ UNCHANGED <<unread, resync, pc, todo, lists, queue>>

Exit(p) ==
  /\ pc # "stopped"
  /\ proc[p].state = "running"
  /\ proc' = [proc EXCEPT ![p].state = "zombie"]
  /\ unread' = [unread EXCEPT ![p] = 0]
  /\ Emit("EXIT", p)
  /\ UNCHANGED <<resync, pc, todo, lists, queue>>

Reap(p) ==
  /\ pc # "stopped"
  /\ proc[p].state = "zombie"
  /\ proc' = [proc EXCEPT ![p].state = "reaped"]
  /\ UNCHANGED <<events, buffer, missed, unread, resync, pc, todo, lists, queue>>

-----------------------------------------------------------------------------
(* The lists of ProcRegistry *)

isBlacklisted(n) == n \in Blacklisted

\* What a reading of the files of p may return.  Those of a reaped process cannot
\* be opened; any other may fail too, for want of a descriptor, of memory or of
\* the permission, or in the parser.  A process that runs is read in the end.
reading(p) ==
  {status \in BOOLEAN :
     IF status THEN Visible(p) ELSE proc[p].state = "running" => unread[p] < MaxUnread}

\* History of a reading of p.
Noted(p, status) ==
  unread' = IF ~status /\ proc[p].state = "running"
            THEN [unread EXCEPT ![p] = @ + 1] ELSE unread

\* SafeList::commit on a list of entries, some of which are to be removed.
Commit(entries, pids) == {e \in entries : e.pid \notin pids}

\* A new entry, and its context unless it is listed: both appended in sync.
createProcessEntry(p) ==
  /\ procList' = {[pid |-> p, name |-> proc[p].name, ctx |-> proc[p].ctx]}
                   \cup IF options.CommitOnAppend THEN Commit(procList, removing)
                                          ELSE procList
  /\ removing' = IF options.CommitOnAppend THEN {} ELSE removing
  /\ IF proc[p].ctx \in contextList
     THEN UNCHANGED <<contextList, ctxRemoving>>
     ELSE /\ contextList' = {proc[p].ctx} \cup
                              IF options.CommitOnAppend THEN contextList \ ctxRemoving
                                                ELSE contextList
          /\ ctxRemoving' = IF options.CommitOnAppend THEN {} ELSE ctxRemoving

\* initFromProc on one pid of /proc: nothing is listed yet.  No entry is made of
\* a process whose status or stat cannot be read.
initProcEntry(p) ==
  \E status \in reading(p) :
    /\ Noted(p, status)
    /\ IF status /\ ~isBlacklisted(proc[p].name)
       THEN createProcessEntry(p)
       ELSE UNCHANGED lists

\* Variant: nobody looks for the pid in the list.
addProcEntryAnyway(p) == initProcEntry(p)

addProcEntry(p) ==
  \/ p \notin ListedPids /\ initProcEntry(p)
  \/ p \in ListedPids /\ UNCHANGED <<unread, lists>>

\* Variant: a blacklisted entry waits for the next commit.
updProcEntryDeferred(p) ==
  \/ p \notin ListedPids /\ UNCHANGED <<unread, lists>>
  \/ /\ p \in ListedPids
     /\ \E status \in reading(p) :
          LET stale == {e \in procList : e.pid = p /\ status /\ e.name # proc[p].name} IN
          /\ Noted(p, status)
          /\ IF isBlacklisted(proc[p].name)
             THEN removing' = removing \cup {e.pid : e \in stale} /\ UNCHANGED procList
             ELSE procList' = (procList \ stale) \cup
                                {[e EXCEPT !.name = proc[p].name] : e \in stale}
                    /\ UNCHANGED removing
          /\ UNCHANGED <<contextList, ctxRemoving>>

\* The entry takes the new name, leaves if the name is blacklisted, or stays as
\* it is if the name cannot be read.
Renamed(p, status) ==
  LET stale == {e \in procList : e.pid = p /\ status /\ e.name # proc[p].name}
  IN  (procList \ stale) \cup IF isBlacklisted(proc[p].name) THEN {}
                               ELSE {[e EXCEPT !.name = proc[p].name] : e \in stale}

\* The commit applies whatever removal is pending.
updProcEntry(p) ==
  /\ \/ p \notin ListedPids /\ procList' = Commit(procList, removing) /\ UNCHANGED unread
     \/ /\ p \in ListedPids
        /\ \E status \in reading(p) :
             Noted(p, status) /\ procList' = Commit(Renamed(p, status), removing)
  /\ removing' = {}
  /\ UNCHANGED <<contextList, ctxRemoving>>

\* Variant: the commit is left to whoever comes next.
remProcEntryAsyncUnqueued(p) ==
  /\ removing' = removing \cup ({p} \cap ListedPids)
  /\ UNCHANGED <<procList, contextList, ctxRemoving, queue>>

\* remProcEntry(pid, false)
remProcEntryAsync(p) ==
  /\ removing' = removing \cup ({p} \cap ListedPids)
  /\ queue' = Append(queue, "CommitProcList")
  /\ UNCHANGED <<procList, contextList, ctxRemoving>>

\* Variant: the default of the second parameter.
remProcEntryDefault(p) == remProcEntryAsync(p)

\* remProcEntry(pid, true)
remProcEntrySync(p) ==
  /\ procList' = Commit(procList, removing \cup {p})
  /\ removing' = {}
  /\ UNCHANGED <<contextList, ctxRemoving, queue>>

-----------------------------------------------------------------------------
(* ProcEvent: the netlink callback *)

\* A recv that leaves these events in the socket.
BufferAfter(left) ==
  buffer' = CASE left = <<>> -> "ok"
              [] left # <<>> /\ buffer = "overrun" -> "congested"
              [] OTHER -> buffer

\* Variant: the loss of events is only logged.
EventsDroppedLogged ==
  /\ BufferAfter(events)
  /\ UNCHANGED <<proc, events, missed, unread, resync, pc, todo, lists, queue>>

\* recv fails with ENOBUFS, before it gives the events that were kept: the
\* callback asks StateManager for a scan.
EventsDropped ==
  /\ BufferAfter(events)
  /\ resync' = resync + 1
  /\ UNCHANGED <<proc, events, missed, unread, pc, todo, lists, queue>>

EventReceived(ev) ==
  /\ events' = Tail(events) /\ BufferAfter(Tail(events))
  /\ \/ ev.what = "FORK" /\ addProcEntry(ev.pid) /\ UNCHANGED queue
     \/ ev.what = "EXEC" /\ updProcEntry(ev.pid) /\ UNCHANGED queue
     \/ ev.what = "EXIT" /\ remProcEntrySync(ev.pid) /\ UNCHANGED unread
  /\ UNCHANGED <<proc, missed, resync, pc, todo>>

ProcEventCallback ==
  /\ pc = "loop"
  /\ \/ buffer = "overrun" /\ resync < MaxQueue /\ EventsDropped
     \/ buffer # "overrun" /\ events # <<>> /\ EventReceived(Head(events))

\* recv fails otherwise: the source is removed, and its finalize callback stops
\* the application, which cannot follow the kernel any more.
ProcEventLost ==
  /\ pc = "loop" /\ options.UpdateOnProcEvent
  /\ pc' = "stopped"
  /\ UNCHANGED <<kernel, unread, resync, todo, lists, queue>>

-----------------------------------------------------------------------------
(* Callbacks that read /proc *)

\* Variant: the lanes scan /proc when there are events.
LaneTimerInverted(lane) ==
  /\ pc = "loop" /\ Len(queue) < MaxQueue
  /\ \/ options.UpdateOnProcEvent /\ pc' = "scan" /\ todo' = Pid
     \/ /\ lane = "Pace" /\ procList # {}
        /\ pc' = "update" /\ todo' = ListedPids
  /\ UNCHANGED <<kernel, unread, resync, lists, queue>>

\* A lane timer.  The update of the entries belongs to the Pace lane.
LaneTimer(lane) ==
  /\ pc = "loop" /\ Len(queue) < MaxQueue
  /\ \/ /\ ~options.UpdateOnProcEvent
        /\ pc' = IF lane = "Pace" THEN "paceScan" ELSE "scan"
        /\ todo' = Pid
     \/ /\ options.UpdateOnProcEvent /\ lane = "Pace" /\ procList # {}
        /\ pc' = "update" /\ todo' = ListedPids
  /\ UNCHANGED <<kernel, unread, resync, lists, queue>>

\* StateManager handles UpdateProcessList.
doUpdateProcessList ==
  /\ pc = "loop" /\ resync > 0
  /\ resync' = resync - 1
  /\ pc' = "scan" /\ todo' = Pid
  /\ UNCHANGED <<kernel, unread, lists, queue>>

\* The iteration of initFromProc or updateProcessList comes to p.
Scan(p) ==
  /\ pc \in {"init", "scan", "paceScan"} /\ p \in todo
  /\ IF pc = "init" THEN initProcEntry(p) ELSE addProcEntry(p)
  /\ IF todo # {p} THEN todo' = todo \ {p} /\ UNCHANGED pc
     ELSE IF pc = "paceScan" /\ procList' # {}
     THEN todo' = {e.pid : e \in procList'} /\ pc' = "update"
     ELSE todo' = {} /\ pc' = "loop"
  /\ UNCHANGED <<kernel, resync, queue>>

\* Variant: the failure to read the entry is only logged.
updateProcInfoLogged(p) ==
  /\ pc = "update" /\ p \in todo
  /\ \E status \in reading(p) : Noted(p, status)
  /\ todo' = todo \ {p}
  /\ pc' = IF todo = {p} THEN "loop" ELSE pc
  /\ UNCHANGED <<kernel, resync, lists, queue>>

\* The Pace lane comes to the entry of p, which leaves if its stat, smaps_rollup
\* or fd cannot be read, whether or not the process still runs.
updateProcInfo(p) ==
  /\ pc = "update" /\ p \in todo
  /\ \E status \in reading(p) :
       /\ Noted(p, status)
       /\ \/ status /\ UNCHANGED <<lists, queue>>
          \/ ~status /\ remProcEntryAsync(p)
  /\ todo' = todo \ {p}
  /\ pc' = IF todo = {p} THEN "loop" ELSE pc
  /\ UNCHANGED <<kernel, resync>>

-----------------------------------------------------------------------------
(* The requests of ProcRegistry *)

\* A collector asks for ContextInfo.  Its requests for ProcInfo and ProcAcct
\* read the list only.
GetContextInfo ==
  /\ pc = "loop" /\ Len(queue) < MaxQueue
  /\ queue' = Append(queue, "CollectAndSendContextInfo")
  /\ UNCHANGED <<kernel, unread, resync, pc, todo, lists>>

doCommitProcList ==
  /\ procList' = Commit(procList, removing) /\ removing' = {}
  /\ queue' = Tail(queue)
  /\ UNCHANGED <<contextList, ctxRemoving>>

doCommitContextList ==
  /\ contextList' = contextList \ ctxRemoving /\ ctxRemoving' = {}
  /\ queue' = Tail(queue)
  /\ UNCHANGED <<procList, removing>>

\* Contexts that no entry belongs to are to be removed.
doCollectAndSendContextInfo ==
  /\ ctxRemoving' = ctxRemoving \cup (contextList \ {e.ctx : e \in procList})
  /\ queue' = Append(Tail(queue), "CommitContextList")
  /\ UNCHANGED <<procList, removing, contextList>>

requestHandler ==
  /\ pc = "loop" /\ queue # <<>>
  /\ \/ Head(queue) = "CommitProcList" /\ doCommitProcList
     \/ Head(queue) = "CommitContextList" /\ doCommitContextList
     \/ Head(queue) = "CollectAndSendContextInfo" /\ doCollectAndSendContextInfo
  /\ UNCHANGED <<kernel, unread, resync, pc, todo>>

-----------------------------------------------------------------------------

Steps ==
  \/ \E p \in Pid :
       \/ \E n \in Name, x \in Context : Fork(p, n, x)
       \/ \E n \in Name : Exec(p, n)
       \/ Exit(p) \/ Reap(p)
       \/ Scan(p) \/ updateProcInfo(p)
  \/ ProcEventCallback \/ ProcEventLost
  \/ \E lane \in {"Fast", "Pace", "Slow"} : LaneTimer(lane)
  \/ doUpdateProcessList
  \/ GetContextInfo
  \/ requestHandler

Next == Steps /\ UNCHANGED options

\* A callback that was started goes on, and the loop, whenever it is back,
\* does not pass over a source that stays ready for ever.
Fairness ==
  /\ WF_changing(\E p \in Pid : Scan(p) \/ updateProcInfo(p))
  /\ SF_changing(ProcEventCallback)
  /\ SF_changing(LaneTimer("Pace"))
  /\ SF_changing(doUpdateProcessList)
  /\ SF_changing(requestHandler)

Spec == Init /\ [][Next]_vars

FairSpec == Spec /\ Fairness

-----------------------------------------------------------------------------
(* Properties *)

\* Every variable has its type, and there is one entry for a pid.
TypeOK ==
  /\ options \in Settings
  /\ proc \in [Pid -> Process]
  /\ events \in Seq(Event) /\ Len(events) <= RxBufferSize
  /\ buffer \in Buffer /\ missed \subseteq Pid /\ resync \in 0..MaxQueue
  /\ unread \in [Pid -> 0..MaxUnread]
  /\ pc \in {"init", "loop", "scan", "paceScan", "update", "stopped"}
  /\ todo \subseteq Pid /\ (pc \in {"loop", "stopped"} <=> todo = {})
  /\ procList \subseteq Entry
  /\ \A d, e \in procList : d.pid = e.pid => d = e
  /\ removing \subseteq ListedPids
  /\ contextList \subseteq Context /\ ctxRemoving \subseteq contextList
  /\ queue \in Seq({"CommitProcList", "CommitContextList", "CollectAndSendContextInfo"})

MustBeListed(p) == proc[p].state = "running" /\ ~isBlacklisted(proc[p].name)

EventQueued(p) == \E i \in DOMAIN events : events[i].pid = p

\* Something that will visit p again is on its way.
VisitPending(p) ==
  \/ EventQueued(p)
  \/ p \in todo /\ pc \in {"init", "scan"}
  \/ buffer = "overrun" \/ resync > 0

\* A read of the running process p has failed.
Unread(p) == unread[p] > 0

\* With events and the reading of /proc at the start, no running process is
\* forgotten: one that is not blacklisted is listed, or an event about it, the
\* reading of /proc or the scan that makes up for lost events is still to come.
\* Two are left out, because the code does not list them again: a process whose
\* fork was dropped after that scan had been asked for, and one that could not be
\* read itself.  That a read of another process fails makes no difference.
RunningListed ==
  options.UpdateOnProcEvent /\ options.ReadProcAtInit =>
    \A p \in Pid :
      MustBeListed(p) => p \in ListedPids \cup missed \/ Unread(p) \/ VisitPending(p)

\* The entry of a running process has its name and its context, those of the
\* process and not of an earlier one with its pid, or an event about it is
\* still to come.  Its name is an earlier one of the same process only where a
\* read of the process failed.
EntryCurrent ==
  \A e \in procList :
    proc[e.pid].state = "running" =>
      \/ /\ e.name = proc[e.pid].name \/ Unread(e.pid)
         /\ e.ctx = proc[e.pid].ctx
      \/ EventQueued(e.pid)

\* A removal that was asked for is not forgotten: the commit that applies it is
\* queued.
RemovalsCommitted ==
  /\ removing # {} => \E i \in DOMAIN queue : queue[i] = "CommitProcList"
  /\ ctxRemoving # {} => \E i \in DOMAIN queue : queue[i] = "CommitContextList"

\* The entry of a process that is gone leaves the list, even if the event of its
\* exit was lost or there are no events, unless its pid is in use again.
DeadProcessLeaves ==
  \A p \in Pid :
    (p \in ListedPids /\ ~Visible(p))
      ~> (p \notin ListedPids \/ Visible(p) \/ pc = "stopped")

\* A running process that is not blacklisted gets into the list.  Scans retry: it
\* does although it could not be read at first.  Where events maintain the list
\* one that could not be read may stay out of it, and one whose fork was dropped
\* without notice.
RunningGetsListed ==
  \A p \in Pid :
    MustBeListed(p)
      ~> \/ p \in ListedPids \/ ~MustBeListed(p) \/ pc = "stopped"
         \/ options.UpdateOnProcEvent /\ (p \in missed \/ Unread(p))

\* doc: "If one of the line proprieties matches the PID will not be monitored".
\* A process that runs a blacklisted program does not stay in the list.
BlacklistHonoured ==
  \A p \in Pid :
    LET ignored == proc[p].state = "running" /\ isBlacklisted(proc[p].name)
    IN  (p \in ListedPids /\ ignored) ~> (p \notin ListedPids \/ ~ignored)

\* CHANGELOG: "Fix process not re-added to context after restart".  The context
\* of a listed process is listed.
ContextsListed == \A e \in procList : e.ctx \in contextList

=============================================================================
