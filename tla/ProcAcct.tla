------------------------------ MODULE ProcAcct ------------------------------
(***************************************************************************)
(* Task accounting, which runs in profiling mode only.  On the Slow lane   *)
(* ProcRegistry asks ProcAcct for the statistics of every listed process   *)
(* that has no request pending; the answers arrive on a netlink socket     *)
(* that is read in two places.                                             *)
(*                                                                         *)
(* A request is sent with nl_send_sync, which reads one datagram after it: *)
(* the oldest of the socket, which may be an earlier acknowledgement, the  *)
(* statistics of another process or an error about one, because the check  *)
(* of sequence numbers is disabled.  What it leaves is read by the         *)
(* callback of the event source, one datagram per dispatch.                *)
(*                                                                         *)
(* Of the registry this module keeps the pids; names, contexts and lost    *)
(* events are in module ProcRegistry, and the end of a process and its     *)
(* disappearance from /proc are one step here.                             *)
(***************************************************************************)
EXTENDS Integers, Sequences, FiniteSets

CONSTANTS
  Pid,
  Settings,   \* the settings a start of the program may find
  MaxEvents   \* bound: events of ProcEvent not read yet

\* What is fixed when the program starts.
Setting ==
  [scanning     : BOOLEAN,     \* the lanes scan /proc, else ProcEvent reports
   PidReuse     : BOOLEAN,     \* the kernel gives a pid again
   RxBufferSize : Nat \ {0}]   \* datagrams the socket of ProcAcct holds

ASSUME ProcAcctAssumption ==
  /\ IsFiniteSet(Pid)
  /\ Settings \subseteq Setting
  /\ MaxEvents \in Nat

VARIABLES
  options,     \* the setting of this start
  proc,        \* the kernel's processes
  events,      \* the netlink socket of ProcEvent
  accounting,  \* procAcctCollectorCounter is not zero (see Sessions)
  procList,    \* the pids in ProcRegistry::m_procList
  removing,    \* those m_procList removes at its commit
  pending,     \* those with m_updateProcAcctPending
  todo,        \* the pids the iteration of the Slow lane has left
  socket,      \* the datagrams of m_nlSock not read yet
  buffer,      \* how the kernel treats the socket
  inLoop,      \* the event source of ProcAcct is in the loop
  dropped      \* history: an answer found no room in the socket

lists == <<procList, removing, pending>>
netlink == <<socket, buffer, dropped>>
changing == <<proc, events, accounting, lists, todo, netlink, inLoop>>
vars == <<options, changing>>

-----------------------------------------------------------------------------

Event == [what : {"FORK", "EXIT"}, pid : Pid]

\* An acknowledgement, too, belongs to the request for a pid.
Datagram == [what : {"stats", "ack", "error"}, pid : Pid]

\* After a datagram that found no room the next read fails, and nothing more
\* is accepted until the socket is empty.
Buffer == {"ok", "overrun", "congested"}

Running(p) == proc[p] = "running"

Init ==
  /\ options \in Settings
  /\ proc \in [Pid -> {"free", "running"}]
  /\ events = <<>>
  /\ accounting = FALSE
  /\ procList = {p \in Pid : Running(p)}
  /\ removing = {} /\ pending = {} /\ todo = {}
  /\ socket = <<>> /\ buffer = "ok" /\ dropped = FALSE
  /\ inLoop = TRUE

-----------------------------------------------------------------------------
(* The kernel, and the sessions that want accounting *)

Emit(what, p) ==
  IF options.scanning THEN UNCHANGED events
  ELSE /\ Len(events) < MaxEvents
       /\ events' = Append(events, [what |-> what, pid |-> p])

Fork(p) ==
  /\ proc[p] = "free" \/ (proc[p] = "gone" /\ options.PidReuse)
  /\ proc' = [proc EXCEPT ![p] = "running"]
  /\ Emit("FORK", p)
  /\ UNCHANGED <<accounting, lists, todo, netlink, inLoop>>

Exit(p) ==
  /\ Running(p)
  /\ proc' = [proc EXCEPT ![p] = "gone"]
  /\ Emit("EXIT", p)
  /\ UNCHANGED <<accounting, lists, todo, netlink, inLoop>>

SessionsChange ==
  /\ todo = {}
  /\ accounting' = ~accounting
  /\ UNCHANGED <<proc, events, lists, todo, netlink, inLoop>>

-----------------------------------------------------------------------------
(* The netlink socket *)

\* What the kernel answers to a request for p: the statistics and the
\* acknowledgement, or the error ESRCH.
Answers(p) ==
  IF Running(p) THEN <<[what |-> "stats", pid |-> p], [what |-> "ack", pid |-> p]>>
  ELSE <<[what |-> "error", pid |-> p]>>

Room == IF buffer = "ok" THEN options.RxBufferSize - Len(socket) ELSE 0

\* Those that still find room.
Accepted(p) ==
  IF Len(Answers(p)) <= Room THEN Answers(p) ELSE SubSeq(Answers(p), 1, Room)

\* A read takes the oldest datagram, or takes nothing and reports the overrun.
Read(datagrams, state) ==
  /\ socket' = IF state = "overrun" THEN datagrams ELSE Tail(datagrams)
  /\ buffer' = CASE socket' = <<>> -> "ok"
                 [] socket' # <<>> /\ state = "overrun" -> "congested"
                 [] OTHER -> state

\* processDelayAcct: the pids whose flag the datagram read clears.
Answered(datagrams, state) ==
  IF state # "overrun" /\ Head(datagrams).what = "stats"
  THEN {Head(datagrams).pid} ELSE {}

\* What was read is an error for nl_recvmsgs.
Failed(datagrams, state) ==
  state = "overrun" \/ Head(datagrams).what = "error"

-----------------------------------------------------------------------------
(* ProcEntry and ProcAcct *)

\* Variant: an iteration commits the removals it asks for.
remProcEntrySync(p) ==
  /\ procList' = procList \ (removing \cup {p})
  /\ removing' = {}

\* remProcEntry from ProcEntry: the removal waits for the commit.
remProcEntry(p) ==
  /\ removing' = removing \cup {p}
  /\ UNCHANGED procList

\* Variant: the flag is set when the request is on its way.
FlagsAfterLate(p, answered) == (pending \ answered) \cup {p}

\* The flag is set before the request, which may read its own answer.
FlagsAfter(p, answered) == (pending \cup {p}) \ answered

\* requestTaskAcct and what ProcEntry makes of its result.
requestTaskAcct(p) ==
  LET datagrams == socket \o Accepted(p)
      lost == Accepted(p) # Answers(p)
      state == IF lost /\ buffer = "ok" THEN "overrun" ELSE buffer IN
  /\ Read(datagrams, state)
  /\ dropped' = (dropped \/ lost)
  /\ pending' = FlagsAfter(p, Answered(datagrams, state))
  /\ IF Failed(datagrams, state) THEN remProcEntry(p)
                                 ELSE UNCHANGED <<procList, removing>>

\* Variant: a request for every entry on every Slow interval.
WantsRequestAlways(p) == accounting

WantsRequest(p) == accounting /\ p \notin pending

updateProcAcct ==
  \E p \in todo :
    /\ todo' = todo \ {p}
    /\ IF WantsRequest(p) THEN requestTaskAcct(p) ELSE UNCHANGED <<lists, netlink>>
    /\ UNCHANGED <<proc, events, accounting, inLoop>>

\* Variant: the error about a process that ended is an error like any other.
ToleratedNone(datagrams, state) == ~Failed(datagrams, state)

\* NLE_OBJ_NOTFOUND is not an error for the callback, NLE_NOMEM is.
Tolerated(datagrams, state) == state # "overrun"

\* The callback of the event source; finalize only logs.
AcctCallback ==
  /\ inLoop /\ todo = {}
  /\ socket # <<>> \/ buffer = "overrun"
  /\ Read(socket, buffer)
  /\ pending' = pending \ Answered(socket, buffer)
  /\ inLoop' = Tolerated(socket, buffer)
  /\ UNCHANGED <<proc, events, accounting, procList, removing, todo, dropped>>

-----------------------------------------------------------------------------
(* ProcRegistry and ProcEvent *)

\* Variant: the test of the option UpdateOnProcEvent is inverted.
ScannedInverted == IF options.scanning THEN {} ELSE {p \in Pid : Running(p)}

\* updateProcessList lists what it finds, when it is called.
Scanned == IF options.scanning THEN {p \in Pid : Running(p)} ELSE {}

\* A lane timer: the Slow lane asks for accounting, the Pace lane finds the
\* entries that cannot be read.
LaneTimer(lane) ==
  /\ todo = {}
  /\ procList' = procList \cup Scanned
  /\ todo' = IF lane = "Slow" THEN procList' ELSE {}
  /\ removing' = IF lane = "Pace" THEN removing \cup {p \in procList' : ~Running(p)}
                                  ELSE removing
  /\ UNCHANGED <<proc, events, accounting, pending, netlink, inLoop>>

\* The entries of the pids are gone, and the flags with them.
Leave(pids) ==
  /\ procList' = procList \ pids
  /\ pending' = pending \ pids
  /\ removing' = {}

doCommitProcList ==
  /\ todo = {} /\ removing # {}
  /\ Leave(removing)
  /\ UNCHANGED <<proc, events, accounting, todo, netlink, inLoop>>

\* FORK adds a process that can still be read, EXIT removes it in sync.
ProcEventCallback ==
  /\ todo = {} /\ events # <<>>
  /\ events' = Tail(events)
  /\ LET p == Head(events).pid IN
     IF Head(events).what = "EXIT" THEN Leave(removing \cup {p})
     ELSE /\ procList' = IF Running(p) THEN procList \cup {p} ELSE procList
          /\ UNCHANGED <<removing, pending>>
  /\ UNCHANGED <<proc, accounting, todo, netlink, inLoop>>

-----------------------------------------------------------------------------

Callback ==
  \/ updateProcAcct \/ AcctCallback
  \/ \E lane \in {"Pace", "Slow"} : LaneTimer(lane)
  \/ doCommitProcList \/ ProcEventCallback

Next ==
  /\ \/ \E p \in Pid : Fork(p) \/ Exit(p)
     \/ SessionsChange
     \/ Callback
  /\ UNCHANGED options

Spec == Init /\ [][Next]_vars

\* An iteration ends, and the loop dispatches what is ready again and again.
Fairness ==
  /\ WF_changing(updateProcAcct)
  /\ SF_changing(AcctCallback)
  /\ SF_changing(LaneTimer("Pace")) /\ SF_changing(LaneTimer("Slow"))
  /\ SF_changing(doCommitProcList)
  /\ SF_changing(ProcEventCallback)

FairSpec == Spec /\ Fairness

-----------------------------------------------------------------------------
(* Properties *)

\* Every variable has its type; what is to be removed, has a request pending or
\* is still to be visited is in the list.
TypeOK ==
  /\ options \in Settings
  /\ proc \in [Pid -> {"free", "running", "gone"}]
  /\ events \in Seq(Event)
  /\ procList \subseteq Pid
  /\ removing \subseteq procList /\ pending \subseteq procList /\ todo \subseteq procList
  /\ socket \in Seq(Datagram) /\ Len(socket) <= options.RxBufferSize
  /\ buffer \in Buffer
  /\ {accounting, inLoop, dropped} \subseteq BOOLEAN

\* The statistics of p are in the socket.
Underway(p) == \E i \in DOMAIN socket : socket[i] = [what |-> "stats", pid |-> p]

\* The entry of p leaves the list, or belongs to a process that ended.
Leaving(p) ==
  \/ p \in removing \/ ~Running(p)
  \/ \E i \in DOMAIN events : events[i] = [what |-> "EXIT", pid |-> p]

\* An entry with a request pending is not asked about again.  However the two
\* readers of the socket take each other's datagrams, the flag is set only while
\* an answer that clears it is underway, unless the entry leaves anyway or the
\* kernel had no room for an answer.
PendingAnswered == \A p \in pending : Underway(p) \/ Leaving(p) \/ dropped

\* That processes end between a request and its answer does not cost the source:
\* it leaves the loop only after answers were dropped.
SourceKept == inLoop \/ dropped

\* The flag bounds what one loop that is slow to read can have in its socket: a
\* buffer for the answers of all processes is never overrun.
NothingDropped ==
  ~options.PidReuse /\ options.RxBufferSize > 2 * Cardinality(Pid) => ~dropped

\* Accounting goes on: a flag that is set is cleared, or goes with its entry.
PendingCleared == \A p \in Pid : (p \in pending) ~> (p \notin pending \/ dropped)

\* A running process that accounting takes out of the list, for the error about
\* another process or a full buffer, is listed again where /proc is scanned.
RunningRelisted ==
  options.scanning =>
    \A p \in Pid : Running(p) ~> (p \in procList \ removing \/ ~Running(p))

=============================================================================
