------------------------- MODULE ProcRegistryProofs -------------------------
(***************************************************************************)
(* The invariants of ProcRegistry for every set of pids, names and         *)
(* contexts, every blacklist, every set of settings and every bound.       *)
(***************************************************************************)
EXTENDS ProcRegistry, SequenceTheorems, TLAPS

\* While /proc is read at the start, what is left to visit is not listed: that
\* reading does not look for the pid in the list.
NotYetListed == pc = "init" => todo \cap ListedPids = {}

\* What keeps the types and the removals.
ListInv == TypeOK /\ NotYetListed /\ RemovalsCommitted


-----------------------------------------------------------------------------
(* The lists *)

\* The requests of ProcRegistry, whatever they are about.
Requests == {"CommitProcList", "CommitContextList", "CollectAndSendContextInfo"}

\* What TypeOK says of the lists.
ListsOK ==
  /\ procList \subseteq Entry
  /\ \A d, e \in procList : d.pid = e.pid => d = e
  /\ removing \subseteq ListedPids
  /\ contextList \subseteq Context /\ ctxRemoving \subseteq contextList

\* What TypeOK says of the reads of /proc that failed.
ReadsOK == unread \in [Pid -> 0..MaxUnread]

\* No failed read of a process is forgotten.
ReadsKept == \A r \in Pid : Unread(r) => Unread(r)'

\* A read of p comes within the bound, and is noted if it fails while p runs.
LEMMA ReadNoted ==
  ASSUME ReadsOK, NEW p \in Pid, NEW status \in reading(p), Noted(p, status)
  PROVE  /\ ReadsOK' /\ ReadsKept
         /\ IF status THEN Visible(p) ELSE proc[p].state = "running" => Unread(p)'
<1>1. MaxUnread \in Nat BY ProcRegistryAssumption
<1>2. IF status THEN Visible(p) ELSE proc[p].state = "running" => unread[p] < MaxUnread
  BY DEF reading
<1>3. CASE ~status /\ proc[p].state = "running"
  <2>1. unread' = [unread EXCEPT ![p] = unread[p] + 1] BY <1>3 DEF Noted
  <2>2. unread[p] \in 0..MaxUnread /\ unread[p] < MaxUnread BY <1>2, <1>3 DEF ReadsOK
  <2>3. unread[p] + 1 \in 0..MaxUnread /\ unread[p] + 1 > 0 BY <1>1, <2>2
  <2>4. ReadsOK' BY <2>1, <2>3 DEF ReadsOK
  <2>5. Unread(p)' BY <2>1, <2>3 DEF ReadsOK, Unread
  <2>6. ReadsKept BY <2>1, <2>5 DEF ReadsOK, ReadsKept, Unread
  <2>7. QED BY <1>3, <2>4, <2>5, <2>6
<1>4. CASE ~(~status /\ proc[p].state = "running")
  <2>1. unread' = unread BY <1>4 DEF Noted
  <2>2. ReadsOK' /\ ReadsKept BY <2>1 DEF ReadsOK, ReadsKept, Unread
  <2>3. QED BY <1>2, <1>4, <2>2
<1>5. QED BY <1>3, <1>4

\* The callbacks that may read the files of p keep the history of reads.
LEMMA ReadsFollow ==
  ASSUME ReadsOK, NEW p \in Pid,
         addProcEntry(p) \/ initProcEntry(p) \/ updProcEntry(p) \/ updateProcInfo(p)
           \/ UNCHANGED unread
  PROVE  ReadsOK' /\ ReadsKept
<1>1. CASE UNCHANGED unread BY <1>1 DEF ReadsOK, ReadsKept, Unread
<1>2. ASSUME NEW status \in reading(p), Noted(p, status) PROVE ReadsOK' /\ ReadsKept
  BY <1>2, ReadNoted
<1>3. QED BY <1>1, <1>2 DEF addProcEntry, initProcEntry, updProcEntry, updateProcInfo

\* An entry for a pid that is not listed keeps one entry for a pid, whether or
\* not the append applies the pending removals.
LEMMA CreateKeepsLists ==
  ASSUME ListsOK, proc \in [Pid -> Process], NEW p \in Pid, p \notin ListedPids,
         createProcessEntry(p)
  PROVE  /\ ListsOK'
         /\ ListedPids' = {p} \cup (ListedPids \ (removing \ removing'))
         /\ removing' \subseteq removing /\ ctxRemoving' \subseteq ctxRemoving
<1> DEFINE new == [pid |-> p, name |-> proc[p].name, ctx |-> proc[p].ctx]
           kept == IF options.CommitOnAppend THEN Commit(procList, removing) ELSE procList
<1>1. new \in Entry /\ new.pid = p BY DEF Process, Entry
<1>2. procList' = {new} \cup kept /\ kept \subseteq procList
  BY DEF createProcessEntry, Commit
<1>3. \A e \in procList : e.pid # p BY DEF ListedPids
<1>4. removing' = IF options.CommitOnAppend THEN {} ELSE removing
  BY DEF createProcessEntry
<1>5. kept = {e \in procList : e.pid \notin removing \ removing'}
  <2>1. CASE options.CommitOnAppend BY <2>1, <1>4 DEF Commit
  <2>2. CASE ~options.CommitOnAppend BY <2>2, <1>4
  <2>3. QED BY <2>1, <2>2
<1> HIDE DEF new, kept
<1>6. procList' \subseteq Entry BY <1>1, <1>2 DEF ListsOK
<1>7. \A d, e \in procList' : d.pid = e.pid => d = e
  BY <1>1, <1>2, <1>3 DEF ListsOK
<1>8. ListedPids' = {p} \cup (ListedPids \ (removing \ removing'))
  BY <1>1, <1>2, <1>5 DEF ListedPids
<1>9. removing' \subseteq ListedPids' /\ removing' \subseteq removing
  BY <1>4, <1>8 DEF ListsOK
<1>10. /\ contextList' \subseteq Context /\ ctxRemoving' \subseteq contextList'
       /\ ctxRemoving' \subseteq ctxRemoving
  <2>1. proc[p].ctx \in Context BY DEF Process
  <2>2. QED BY <2>1 DEF createProcessEntry, ListsOK
<1>11. QED BY <1>6, <1>7, <1>8, <1>9, <1>10 DEF ListsOK

\* addProcEntry and initProcEntry list p or leave the lists alone.
LEMMA AddKeepsLists ==
  ASSUME ListsOK, proc \in [Pid -> Process], NEW p \in Pid,
         addProcEntry(p) \/ (initProcEntry(p) /\ p \notin ListedPids)
  PROVE  /\ ListsOK'
         /\ \/ UNCHANGED <<procList, removing>>
            \/ Visible(p) /\ ListedPids' = {p} \cup (ListedPids \ (removing \ removing'))
         /\ removing' \subseteq removing /\ ctxRemoving' \subseteq ctxRemoving
<1>1. CASE UNCHANGED lists BY <1>1 DEF lists, ListsOK, ListedPids
<1>2. CASE p \notin ListedPids /\ Visible(p) /\ createProcessEntry(p)
  BY <1>2, CreateKeepsLists
<1>3. ASSUME initProcEntry(p), p \notin ListedPids
      PROVE  UNCHANGED lists \/ (Visible(p) /\ createProcessEntry(p))
  BY <1>3 DEF initProcEntry, reading
<1>4. QED BY <1>1, <1>2, <1>3 DEF addProcEntry

\* A renamed entry keeps its pid.
LEMMA UpdKeepsLists ==
  ASSUME ListsOK, proc \in [Pid -> Process], NEW p \in Pid, updProcEntry(p)
  PROVE  /\ ListsOK' /\ removing' = {}
         /\ ListedPids \ (removing \cup {p}) \subseteq ListedPids'
         /\ ListedPids' \subseteq ListedPids
         /\ UNCHANGED <<contextList, ctxRemoving>>
<1>1. PICK status \in BOOLEAN :
        /\ procList' = Commit(Renamed(p, status), removing)
        /\ removing' = {} /\ UNCHANGED <<contextList, ctxRemoving>>
  <2>1. CASE p \notin ListedPids
    <3>1. procList' = Commit(procList, removing) BY <2>1 DEF updProcEntry
    <3>2. Renamed(p, FALSE) = procList BY DEF Renamed
    <3>3. QED BY <3>1, <3>2 DEF updProcEntry
  <2>2. CASE p \in ListedPids BY <2>2 DEF updProcEntry, reading
  <2>3. QED BY <2>1, <2>2
<1> DEFINE stale == {e \in procList : e.pid = p /\ status /\ e.name # proc[p].name}
           renamed == IF isBlacklisted(proc[p].name) THEN {}
                      ELSE {[e EXCEPT !.name = proc[p].name] : e \in stale}
<1>2. proc[p].name \in Name BY DEF Process
<1>3. \A e \in stale : [e EXCEPT !.name = proc[p].name] \in Entry
                       /\ [e EXCEPT !.name = proc[p].name].pid = p
  BY <1>2 DEF ListsOK, Entry
<1>4. \A e \in renamed : e \in Entry /\ e.pid = p BY <1>3
<1>5. \A d, e \in stale : d = e BY DEF ListsOK
<1>6. \A d, e \in renamed : d = e BY <1>5
<1>7. renamed # {} => stale # {} OBVIOUS
<1>8. \A e \in stale : e.pid = p /\ e \in procList OBVIOUS
<1>9. \A d \in procList \ stale, e \in renamed : d.pid # e.pid
  BY <1>4, <1>7, <1>8 DEF ListsOK
<1> HIDE DEF stale, renamed
<1>10. \A e \in procList' : e \in (procList \ stale) \cup renamed
  BY <1>1 DEF Commit, Renamed, stale, renamed
<1>11. procList' \subseteq Entry BY <1>4, <1>10 DEF ListsOK
<1>12. \A d, e \in procList' : d.pid = e.pid => d = e
  BY <1>6, <1>9, <1>10 DEF ListsOK
<1>13. ListedPids' \subseteq ListedPids
  BY <1>4, <1>7, <1>8, <1>10 DEF ListedPids
<1>14. ListedPids \ (removing \cup {p}) \subseteq ListedPids'
  <2>1. procList \ stale \subseteq Renamed(p, status) BY DEF Renamed, stale
  <2>2. QED BY <1>1, <1>8, <2>1 DEF ListedPids, Commit
<1>15. QED BY <1>1, <1>11, <1>12, <1>13, <1>14 DEF ListsOK

\* A commit takes the pids it is given out of the list.
LEMMA CommitKeepsLists ==
  ASSUME ListsOK, NEW gone, procList' = Commit(procList, gone),
         removing' = {}, UNCHANGED <<contextList, ctxRemoving>>
  PROVE  ListsOK' /\ ListedPids' = ListedPids \ gone
<1>1. procList' \subseteq procList BY DEF Commit
<1>2. ListedPids' = ListedPids \ gone BY DEF Commit, ListedPids
<1>3. QED BY <1>1, <1>2 DEF ListsOK


-----------------------------------------------------------------------------
(* Types, and removals that are committed *)

\* What TypeOK says of the processes and their events.
KernelOK ==
  /\ proc \in [Pid -> Process]
  /\ events \in Seq(Event) /\ Len(events) <= RxBufferSize
  /\ buffer \in Buffer /\ missed \subseteq Pid /\ resync \in 0..MaxQueue

\* What TypeOK says of what the program does.
ControlOK ==
  /\ pc \in {"init", "loop", "scan", "paceScan", "update", "stopped"}
  /\ todo \subseteq Pid /\ (pc \in {"loop", "stopped"} <=> todo = {})

\* The parts of the type invariant.
LEMMA TypeParts ==
  TypeOK <=> /\ options \in Settings /\ KernelOK /\ ReadsOK /\ ControlOK /\ ListsOK
             /\ queue \in Seq(Requests)
  BY DEF TypeOK, KernelOK, ReadsOK, ControlOK, ListsOK, Requests

\* A request appended to the queue is in it, with those that were.
LEMMA RequestAppended ==
  ASSUME NEW q \in Seq(Requests), NEW r \in Requests
  PROVE  /\ Append(q, r) \in Seq(Requests)
         /\ \E i \in DOMAIN Append(q, r) : Append(q, r)[i] = r
         /\ \A x : (\E i \in DOMAIN q : q[i] = x)
                     => \E i \in DOMAIN Append(q, r) : Append(q, r)[i] = x
<1> DEFINE t == Append(q, r)
<1>1. /\ t \in Seq(Requests) /\ DOMAIN t = 1..(Len(q) + 1) /\ DOMAIN q = 1..Len(q)
      /\ \A i \in 1..Len(q) : t[i] = q[i]
      /\ t[Len(q) + 1] = r /\ Len(q) \in Nat
  OBVIOUS
<1> HIDE DEF t
<1>2. \A i \in DOMAIN q : i \in DOMAIN t /\ t[i] = q[i] BY <1>1
<1>3. Len(q) + 1 \in DOMAIN t BY <1>1
<1>4. QED BY <1>1, <1>2, <1>3 DEF t

\* When the head is taken every other request stays.
LEMMA RequestTaken ==
  ASSUME NEW q \in Seq(Requests), q # <<>>
  PROVE  /\ Head(q) \in Requests /\ Tail(q) \in Seq(Requests)
         /\ \A x : x # Head(q) /\ (\E i \in DOMAIN q : q[i] = x)
                     => \E i \in DOMAIN Tail(q) : Tail(q)[i] = x
<1>1. /\ Tail(q) \in Seq(Requests) /\ Head(q) \in Requests /\ Head(q) = q[1]
      /\ DOMAIN q = 1..Len(q) /\ Len(q) \in Nat
      /\ DOMAIN Tail(q) = 1..(Len(q) - 1)
      /\ \A i \in 1..(Len(q) - 1) : Tail(q)[i] = q[i + 1]
  OBVIOUS
<1>2. \A i \in DOMAIN q : i # 1 => i - 1 \in DOMAIN Tail(q) /\ Tail(q)[i - 1] = q[i]
  BY <1>1
<1>3. QED BY <1>1, <1>2

\* Nothing new is to be removed and no request is taken.
LEMMA RemovalsStay ==
  ASSUME RemovalsCommitted, queue \in Seq(Requests),
         removing' \subseteq removing, ctxRemoving' \subseteq ctxRemoving,
         queue' = queue \/ \E r \in Requests : queue' = Append(queue, r)
  PROVE  RemovalsCommitted'
<1>1. \A x : (\E i \in DOMAIN queue : queue[i] = x)
               => \E i \in DOMAIN queue' : queue'[i] = x
  BY RequestAppended
<1>2. removing' # {} => removing # {} OBVIOUS
<1>3. ctxRemoving' # {} => ctxRemoving # {} OBVIOUS
<1>4. QED BY <1>1, <1>2, <1>3 DEF RemovalsCommitted

\* At start nothing is listed and /proc is still to be read.
LEMMA InitListInv == Init => ListInv
<1> SUFFICES ASSUME Init PROVE ListInv OBVIOUS
<1>1. KernelOK
  <2>1. proc \in [Pid -> Process] BY DEF Init, Process
  <2>2. <<>> \in Seq(Event) /\ Len(<<>>) = 0 OBVIOUS
  <2>3. 0 \in 0..MaxQueue /\ 0 <= RxBufferSize BY ProcRegistryAssumption
  <2>4. QED BY <2>1, <2>2, <2>3 DEF Init, KernelOK, Buffer
<1>2. ControlOK
  <2>1. CASE options.ReadProcAtInit
    BY <2>1, ProcRegistryAssumption DEF Init, ControlOK
  <2>2. CASE ~options.ReadProcAtInit BY <2>2 DEF Init, ControlOK
  <2>3. QED BY <2>1, <2>2
<1>3. ListsOK /\ ListedPids = {} BY DEF Init, ListsOK, ListedPids
<1>4. options \in Settings /\ queue \in Seq(Requests) BY DEF Init
<1>5. NotYetListed BY <1>3 DEF NotYetListed
<1>6. RemovalsCommitted BY DEF Init, RemovalsCommitted
<1>7. ReadsOK BY ProcRegistryAssumption DEF Init, ReadsOK
<1>8. QED BY <1>1, <1>2, <1>3, <1>4, <1>5, <1>6, <1>7, TypeParts DEF ListInv

\* What the connector reports keeps within the socket.
LEMMA EmitTyped ==
  ASSUME KernelOK, NEW what \in {"FORK", "EXEC", "EXIT"}, NEW p \in Pid, Emit(what, p)
  PROVE  /\ events' \in Seq(Event) /\ Len(events') <= RxBufferSize
         /\ buffer' \in Buffer /\ missed' \subseteq Pid
<1> DEFINE ev == [what |-> what, pid |-> p]
<1>1. ev \in Event BY DEF Event
<1>2. Append(events, ev) \in Seq(Event) /\ Len(Append(events, ev)) = Len(events) + 1
  BY <1>1 DEF KernelOK
<1>3. Len(events) \in Nat /\ RxBufferSize \in Nat
  BY ProcRegistryAssumption DEF KernelOK
<1>4. CASE UNCHANGED <<events, buffer, missed>> BY <1>4 DEF KernelOK
<1>5. CASE Room /\ events' = Append(events, ev) /\ UNCHANGED <<buffer, missed>>
  BY <1>2, <1>3, <1>5 DEF KernelOK, Room
<1>6. CASE /\ buffer' = IF buffer = "ok" THEN "overrun" ELSE buffer
           /\ missed' = IF buffer = "congested" /\ what = "FORK" THEN missed \cup {p}
                                                                 ELSE missed
           /\ UNCHANGED events
  BY <1>6 DEF KernelOK, Buffer
<1>7. QED BY <1>4, <1>5, <1>6 DEF Emit

\* A step of the kernel leaves the program alone.
LEMMA KernelStep ==
  ASSUME ListInv, UNCHANGED <<options, pc, todo, lists, queue>>, KernelOK', ReadsOK'
  PROVE  ListInv'
<1>1. ControlOK' /\ ListsOK' /\ UNCHANGED <<options, queue>> /\ ListedPids' = ListedPids
  BY TypeParts DEF ListInv, lists, ControlOK, ListsOK, ListedPids
<1>2. TypeOK'
  BY <1>1, TypeParts DEF ListInv, TypeOK, KernelOK, ReadsOK, ControlOK, ListsOK, Requests
<1>3. NotYetListed' BY <1>1 DEF ListInv, NotYetListed
<1>4. RemovalsCommitted' BY DEF ListInv, RemovalsCommitted, lists
<1>5. QED BY <1>2, <1>3, <1>4 DEF ListInv


\* The parts of the first invariant after a step.
LEMMA ListInvAfter ==
  ASSUME options' \in Settings, KernelOK', ReadsOK', ControlOK', ListsOK',
         queue' \in Seq(Requests), NotYetListed', RemovalsCommitted'
  PROVE  ListInv'
  BY DEF ListInv, TypeOK, KernelOK, ReadsOK, ControlOK, ListsOK, Requests

\* A recv gives the buffer one of its states.
LEMMA BufferTyped ==
  ASSUME NEW left, BufferAfter(left), buffer \in Buffer
  PROVE  buffer' \in Buffer
<1>1. buffer' = IF left = <<>> THEN "ok"
                ELSE IF buffer = "overrun" THEN "congested" ELSE buffer
  BY DEF BufferAfter
<1>2. QED BY <1>1 DEF Buffer

\* The first event of a socket that is not empty.
LEMMA EventTaken ==
  ASSUME events \in Seq(Event), Len(events) <= RxBufferSize, events # <<>>
  PROVE  /\ Head(events) \in Event /\ Head(events).pid \in Pid
         /\ Tail(events) \in Seq(Event) /\ Len(Tail(events)) <= RxBufferSize
<1>1. /\ Head(events) \in Event /\ Tail(events) \in Seq(Event)
      /\ Len(Tail(events)) = Len(events) - 1 /\ Len(events) \in Nat
  OBVIOUS
<1>2. RxBufferSize \in Nat BY ProcRegistryAssumption
<1>3. QED BY <1>1, <1>2 DEF Event

\* The callback of ProcEvent, for lost events and for each kind of event.
LEMMA ProcEventListInv ==
  ASSUME ListInv, ProcEventCallback, UNCHANGED options
  PROVE  ListInv'
<1> USE TypeParts DEF ListInv
<1>1. CASE resync < MaxQueue /\ EventsDropped
  <2>1. UNCHANGED <<events, proc, missed, pc, todo, lists, queue>> BY <1>1 DEF EventsDropped
  <2>2. buffer' \in Buffer BY <1>1, BufferTyped DEF EventsDropped, KernelOK
  <2>3. resync' \in 0..MaxQueue
    BY <1>1, ProcRegistryAssumption DEF EventsDropped, KernelOK
  <2>4. KernelOK' BY <2>1, <2>2, <2>3 DEF KernelOK
  <2>5. ReadsOK' BY <1>1 DEF EventsDropped, ReadsOK
  <2>6. QED BY <2>1, <2>4, <2>5, KernelStep
<1>2. ASSUME events # <<>>, EventReceived(Head(events)) PROVE ListInv'
  <2> DEFINE p == Head(events).pid
  <2>1. /\ Head(events) \in Event /\ p \in Pid
        /\ Tail(events) \in Seq(Event) /\ Len(Tail(events)) <= RxBufferSize
    BY <1>2, EventTaken DEF KernelOK
  <2>2. buffer' \in Buffer BY <1>2, BufferTyped DEF EventReceived, KernelOK
  <2>3. KernelOK' BY <1>2, <2>1, <2>2 DEF EventReceived, KernelOK
  <2>4. ControlOK' /\ pc = "loop" /\ pc' = "loop"
    BY <1>2 DEF EventReceived, ControlOK, ProcEventCallback
  <2>5. NotYetListed' BY <2>4 DEF NotYetListed
  <2>6. ListsOK' /\ removing' \subseteq removing /\ ctxRemoving' \subseteq ctxRemoving
        /\ UNCHANGED queue
    <3>1. CASE addProcEntry(p) /\ UNCHANGED queue
      BY <2>1, <3>1, AddKeepsLists DEF KernelOK
    <3>2. CASE updProcEntry(p) /\ UNCHANGED queue
      BY <2>1, <3>2, UpdKeepsLists DEF KernelOK
    <3>3. CASE remProcEntrySync(p)
      BY <3>3, CommitKeepsLists DEF remProcEntrySync
    <3>4. QED BY <1>2, <3>1, <3>2, <3>3 DEF EventReceived
  <2>7. RemovalsCommitted' BY <2>6, RemovalsStay
  <2>8. ReadsOK' BY <1>2, <2>1, ReadsFollow DEF EventReceived
  <2>9. QED BY <2>3, <2>4, <2>5, <2>6, <2>7, <2>8, ListInvAfter
<1>3. QED BY <1>1, <1>2 DEF ProcEventCallback

\* An iteration over /proc comes to p.
LEMMA ScanListInv ==
  ASSUME ListInv, NEW p \in Pid, Scan(p), UNCHANGED options
  PROVE  ListInv'
<1> USE TypeParts DEF ListInv
<1>1. KernelOK' BY DEF Scan, kernel, KernelOK
<1>2. pc = "init" => p \notin ListedPids BY DEF Scan, NotYetListed
<1>3. addProcEntry(p) \/ (initProcEntry(p) /\ p \notin ListedPids) BY <1>2 DEF Scan
<1>4. /\ ListsOK'
      /\ \/ UNCHANGED <<procList, removing>>
         \/ Visible(p) /\ ListedPids' = {p} \cup (ListedPids \ (removing \ removing'))
      /\ removing' \subseteq removing /\ ctxRemoving' \subseteq ctxRemoving
  BY <1>3, AddKeepsLists DEF KernelOK
<1>5. ListedPids' \subseteq {p} \cup ListedPids
  BY <1>4 DEF ListedPids
<1>6. ListedPids' \subseteq Pid /\ (procList' # {} => ListedPids' # {})
  BY <1>4 DEF ListsOK, ListedPids, Entry
<1>7. ControlOK' /\ NotYetListed'
  <2>1. CASE todo # {p} /\ todo' = todo \ {p} /\ UNCHANGED pc
    BY <2>1, <1>5 DEF ControlOK, NotYetListed, Scan
  <2>2. CASE procList' # {} /\ todo' = {e.pid : e \in procList'} /\ pc' = "update"
    BY <2>2, <1>6 DEF ControlOK, NotYetListed, ListedPids
  <2>3. CASE todo' = {} /\ pc' = "loop" BY <2>3 DEF ControlOK, NotYetListed
  <2>4. QED BY <2>1, <2>2, <2>3 DEF Scan
<1>8. UNCHANGED queue BY DEF Scan
<1>9. RemovalsCommitted' BY <1>4, <1>8, RemovalsStay
<1>10. ReadsOK' BY ReadsFollow DEF Scan
<1>11. QED BY <1>1, <1>4, <1>7, <1>8, <1>9, <1>10, ListInvAfter

\* The Pace lane comes to the entry of p; a removal it asks for has its commit.
LEMMA UpdateListInv ==
  ASSUME ListInv, NEW p \in Pid, updateProcInfo(p), UNCHANGED options
  PROVE  ListInv'
<1> USE TypeParts DEF ListInv
<1>1. KernelOK' BY DEF updateProcInfo, kernel, KernelOK
<1>2. ControlOK' /\ NotYetListed' BY DEF updateProcInfo, ControlOK, NotYetListed
<1>3. ReadsOK' BY ReadsFollow
<1>4. CASE UNCHANGED <<lists, queue>>
  <2>1. ListsOK' BY <1>4 DEF ListsOK, ListedPids, lists
  <2>2. RemovalsCommitted' BY <1>4 DEF RemovalsCommitted, lists
  <2>3. QED BY <1>1, <1>2, <1>3, <1>4, <2>1, <2>2, ListInvAfter
<1>5. CASE remProcEntryAsync(p)
  <2>1. ListsOK' BY <1>5 DEF ListsOK, ListedPids, remProcEntryAsync
  <2>2. /\ queue' = Append(queue, "CommitProcList")
        /\ "CommitProcList" \in Requests /\ UNCHANGED ctxRemoving
    BY <1>5 DEF remProcEntryAsync, Requests
  <2>3. /\ queue' \in Seq(Requests)
        /\ \E i \in DOMAIN queue' : queue'[i] = "CommitProcList"
        /\ \A x : (\E i \in DOMAIN queue : queue[i] = x)
                    => \E i \in DOMAIN queue' : queue'[i] = x
    BY <2>2, RequestAppended
  <2>4. RemovalsCommitted' BY <2>2, <2>3 DEF RemovalsCommitted
  <2>5. QED BY <1>1, <1>2, <1>3, <2>1, <2>3, <2>4, ListInvAfter
<1>6. QED BY <1>4, <1>5 DEF updateProcInfo

\* A request is handled.
LEMMA RequestListInv ==
  ASSUME ListInv, requestHandler, UNCHANGED options
  PROVE  ListInv'
<1> USE TypeParts DEF ListInv
<1>1. KernelOK' /\ ReadsOK' /\ ControlOK' /\ pc' = "loop"
  BY DEF requestHandler, kernel, KernelOK, ReadsOK, ControlOK
<1>2. NotYetListed' BY <1>1 DEF NotYetListed
<1>3. /\ Head(queue) \in Requests /\ Tail(queue) \in Seq(Requests)
      /\ \A x : x # Head(queue) /\ (\E i \in DOMAIN queue : queue[i] = x)
                  => \E i \in DOMAIN Tail(queue) : Tail(queue)[i] = x
  BY RequestTaken DEF requestHandler
<1>4. CASE Head(queue) = "CommitProcList" /\ doCommitProcList
  <2>1. ListsOK' BY <1>4, CommitKeepsLists DEF doCommitProcList
  <2>2. /\ queue' = Tail(queue) /\ removing' = {} /\ UNCHANGED ctxRemoving
    BY <1>4 DEF doCommitProcList
  <2>3. "CommitContextList" # Head(queue) BY <1>4
  <2>4. RemovalsCommitted' BY <1>3, <2>2, <2>3 DEF RemovalsCommitted
  <2>5. QED BY <1>1, <1>2, <1>3, <2>1, <2>2, <2>4, ListInvAfter
<1>5. CASE Head(queue) = "CommitContextList" /\ doCommitContextList
  <2>1. ListsOK' BY <1>5 DEF doCommitContextList, ListsOK, ListedPids
  <2>2. /\ queue' = Tail(queue) /\ ctxRemoving' = {} /\ UNCHANGED removing
    BY <1>5 DEF doCommitContextList
  <2>3. "CommitProcList" # Head(queue) BY <1>5
  <2>4. RemovalsCommitted' BY <1>3, <2>2, <2>3 DEF RemovalsCommitted
  <2>5. QED BY <1>1, <1>2, <1>3, <2>1, <2>2, <2>4, ListInvAfter
<1>6. CASE Head(queue) = "CollectAndSendContextInfo" /\ doCollectAndSendContextInfo
  <2>1. ListsOK' BY <1>6 DEF doCollectAndSendContextInfo, ListsOK, ListedPids
  <2>2. /\ queue' = Append(Tail(queue), "CommitContextList") /\ UNCHANGED removing
        /\ "CommitContextList" \in Requests
    BY <1>6 DEF doCollectAndSendContextInfo, Requests
  <2> DEFINE rest == Tail(queue)
  <2>3. /\ queue' \in Seq(Requests)
        /\ \E i \in DOMAIN queue' : queue'[i] = "CommitContextList"
        /\ \A x : (\E i \in DOMAIN rest : rest[i] = x)
                    => \E i \in DOMAIN queue' : queue'[i] = x
    <3>1. rest \in Seq(Requests) BY <1>3
    <3>2. queue' = Append(rest, "CommitContextList") BY <2>2
    <3>3. "CommitContextList" \in Requests BY DEF Requests
    <3> HIDE DEF rest
    <3>4. /\ Append(rest, "CommitContextList") \in Seq(Requests)
          /\ \E i \in DOMAIN Append(rest, "CommitContextList") :
               Append(rest, "CommitContextList")[i] = "CommitContextList"
          /\ \A x : (\E i \in DOMAIN rest : rest[i] = x)
                 => \E i \in DOMAIN Append(rest, "CommitContextList") :
                      Append(rest, "CommitContextList")[i] = x
      BY <3>1, <3>3, RequestAppended
    <3>5. QED BY <3>2, <3>4
  <2>4. "CommitProcList" # Head(queue) BY <1>6
  <2>5. RemovalsCommitted' BY <1>3, <2>2, <2>3, <2>4 DEF RemovalsCommitted
  <2>6. QED BY <1>1, <1>2, <2>1, <2>3, <2>5, ListInvAfter
<1>7. QED BY <1>4, <1>5, <1>6 DEF requestHandler

\* Every step keeps the first invariant.
LEMMA NextListInv == ListInv /\ [Next]_vars => ListInv'
<1> SUFFICES ASSUME ListInv, [Next]_vars PROVE ListInv' OBVIOUS
<1> USE TypeParts DEF ListInv
<1>1. CASE UNCHANGED vars
  <2>1. UNCHANGED <<options, pc, todo, lists, queue>> /\ KernelOK' /\ ReadsOK'
    BY <1>1 DEF vars, changing, kernel, KernelOK, ReadsOK
  <2>2. QED BY <2>1, KernelStep
<1>2. ASSUME NEW p \in Pid, NEW n \in Name, NEW x \in Context, Fork(p, n, x),
             UNCHANGED options
      PROVE  ListInv'
  <2>1. proc' \in [Pid -> Process] BY <1>2 DEF Fork, KernelOK, Process
  <2>2. KernelOK' BY <1>2, <2>1, EmitTyped DEF Fork, KernelOK
  <2>3. QED BY <1>2, <2>2, KernelStep DEF Fork, ReadsOK
<1>3. ASSUME NEW p \in Pid, NEW n \in Name, Exec(p, n), UNCHANGED options
      PROVE  ListInv'
  <2>1. proc' \in [Pid -> Process] BY <1>3 DEF Exec, KernelOK, Process
  <2>2. KernelOK' BY <1>3, <2>1, EmitTyped DEF Exec, KernelOK
  <2>3. QED BY <1>3, <2>2, KernelStep DEF Exec, ReadsOK
<1>4. ASSUME NEW p \in Pid, Exit(p), UNCHANGED options PROVE ListInv'
  <2>1. proc' \in [Pid -> Process] BY <1>4 DEF Exit, KernelOK, Process
  <2>2. KernelOK' BY <1>4, <2>1, EmitTyped DEF Exit, KernelOK
  <2>3. ReadsOK' BY <1>4, ProcRegistryAssumption DEF Exit, ReadsOK
  <2>4. QED BY <1>4, <2>2, <2>3, KernelStep DEF Exit
<1>5. ASSUME NEW p \in Pid, Reap(p), UNCHANGED options PROVE ListInv'
  <2>1. proc' \in [Pid -> Process] BY <1>5 DEF Reap, KernelOK, Process
  <2>2. KernelOK' BY <1>5, <2>1 DEF Reap, KernelOK
  <2>3. QED BY <1>5, <2>2, KernelStep DEF Reap, ReadsOK
<1>6. ASSUME ProcEventLost, UNCHANGED options PROVE ListInv'
  <2>1. /\ KernelOK' /\ ReadsOK' /\ ControlOK' /\ NotYetListed'
        /\ UNCHANGED <<lists, queue>>
    BY <1>6 DEF ProcEventLost, kernel, KernelOK, ReadsOK, ControlOK, NotYetListed
  <2>2. ListsOK' BY <2>1 DEF lists, ListsOK, ListedPids
  <2>3. RemovalsCommitted' BY <2>1 DEF lists, RemovalsCommitted
  <2>4. QED BY <1>6, <2>1, <2>2, <2>3, ListInvAfter
<1>7. ASSUME NEW lane \in {"Fast", "Pace", "Slow"}, LaneTimer(lane), UNCHANGED options
      PROVE  ListInv'
  <2>1. KernelOK' /\ ReadsOK' /\ UNCHANGED <<lists, queue>>
    BY <1>7 DEF LaneTimer, kernel, KernelOK, ReadsOK
  <2>2. ListsOK' BY <2>1 DEF lists, ListsOK, ListedPids
  <2>3. ListedPids \subseteq Pid /\ (procList # {} => ListedPids # {})
    BY DEF ListsOK, ListedPids, Entry
  <2>4. ControlOK' /\ NotYetListed'
    BY <1>7, <2>3, ProcRegistryAssumption DEF LaneTimer, ControlOK, NotYetListed
  <2>5. RemovalsCommitted' BY <2>1 DEF lists, RemovalsCommitted
  <2>6. QED BY <1>7, <2>1, <2>2, <2>4, <2>5, ListInvAfter
<1>8. ASSUME doUpdateProcessList, UNCHANGED options PROVE ListInv'
  <2>1. UNCHANGED <<lists, queue>> BY <1>8 DEF doUpdateProcessList
  <2>2. KernelOK' /\ ReadsOK'
    BY <1>8, ProcRegistryAssumption DEF doUpdateProcessList, kernel, KernelOK, ReadsOK
  <2>3. ListsOK' BY <2>1 DEF lists, ListsOK, ListedPids
  <2>4. ControlOK' /\ NotYetListed'
    BY <1>8, ProcRegistryAssumption DEF doUpdateProcessList, ControlOK, NotYetListed
  <2>5. RemovalsCommitted' BY <2>1 DEF lists, RemovalsCommitted
  <2>6. QED BY <1>8, <2>1, <2>2, <2>3, <2>4, <2>5, ListInvAfter
<1>9. ASSUME GetContextInfo, UNCHANGED options PROVE ListInv'
  <2>1. UNCHANGED <<kernel, unread, resync, pc, todo, lists>>
        /\ queue' = Append(queue, "CollectAndSendContextInfo")
    BY <1>9 DEF GetContextInfo
  <2>2. "CollectAndSendContextInfo" \in Requests BY DEF Requests
  <2>3. KernelOK' /\ ReadsOK' /\ ControlOK' BY <2>1 DEF kernel, KernelOK, ReadsOK, ControlOK
  <2>4. ListsOK' /\ NotYetListed' BY <2>1 DEF lists, ListsOK, ListedPids, NotYetListed
  <2>5. queue' \in Seq(Requests) BY <2>1, <2>2, RequestAppended
  <2>6. RemovalsCommitted' BY <2>1, <2>2, RemovalsStay DEF lists
  <2>7. QED BY <1>9, <2>3, <2>4, <2>5, <2>6, ListInvAfter
<1>10. QED
  BY <1>1, <1>2, <1>3, <1>4, <1>5, <1>6, <1>7, <1>8, <1>9,
     ScanListInv, UpdateListInv, ProcEventListInv, RequestListInv DEF Next, Steps

\* TypeOK holds in every reachable state.
THEOREM TypeCorrect == Spec => []TypeOK
<1>1. ListInv => TypeOK BY DEF ListInv
<1>2. QED BY <1>1, InitListInv, NextListInv, PTL DEF Spec

\* A removal asked for of either list always has its commit queued.
THEOREM RemovalsAreCommitted == Spec => []RemovalsCommitted
<1>1. ListInv => RemovalsCommitted BY DEF ListInv
<1>2. QED BY <1>1, InitListInv, NextListInv, PTL DEF Spec

-----------------------------------------------------------------------------
(* The events about one process *)

\* The events about one process in a queue.
Ev(what, p) == [what |-> what, pid |-> p]

\* An event about p is in a queue.
Queued(what, p, q) == \E i \in DOMAIN q : q[i] = Ev(what, p)

\* Behind every event a about p there is an event b about it.
Follows(a, b, p, q) ==
  \A i \in DOMAIN q : q[i] = Ev(a, p) => \E j \in DOMAIN q : j > i /\ q[j] = Ev(b, p)

\* An event appended is queued, with those that were.
LEMMA QueuedAppend ==
  ASSUME NEW q \in Seq(Event), NEW e \in Event, NEW what, NEW p
  PROVE  Queued(what, p, Append(q, e)) <=> Queued(what, p, q) \/ e = Ev(what, p)
<1> DEFINE t == Append(q, e)
<1>1. /\ DOMAIN t = 1..(Len(q) + 1) /\ DOMAIN q = 1..Len(q) /\ Len(q) \in Nat
      /\ \A i \in 1..Len(q) : t[i] = q[i]
      /\ t[Len(q) + 1] = e
  OBVIOUS
<1> HIDE DEF t
<1>2. \A i \in DOMAIN q : i \in DOMAIN t /\ t[i] = q[i] BY <1>1
<1>3. \A i \in DOMAIN t : i \in DOMAIN q \/ i = Len(q) + 1 BY <1>1
<1>4. Len(q) + 1 \in DOMAIN t BY <1>1
<1>5. Queued(what, p, t) <=> Queued(what, p, q) \/ e = Ev(what, p)
  BY <1>1, <1>2, <1>3, <1>4 DEF Queued
<1>6. QED BY <1>5 DEF t

\* An event b appended is behind every event a; another one only must not be an
\* event a itself.
LEMMA FollowsAppend ==
  ASSUME NEW q \in Seq(Event), NEW e \in Event, NEW a, NEW b, NEW p, a # b,
         e = Ev(b, p) \/ (Follows(a, b, p, q) /\ e # Ev(a, p))
  PROVE  Follows(a, b, p, Append(q, e))
<1> DEFINE t == Append(q, e)
<1>1. /\ DOMAIN t = 1..(Len(q) + 1) /\ DOMAIN q = 1..Len(q) /\ Len(q) \in Nat
      /\ \A i \in 1..Len(q) : t[i] = q[i]
      /\ t[Len(q) + 1] = e
  OBVIOUS
<1> HIDE DEF t
<1>2. SUFFICES ASSUME NEW i \in DOMAIN t, t[i] = Ev(a, p)
               PROVE  \E j \in DOMAIN t : j > i /\ t[j] = Ev(b, p)
  BY DEF Follows, t
<1>3. CASE e = Ev(b, p)
  <2>1. Ev(a, p) # Ev(b, p) BY DEF Ev
  <2>2. i # Len(q) + 1 BY <1>1, <1>2, <1>3, <2>1
  <2>3. Len(q) + 1 > i /\ Len(q) + 1 \in DOMAIN t BY <1>1, <1>2, <2>2
  <2>4. QED BY <1>1, <1>3, <2>3
<1>4. CASE Follows(a, b, p, q) /\ e # Ev(a, p)
  <2>1. i # Len(q) + 1 BY <1>1, <1>2, <1>4
  <2>2. i \in DOMAIN q /\ q[i] = Ev(a, p) BY <1>1, <1>2, <2>1
  <2>3. PICK j \in DOMAIN q : j > i /\ q[j] = Ev(b, p) BY <1>4, <2>2 DEF Follows
  <2>4. j \in DOMAIN t /\ t[j] = q[j] BY <1>1, <2>3
  <2>5. QED BY <2>3, <2>4
<1>5. QED BY <1>3, <1>4

\* What the rest of the queue has when the head is taken.
LEMMA EventsTail ==
  ASSUME NEW q \in Seq(Event), q # <<>>
  PROVE  /\ \A what, p : Queued(what, p, q)
                            <=> Head(q) = Ev(what, p) \/ Queued(what, p, Tail(q))
         /\ \A a, b, p : Follows(a, b, p, q) => Follows(a, b, p, Tail(q))
         /\ \A a, b, p : Follows(a, b, p, q) /\ Head(q) = Ev(a, p)
                           => Queued(b, p, Tail(q))
<1> DEFINE t == Tail(q)
<1>1. /\ DOMAIN t = 1..(Len(q) - 1) /\ DOMAIN q = 1..Len(q) /\ Len(q) \in Nat \ {0}
      /\ \A i \in 1..(Len(q) - 1) : t[i] = q[i + 1]
      /\ Head(q) = q[1]
  OBVIOUS
<1> HIDE DEF t
<1>2. \A i \in DOMAIN t : i + 1 \in DOMAIN q /\ t[i] = q[i + 1] /\ i + 1 > i BY <1>1
<1>3. \A i \in DOMAIN q : i # 1 => i - 1 \in DOMAIN t /\ t[i - 1] = q[i] BY <1>1
<1>4. 1 \in DOMAIN q BY <1>1
<1>5. \A what, p : Queued(what, p, q) <=> Head(q) = Ev(what, p) \/ Queued(what, p, t)
  BY <1>1, <1>2, <1>3, <1>4 DEF Queued
<1>6. ASSUME NEW a, NEW b, NEW p, Follows(a, b, p, q),
             NEW i \in DOMAIN t, t[i] = Ev(a, p)
      PROVE  \E j \in DOMAIN t : j > i /\ t[j] = Ev(b, p)
  <2>1. PICK k \in DOMAIN q : k > i + 1 /\ q[k] = Ev(b, p)
    BY <1>2, <1>6 DEF Follows
  <2>2. k # 1 /\ k - 1 > i BY <1>1, <1>6, <2>1
  <2>3. QED BY <1>3, <2>1, <2>2
<1>7. ASSUME NEW a, NEW b, NEW p, Follows(a, b, p, q), Head(q) = Ev(a, p)
      PROVE  Queued(b, p, t)
  <2>1. PICK k \in DOMAIN q : k > 1 /\ q[k] = Ev(b, p) BY <1>1, <1>4, <1>7 DEF Follows
  <2>2. k # 1 BY <1>1, <2>1
  <2>3. QED BY <1>3, <2>1, <2>2 DEF Queued
<1>8. QED BY <1>5, <1>6, <1>7 DEF Follows, t

\* EventQueued in these terms.
LEMMA QueuedEvent ==
  ASSUME events \in Seq(Event), NEW p
  PROVE  EventQueued(p) <=> \/ Queued("FORK", p, events)
                            \/ Queued("EXEC", p, events)
                            \/ Queued("EXIT", p, events)
<1>1. \A i \in DOMAIN events : events[i] \in Event OBVIOUS
<1>2. \A e \in Event : e.pid = p <=> e \in {Ev("FORK", p), Ev("EXEC", p), Ev("EXIT", p)}
  BY DEF Event, Ev
<1>3. QED BY <1>1, <1>2 DEF EventQueued, Queued

\* An event is one of three kinds, about one process.
LEMMA EventKinds ==
  /\ \A p \in Pid : {Ev("FORK", p), Ev("EXEC", p), Ev("EXIT", p)} \subseteq Event
  /\ \A a, b, p, r : Ev(a, p) = Ev(b, r) <=> a = b /\ p = r
  /\ \A e \in Event : e = Ev(e.what, e.pid)
  BY DEF Event, Ev

-----------------------------------------------------------------------------
(* What the events promise about a process *)

\* The settings in which the kernel drops no event.
Reliable == options.UpdateOnProcEvent /\ ~options.EventsLost

\* The settings in which no pid is used again while events may be lost.
Traceable == options.UpdateOnProcEvent /\ ~(options.EventsLost /\ options.PidReuse)

\* Nothing is known of a pid that was never used.
FreeUnknown ==
  \A p \in Pid : proc[p].state = "free" => p \notin ListedPids /\ ~EventQueued(p)

\* With events the list is not scanned again on a timer.
EventsOnly == options.UpdateOnProcEvent => pc # "paceScan"

\* Where no event is lost there is nothing to make up for.
NoScan == Reliable => buffer = "ok" /\ resync = 0 /\ pc # "scan"

\* p ended: its EXIT is behind whatever lists it, or is yet to.
ExitComes(p) ==
  /\ p \in ListedPids => Queued("EXIT", p, events)
  /\ Follows("FORK", "EXIT", p, events)
  /\ pc = "init" /\ proc[p].state # "free" => Queued("EXIT", p, events)

\* That is so of every process that ended, where no event is lost.
ExitsReported ==
  Reliable => \A p \in Pid : proc[p].state # "running" => ExitComes(p)

\* p runs: the EXIT of an earlier process is before its FORK.  A removal that is
\* pending is of the earlier one, or of one that could not be read.
ForkComes(p) ==
  /\ Follows("EXIT", "FORK", p, events)
  /\ p \in removing => Queued("EXIT", p, events) \/ Unread(p)

\* That is so of every process that runs.
ForksReported ==
  Traceable => \A p \in Pid : proc[p].state = "running" => ForkComes(p)

\* What the queue of events promises about the processes.
EventInv == FreeUnknown /\ EventsOnly /\ NoScan /\ ExitsReported /\ ForksReported

\* The connector reports the event, or drops it where events are lost.
LEMMA EmitEvent ==
  ASSUME NEW what, NEW p, Emit(what, p)
  PROVE  /\ \/ events' = Append(events, Ev(what, p))
            \/ events' = events /\ (options.UpdateOnProcEvent => options.EventsLost)
         /\ Reliable => UNCHANGED buffer
  BY DEF Emit, Ev, Reliable

\* At start no event was reported and nothing is listed.
LEMMA InitEventInv == Init => EventInv
<1> SUFFICES ASSUME Init PROVE EventInv OBVIOUS
<1>1. events = <<>> /\ procList = {} /\ removing = {} /\ buffer = "ok" /\ resync = 0
      /\ pc \in {"init", "loop"}
  BY DEF Init
<1>2. ListedPids = {} /\ DOMAIN events = {} BY <1>1 DEF ListedPids
<1>3. FreeUnknown BY <1>2 DEF FreeUnknown, EventQueued
<1>4. EventsOnly /\ NoScan BY <1>1 DEF EventsOnly, NoScan
<1>5. \A a, b, p : Follows(a, b, p, events) BY <1>2 DEF Follows
<1>6. \A p \in Pid : proc[p].state \in {"free", "running"} BY DEF Init
<1>7. ExitsReported BY <1>2, <1>5, <1>6 DEF ExitsReported, ExitComes
<1>8. ForksReported BY <1>1, <1>5 DEF ForksReported, ForkComes
<1>9. QED BY <1>3, <1>4, <1>7, <1>8 DEF EventInv

\* A process the step is not about keeps what is known of it: the event that may
\* be reported is about another one.
LEMMA OthersKept ==
  ASSUME KernelOK, NEW p \in Pid, NEW what \in {"FORK", "EXEC", "EXIT"},
         events' = events \/ events' = Append(events, Ev(what, p)),
         UNCHANGED <<procList, removing, pc>>,
         NEW r \in Pid, r # p, proc'[r] = proc[r], unread'[r] = unread[r]
  PROVE  /\ EventQueued(r)' = EventQueued(r)
         /\ ExitComes(r) => ExitComes(r)'
         /\ ForkComes(r) => ForkComes(r)'
<1>1. events \in Seq(Event) /\ Ev(what, p) \in Event BY EventKinds DEF KernelOK
<1>2. \A w : Ev(what, p) # Ev(w, r) BY EventKinds
<1>3. events' \in Seq(Event) BY <1>1
<1>4. \A w : Queued(w, r, events') <=> Queued(w, r, events)
  <2>1. SUFFICES ASSUME NEW w PROVE Queued(w, r, events') <=> Queued(w, r, events)
    OBVIOUS
  <2>2. Queued(w, r, Append(events, Ev(what, p)))
          <=> Queued(w, r, events) \/ Ev(what, p) = Ev(w, r)
    BY <1>1, QueuedAppend
  <2>3. QED BY <1>2, <2>2
<1>5. \A a, b : a # b /\ Follows(a, b, r, events) => Follows(a, b, r, events')
  BY <1>1, <1>2, FollowsAppend
<1>6. EventQueued(r)' <=> \/ Queued("FORK", r, events')
                          \/ Queued("EXEC", r, events')
                          \/ Queued("EXIT", r, events')
  <2>1. \A i \in DOMAIN events' : events'[i] \in Event BY <1>3
  <2>2. \A e \in Event : e.pid = r <=> e \in {Ev("FORK", r), Ev("EXEC", r), Ev("EXIT", r)}
    BY DEF Event, Ev
  <2>3. QED BY <2>1, <2>2 DEF EventQueued, Queued
<1>7. EventQueued(r)' <=> EventQueued(r) BY <1>1, <1>4, <1>6, QueuedEvent
<1>8. ListedPids' = ListedPids BY DEF ListedPids
<1>9. ExitComes(r) => ExitComes(r)' BY <1>4, <1>5, <1>8 DEF ExitComes
<1>10. ForkComes(r) => ForkComes(r)' BY <1>4, <1>5 DEF ForkComes, Unread
<1>11. QED BY <1>7, <1>9, <1>10 DEF EventQueued

\* A step of the kernel about p: what must be shown is what it makes of p.
LEMMA KernelStepEventInv ==
  ASSUME ListInv, EventInv, NEW p \in Pid, NEW what \in {"FORK", "EXEC", "EXIT"},
         Emit(what, p) \/ UNCHANGED <<events, buffer>>,
         UNCHANGED <<options, resync, pc, todo, lists, queue>>,
         \A r \in Pid : r # p => proc'[r] = proc[r] /\ unread'[r] = unread[r],
         proc'[p].state # "free",
         Reliable /\ proc'[p].state # "running" => ExitComes(p)',
         Traceable /\ proc'[p].state = "running" => ForkComes(p)'
  PROVE  EventInv'
<1> USE DEF EventInv
<1>1. KernelOK BY TypeParts DEF ListInv
<1>2. events' = events \/ events' = Append(events, Ev(what, p)) BY EmitEvent
<1>3. UNCHANGED <<procList, removing, pc>> /\ ListedPids' = ListedPids
  BY DEF lists, ListedPids
<1>4. ASSUME NEW r \in Pid, r # p
      PROVE  /\ EventQueued(r)' = EventQueued(r)
             /\ ExitComes(r) => ExitComes(r)'
             /\ ForkComes(r) => ForkComes(r)'
             /\ proc'[r] = proc[r]
  BY <1>1, <1>2, <1>3, <1>4, OthersKept
<1>5. FreeUnknown' BY <1>3, <1>4 DEF FreeUnknown
<1>6. EventsOnly' BY <1>3 DEF EventsOnly
<1>7. NoScan'
  <2>1. Reliable => UNCHANGED buffer BY EmitEvent
  <2>2. QED BY <1>3, <2>1 DEF NoScan, Reliable
<1>8. Reliable' = Reliable /\ Traceable' = Traceable BY DEF Reliable, Traceable
<1>9. ExitsReported' BY <1>4, <1>8 DEF ExitsReported
<1>10. ForksReported' BY <1>4, <1>8 DEF ForksReported
<1>11. QED BY <1>5, <1>6, <1>7, <1>9, <1>10

\* A process is forked: for a pid that was used before, the FORK is reported
\* behind the EXIT of the last one.
LEMMA ForkEventInv ==
  ASSUME ListInv, EventInv, NEW p \in Pid, NEW n \in Name, NEW x \in Context, Fork(p, n, x),
         UNCHANGED options
  PROVE  EventInv'
<1>1. KernelOK /\ removing \subseteq ListedPids BY TypeParts DEF ListInv, ListsOK
<1>2. events \in Seq(Event) /\ Ev("FORK", p) \in Event BY <1>1, EventKinds DEF KernelOK
<1>3. Emit("FORK", p) /\ UNCHANGED <<options, resync, pc, todo, lists, queue>> BY DEF Fork
<1>4. /\ proc'[p].state = "running"
      /\ \A r \in Pid : r # p => proc'[r] = proc[r] /\ unread'[r] = unread[r]
  BY <1>1 DEF Fork, KernelOK
<1>5. UNCHANGED removing BY <1>3 DEF lists
<1>6. ASSUME Traceable PROVE ForkComes(p)'
  <2>1. CASE Reliable
    <3>1. events' = Append(events, Ev("FORK", p))
      BY <1>3, <2>1, EmitEvent DEF Reliable
    <3>2. Follows("EXIT", "FORK", p, events') BY <1>2, <3>1, FollowsAppend
    <3>3. ExitComes(p) BY <2>1 DEF EventInv, ExitsReported, Fork
    <3>4. p \in removing => Queued("EXIT", p, events) BY <1>1, <3>3 DEF ExitComes
    <3>5. p \in removing => Queued("EXIT", p, events') BY <1>2, <3>1, <3>4, QueuedAppend
    <3>6. QED BY <1>5, <3>2, <3>5 DEF ForkComes
  <2>2. CASE ~Reliable
    <3>1. proc[p].state = "free" BY <1>6, <2>2 DEF Traceable, Reliable, Fork
    <3>2. p \notin ListedPids /\ ~EventQueued(p) BY <3>1 DEF EventInv, FreeUnknown
    <3>3. ~Queued("EXIT", p, events) BY <1>2, <3>2, QueuedEvent
    <3>4. Follows("EXIT", "FORK", p, events) BY <3>3 DEF Follows, Queued
    <3>5. Ev("FORK", p) # Ev("EXIT", p) BY EventKinds
    <3>6. Follows("EXIT", "FORK", p, events')
      <4>1. events' = Append(events, Ev("FORK", p)) \/ events' = events
        BY <1>3, EmitEvent
      <4>2. "EXIT" # "FORK" OBVIOUS
      <4>3. Follows("EXIT", "FORK", p, Append(events, Ev("FORK", p)))
        BY <1>2, <3>4, <3>5, <4>2, FollowsAppend
      <4>4. QED BY <3>4, <4>1, <4>3
    <3>7. p \notin removing' BY <1>1, <1>5, <3>2
    <3>8. QED BY <3>6, <3>7 DEF ForkComes
  <2>3. QED BY <2>1, <2>2
<1>7. QED BY <1>3, <1>4, <1>6, KernelStepEventInv

\* A process that runs executes another program.
LEMMA ExecEventInv ==
  ASSUME ListInv, EventInv, NEW p \in Pid, NEW n \in Name, Exec(p, n), UNCHANGED options
  PROVE  EventInv'
<1>1. KernelOK BY TypeParts DEF ListInv
<1>2. events \in Seq(Event) /\ Ev("EXEC", p) \in Event BY <1>1, EventKinds DEF KernelOK
<1>3. Emit("EXEC", p) /\ UNCHANGED <<options, resync, pc, todo, lists, queue>> BY DEF Exec
<1>4. /\ proc[p].state = "running" /\ proc'[p].state = "running"
      /\ UNCHANGED unread
      /\ \A r \in Pid : r # p => proc'[r] = proc[r] /\ unread'[r] = unread[r]
  BY <1>1 DEF Exec, KernelOK, Process
<1>5. ASSUME Traceable PROVE ForkComes(p)'
  <2>1. ForkComes(p) /\ UNCHANGED removing
    BY <1>3, <1>4, <1>5 DEF EventInv, ForksReported, lists
  <2>2. events' = Append(events, Ev("EXEC", p)) \/ events' = events BY <1>3, EmitEvent
  <2>3. Ev("EXEC", p) # Ev("EXIT", p) /\ "EXIT" # "FORK" BY EventKinds
  <2>4. Follows("EXIT", "FORK", p, events')
    BY <1>2, <2>1, <2>2, <2>3, FollowsAppend DEF ForkComes
  <2>5. Queued("EXIT", p, events) => Queued("EXIT", p, events')
    BY <1>2, <2>2, QueuedAppend
  <2>6. QED BY <1>4, <2>1, <2>4, <2>5 DEF ForkComes, Unread
<1>6. QED BY <1>3, <1>4, <1>5, KernelStepEventInv

\* A process ends: where events are not lost its EXIT is the last about it.
LEMMA ExitEventInv ==
  ASSUME ListInv, EventInv, NEW p \in Pid, Exit(p), UNCHANGED options
  PROVE  EventInv'
<1>1. KernelOK /\ ReadsOK BY TypeParts DEF ListInv
<1>2. events \in Seq(Event) /\ Ev("EXIT", p) \in Event BY <1>1, EventKinds DEF KernelOK
<1>3. Emit("EXIT", p) /\ UNCHANGED <<options, resync, pc, todo, lists, queue>> BY DEF Exit
<1>4. /\ proc'[p].state = "zombie"
      /\ \A r \in Pid : r # p => proc'[r] = proc[r] /\ unread'[r] = unread[r]
  BY <1>1 DEF Exit, KernelOK, ReadsOK, Process
<1>5. ASSUME Reliable PROVE ExitComes(p)'
  <2>1. events' = Append(events, Ev("EXIT", p)) BY <1>3, <1>5, EmitEvent DEF Reliable
  <2>2. Queued("EXIT", p, events') BY <1>2, <2>1, QueuedAppend
  <2>3. Follows("FORK", "EXIT", p, events') BY <1>2, <2>1, FollowsAppend
  <2>4. QED BY <2>2, <2>3 DEF ExitComes
<1>6. QED BY <1>3, <1>4, <1>5, KernelStepEventInv

\* A process is reaped.
LEMMA ReapEventInv ==
  ASSUME ListInv, EventInv, NEW p \in Pid, Reap(p), UNCHANGED options
  PROVE  EventInv'
<1>1. KernelOK BY TypeParts DEF ListInv
<1>2. UNCHANGED <<options, events, buffer, resync, pc, todo, lists, queue>> BY DEF Reap
<1>3. /\ proc[p].state = "zombie" /\ proc'[p].state = "reaped"
      /\ \A r \in Pid : r # p => proc'[r] = proc[r] /\ unread'[r] = unread[r]
  BY <1>1 DEF Reap, KernelOK, Process
<1>4. Reliable => ExitComes(p)
  BY <1>3 DEF EventInv, ExitsReported
<1>5. ListedPids' = ListedPids BY <1>2 DEF lists, ListedPids
<1>6. Reliable => ExitComes(p)' BY <1>2, <1>3, <1>4, <1>5 DEF ExitComes
<1>7. "FORK" \in {"FORK", "EXEC", "EXIT"} OBVIOUS
<1>8. QED BY <1>2, <1>3, <1>6, <1>7, KernelStepEventInv

\* A step that reports nothing, lists nothing and asks for no removal.
LEMMA ShrinkEventInv ==
  ASSUME EventInv, UNCHANGED <<options, proc, events>>, ReadsKept,
         ListedPids' \subseteq ListedPids, removing' \subseteq removing,
         pc' = "init" => pc = "init", EventsOnly', NoScan'
  PROVE  EventInv'
<1> USE DEF EventInv
<1>1. Reliable' = Reliable /\ Traceable' = Traceable BY DEF Reliable, Traceable
<1>2. FreeUnknown' BY DEF FreeUnknown, EventQueued
<1>3. ExitsReported' BY <1>1 DEF ExitsReported, ExitComes
<1>4. ForksReported' BY <1>1 DEF ForksReported, ForkComes, ReadsKept
<1>5. QED BY <1>2, <1>3, <1>4

\* An iteration over /proc comes to p: while nothing was lost that is the one at
\* the start, and the exit of a zombie it lists is still to be read.
LEMMA ScanEventInv ==
  ASSUME ListInv, EventInv, NEW p \in Pid, Scan(p), UNCHANGED options
  PROVE  EventInv'
<1> USE DEF EventInv
<1>1. proc \in [Pid -> Process] /\ ListsOK BY TypeParts DEF ListInv, KernelOK
<1>2. addProcEntry(p) \/ (initProcEntry(p) /\ p \notin ListedPids)
  BY DEF Scan, ListInv, NotYetListed
<1>3. /\ \/ UNCHANGED procList
         \/ Visible(p) /\ ListedPids' = {p} \cup (ListedPids \ (removing \ removing'))
      /\ removing' \subseteq removing
  BY <1>1, <1>2, AddKeepsLists
<1>4. \A r \in ListedPids' : r \in ListedPids \/ (r = p /\ Visible(p))
  BY <1>3 DEF ListedPids
<1>5. UNCHANGED <<options, proc, events, buffer, resync>> BY DEF Scan, kernel
<1>6. Reliable' = Reliable /\ Traceable' = Traceable BY <1>5 DEF Reliable, Traceable
<1>7. /\ pc \in {"init", "scan", "paceScan"}
      /\ pc' \in {pc, "loop"} \/ (pc = "paceScan" /\ pc' = "update")
  BY DEF Scan
<1>8. FreeUnknown' BY <1>4, <1>5 DEF FreeUnknown, EventQueued, Visible
<1>9. EventsOnly' /\ NoScan' BY <1>5, <1>6, <1>7 DEF EventsOnly, NoScan
<1>10. ExitsReported'
  <2>1. SUFFICES ASSUME Reliable, NEW r \in Pid, proc[r].state # "running"
                 PROVE  ExitComes(r)'
    BY <1>5, <1>6 DEF ExitsReported
  <2>2. ExitComes(r) BY <2>1 DEF ExitsReported
  <2>3. pc = "init" BY <1>7, <2>1 DEF EventsOnly, NoScan, Reliable
  <2>4. r \in ListedPids' => Queued("EXIT", r, events)
    BY <1>4, <2>2, <2>3 DEF ExitComes, Visible
  <2>5. QED BY <1>5, <2>2, <2>3, <2>4 DEF ExitComes
<1>11. ReadsKept BY ReadsFollow, TypeParts DEF ListInv, Scan
<1>12. ForksReported' BY <1>3, <1>5, <1>6, <1>11 DEF ForksReported, ForkComes, ReadsKept
<1>13. QED BY <1>8, <1>9, <1>10, <1>12

\* The Pace lane asks for the removal of a process that runs only where a read of
\* it failed.
LEMMA UpdateEventInv ==
  ASSUME ListInv, EventInv, NEW p \in Pid, updateProcInfo(p), UNCHANGED options
  PROVE  EventInv'
<1> USE DEF EventInv
<1>1. UNCHANGED <<options, proc, events, buffer, resync>> BY DEF updateProcInfo, kernel
<1>2. pc = "update" /\ pc' \in {"update", "loop"} BY DEF updateProcInfo
<1>3. EventsOnly' /\ NoScan' BY <1>1, <1>2 DEF EventsOnly, NoScan, Reliable
<1>4. UNCHANGED procList BY DEF updateProcInfo, lists, remProcEntryAsync
<1>5. ListedPids' = ListedPids BY <1>4 DEF ListedPids
<1>6. removing' \subseteq removing \/ proc[p].state # "running" \/ Unread(p)'
  BY ReadNoted, TypeParts DEF ListInv, updateProcInfo, lists
<1>7. removing' \subseteq removing \cup {p}
  BY DEF updateProcInfo, lists, remProcEntryAsync
<1>8. Reliable' = Reliable /\ Traceable' = Traceable BY <1>1 DEF Reliable, Traceable
<1>9. FreeUnknown' BY <1>1, <1>5 DEF FreeUnknown, EventQueued
<1>10. ExitsReported' BY <1>1, <1>2, <1>5, <1>8 DEF ExitsReported, ExitComes
<1>11. ReadsKept BY ReadsFollow, TypeParts DEF ListInv
<1>12. ForksReported'
  BY <1>1, <1>6, <1>7, <1>8, <1>11 DEF ForksReported, ForkComes, ReadsKept
<1>13. QED BY <1>3, <1>9, <1>10, <1>12

\* An event is dispatched.  What it lists is followed by the EXIT of the process,
\* if that does not run any more; an EXIT takes its entry and all that is pending.
LEMMA EventReceivedEventInv ==
  ASSUME ListInv, EventInv, pc = "loop", buffer # "overrun", events # <<>>,
         EventReceived(Head(events)), UNCHANGED options
  PROVE  EventInv'
<1> USE DEF EventInv
<1> DEFINE h == Head(events)
           p == h.pid
<1>1. /\ proc \in [Pid -> Process] /\ ListsOK
      /\ events \in Seq(Event) /\ Len(events) <= RxBufferSize
  BY TypeParts DEF ListInv, KernelOK
<1>2. h \in Event /\ p \in Pid /\ h = Ev(h.what, p)
  BY <1>1, EventTaken, EventKinds
<1>3. /\ events' = Tail(events) /\ UNCHANGED <<options, proc, missed, resync, pc, todo>>
      /\ BufferAfter(Tail(events))
  BY DEF EventReceived
<1>4. /\ \A what, r : Queued(what, r, events)
                        <=> h = Ev(what, r) \/ Queued(what, r, events')
      /\ \A a, b, r : Follows(a, b, r, events) => Follows(a, b, r, events')
      /\ \A a, b, r : Follows(a, b, r, events) /\ h = Ev(a, r)
                        => Queued(b, r, events')
  BY <1>1, <1>3, EventsTail
<1>5. \A a, r : h = Ev(a, r) <=> h.what = a /\ r = p BY <1>2, EventKinds
<1> HIDE DEF h, p
<1>6. \/ /\ h.what = "FORK" /\ removing' \subseteq removing
         /\ \A r \in ListedPids' : r \in ListedPids \/ (r = p /\ Visible(p))
      \/ h.what = "EXEC" /\ removing' = {} /\ ListedPids' \subseteq ListedPids
      \/ h.what = "EXIT" /\ removing' = {} /\ ListedPids' \subseteq ListedPids \ {p}
  <2>1. CASE h.what = "FORK" /\ addProcEntry(p)
    <3>1. /\ \/ UNCHANGED procList
             \/ Visible(p) /\ ListedPids' = {p} \cup (ListedPids \ (removing \ removing'))
          /\ removing' \subseteq removing
      BY <1>1, <1>2, <2>1, AddKeepsLists
    <3>2. QED BY <2>1, <3>1 DEF ListedPids
  <2>2. CASE h.what = "EXEC" /\ updProcEntry(p)
    BY <1>1, <1>2, <2>2, UpdKeepsLists
  <2>3. CASE h.what = "EXIT" /\ remProcEntrySync(p)
    <3>1. ListedPids' = ListedPids \ (removing \cup {p})
      BY <1>1, <2>3, CommitKeepsLists DEF remProcEntrySync
    <3>2. QED BY <2>3, <3>1 DEF remProcEntrySync
  <2>4. QED BY <2>1, <2>2, <2>3 DEF EventReceived, h, p
<1>7. \A r \in ListedPids' : r \in ListedPids \/ (r = p /\ Visible(p) /\ h.what = "FORK")
  BY <1>6
<1>8. FreeUnknown'
  <2>1. SUFFICES ASSUME NEW r \in Pid, proc[r].state = "free"
                 PROVE  r \notin ListedPids' /\ ~EventQueued(r)'
    BY <1>3 DEF FreeUnknown
  <2>2. r \notin ListedPids /\ ~EventQueued(r) BY <2>1 DEF FreeUnknown
  <2>3. \A w \in {"FORK", "EXEC", "EXIT"} : ~Queued(w, r, events')
    BY <1>1, <1>4, <2>2, QueuedEvent
  <2>4. \A i \in DOMAIN events' : events'[i] \in Event
    BY <1>1, <1>3, EventTaken
  <2>5. \A e \in Event : e.pid = r => e \in {Ev("FORK", r), Ev("EXEC", r), Ev("EXIT", r)}
    BY DEF Event, Ev
  <2>6. ~EventQueued(r)' BY <2>3, <2>4, <2>5 DEF EventQueued, Queued
  <2>7. QED BY <1>7, <2>1, <2>2, <2>6 DEF Visible
<1>9. EventsOnly' BY <1>3 DEF EventsOnly
<1>10. Reliable' = Reliable /\ Traceable' = Traceable BY <1>3 DEF Reliable, Traceable
<1>11. NoScan' BY <1>3, <1>10 DEF NoScan, BufferAfter
<1>12. ExitsReported'
  <2>1. SUFFICES ASSUME Reliable, NEW r \in Pid, proc[r].state # "running"
                 PROVE  ExitComes(r)'
    BY <1>3, <1>10 DEF ExitsReported
  <2>2. ExitComes(r) BY <2>1 DEF ExitsReported
  <2>3. Follows("FORK", "EXIT", r, events') BY <1>4, <2>2 DEF ExitComes
  <2>4. r \in ListedPids' => Queued("EXIT", r, events')
    <3>1. CASE h = Ev("FORK", r) BY <1>4, <2>2, <3>1 DEF ExitComes
    <3>2. CASE h = Ev("EXIT", r)
      <4>1. h.what = "EXIT" /\ r = p BY <1>5, <3>2
      <4>2. QED BY <1>6, <4>1
    <3>3. CASE h # Ev("FORK", r) /\ h # Ev("EXIT", r)
      <4>1. r \in ListedPids' => r \in ListedPids BY <1>5, <1>7, <3>3
      <4>2. QED BY <1>4, <2>2, <3>3, <4>1 DEF ExitComes
    <3>4. QED BY <3>1, <3>2, <3>3
  <2>5. QED BY <1>3, <2>3, <2>4 DEF ExitComes
<1>13. ForksReported'
  <2>1. SUFFICES ASSUME Traceable, NEW r \in Pid, proc[r].state = "running"
                 PROVE  ForkComes(r)'
    BY <1>3, <1>10 DEF ForksReported
  <2>2. ForkComes(r) BY <2>1 DEF ForksReported
  <2>3. Follows("EXIT", "FORK", r, events') BY <1>4, <2>2 DEF ForkComes
  <2>4. r \in removing' => r \in removing /\ h.what = "FORK" BY <1>6
  <2>5. ReadsKept BY <1>2, ReadsFollow, TypeParts DEF ListInv, EventReceived, p, h
  <2>6. r \in removing' => Queued("EXIT", r, events') \/ Unread(r)'
    BY <1>4, <1>5, <2>2, <2>4, <2>5 DEF ForkComes, ReadsKept
  <2>7. QED BY <2>3, <2>6 DEF ForkComes
<1>14. QED BY <1>8, <1>9, <1>11, <1>12, <1>13

\* Every step keeps what the events promise.
LEMMA NextEventInv == ListInv /\ EventInv /\ [Next]_vars => EventInv'
<1> SUFFICES ASSUME ListInv, EventInv, [Next]_vars PROVE EventInv' OBVIOUS
<1>1. CASE UNCHANGED vars
  <2>1. /\ UNCHANGED <<options, proc, events, buffer, resync, pc, procList, removing>>
        /\ ReadsKept
    BY <1>1 DEF vars, changing, kernel, lists, ReadsKept, Unread
  <2>2. ListedPids' = ListedPids /\ EventsOnly' /\ NoScan'
    BY <2>1 DEF ListedPids, EventInv, EventsOnly, NoScan, Reliable
  <2>3. QED BY <2>1, <2>2, ShrinkEventInv
<1>2. ASSUME ProcEventCallback, UNCHANGED options PROVE EventInv'
  <2>1. CASE buffer = "overrun" /\ EventsDropped
    <3>1. UNCHANGED <<options, proc, events, pc, procList, removing>> /\ ReadsKept
      BY <1>2, <2>1 DEF EventsDropped, lists, ReadsKept, Unread
    <3>2. ~Reliable BY <2>1 DEF EventInv, NoScan
    <3>3. ListedPids' = ListedPids /\ EventsOnly' /\ NoScan'
      BY <3>1, <3>2 DEF ListedPids, EventInv, EventsOnly, NoScan, Reliable
    <3>4. QED BY <3>1, <3>3, ShrinkEventInv
  <2>2. CASE buffer # "overrun" /\ events # <<>> /\ EventReceived(Head(events))
    BY <1>2, <2>2, EventReceivedEventInv DEF ProcEventCallback
  <2>3. QED BY <1>2, <2>1, <2>2 DEF ProcEventCallback
<1>3. ASSUME ProcEventLost \/ GetContextInfo
               \/ \E lane \in {"Fast", "Pace", "Slow"} : LaneTimer(lane),
             UNCHANGED options
      PROVE  EventInv'
  <2>1. UNCHANGED <<options, proc, events, buffer, resync, procList, removing>> /\ ReadsKept
    BY <1>3 DEF ProcEventLost, GetContextInfo, LaneTimer, kernel, lists, ReadsKept, Unread
  <2>2. pc' # "init" /\ (options.UpdateOnProcEvent => pc' \in {"stopped", "loop", "update"})
    BY <1>3 DEF ProcEventLost, GetContextInfo, LaneTimer
  <2>3. ListedPids' = ListedPids /\ EventsOnly' /\ NoScan'
    BY <2>1, <2>2 DEF ListedPids, EventInv, EventsOnly, NoScan, Reliable
  <2>4. QED BY <2>1, <2>2, <2>3, ShrinkEventInv
<1>4. ASSUME doUpdateProcessList, UNCHANGED options PROVE EventInv'
  <2>1. /\ UNCHANGED <<options, proc, events, procList, removing>>
        /\ resync > 0 /\ pc' = "scan" /\ ReadsKept
    BY <1>4 DEF doUpdateProcessList, kernel, lists, ReadsKept, Unread
  <2>2. ~Reliable BY <2>1 DEF EventInv, NoScan
  <2>3. ListedPids' = ListedPids /\ EventsOnly' /\ NoScan'
    BY <2>1, <2>2 DEF ListedPids, EventInv, EventsOnly, NoScan, Reliable
  <2>4. QED BY <2>1, <2>3, ShrinkEventInv
<1>5. ASSUME requestHandler, UNCHANGED options PROVE EventInv'
  <2>1. UNCHANGED <<options, proc, events, buffer, resync, pc>> /\ ReadsKept
    BY <1>5 DEF requestHandler, kernel, ReadsKept, Unread
  <2>2. /\ \A e \in procList' : e \in procList
        /\ removing' \subseteq removing
    BY <1>5 DEF requestHandler, doCommitProcList, doCommitContextList,
                doCollectAndSendContextInfo, Commit
  <2>3. ListedPids' \subseteq ListedPids BY <2>2 DEF ListedPids
  <2>4. EventsOnly' /\ NoScan' BY <2>1 DEF EventInv, EventsOnly, NoScan, Reliable
  <2>5. QED BY <2>1, <2>2, <2>3, <2>4, ShrinkEventInv
<1>6. QED
  BY <1>1, <1>2, <1>3, <1>4, <1>5, ForkEventInv, ExecEventInv, ExitEventInv, ReapEventInv,
     ScanEventInv, UpdateEventInv DEF Next, Steps

\* e belongs to the process that has its pid, or that process is not the one.
Correct(e) ==
  \/ Queued("EXIT", e.pid, events)
  \/ /\ e.ctx = proc[e.pid].ctx
     /\ e.name = proc[e.pid].name \/ Queued("EXEC", e.pid, events) \/ Unread(e.pid)

\* Where no event is lost, that is so of the entries of running processes.
EntriesCorrect ==
  Reliable => \A e \in procList : proc[e.pid].state = "running" => Correct(e)

-----------------------------------------------------------------------------
(* The entries are those of the processes *)

\* What addProcEntry and initProcEntry make of the list: an entry made from /proc
\* is added, and is there if the process is to be monitored and could be read.
LEMMA AddedEntries ==
  ASSUME ReadsOK, NEW p \in Pid, addProcEntry(p) \/ (initProcEntry(p) /\ p \notin ListedPids)
  PROVE  /\ \A d \in procList' :
              d \in procList \/ (d.pid = p /\ d.name = proc[p].name /\ d.ctx = proc[p].ctx)
         /\ MustBeListed(p) => p \in ListedPids' \/ Unread(p)'
<1> DEFINE new == [pid |-> p, name |-> proc[p].name, ctx |-> proc[p].ctx]
<1>1. CASE UNCHANGED procList
           /\ (MustBeListed(p) => p \in ListedPids \/ Unread(p)')
  BY <1>1 DEF ListedPids
<1>2. CASE createProcessEntry(p)
  <2>1. new \in procList' /\ \A d \in procList' : d \in procList \/ d = new
    BY <1>2 DEF createProcessEntry, Commit
  <2>2. new.pid = p /\ new.name = proc[p].name /\ new.ctx = proc[p].ctx OBVIOUS
  <2> HIDE DEF new
  <2>3. QED BY <2>1, <2>2 DEF ListedPids
<1>3. ASSUME initProcEntry(p)
      PROVE  \/ createProcessEntry(p)
             \/ UNCHANGED procList /\ (MustBeListed(p) => Unread(p)')
  <2>1. PICK status \in reading(p) :
          /\ Noted(p, status)
          /\ IF status /\ ~isBlacklisted(proc[p].name)
             THEN createProcessEntry(p) ELSE UNCHANGED lists
    BY <1>3 DEF initProcEntry
  <2>2. ~status => (proc[p].state = "running" => Unread(p)') BY <2>1, ReadNoted
  <2>3. QED BY <2>1, <2>2 DEF lists, MustBeListed
<1>4. QED BY <1>1, <1>2, <1>3 DEF addProcEntry, lists

\* What updProcEntry makes of the list: an entry of p has the name of the process,
\* if that could be read, and stays unless that is blacklisted or its removal was asked for.
LEMMA UpdatedEntries ==
  ASSUME ListsOK, ReadsOK, proc \in [Pid -> Process], NEW p \in Pid, updProcEntry(p)
  PROVE  /\ \A d \in procList' : d.pid # p => d \in procList
         /\ proc[p].state = "running" => \A d \in procList' : d.pid = p =>
              /\ d.name = proc[p].name \/ Unread(p)'
              /\ \E e \in procList : e.pid = p /\ e.ctx = d.ctx
         /\ ~isBlacklisted(proc[p].name) /\ p \in ListedPids \ removing
              => p \in ListedPids'
<1>1. PICK status \in BOOLEAN :
        /\ procList' = Commit(Renamed(p, status), removing)
        /\ p \in ListedPids /\ ~status => (proc[p].state = "running" => Unread(p)')
  <2>1. CASE p \notin ListedPids
    <3>1. procList' = Commit(procList, removing) BY <2>1 DEF updProcEntry
    <3>2. Renamed(p, FALSE) = procList BY DEF Renamed
    <3>3. QED BY <2>1, <3>1, <3>2
  <2>2. CASE p \in ListedPids
    <3>1. PICK status \in reading(p) :
            Noted(p, status) /\ procList' = Commit(Renamed(p, status), removing)
      BY <2>2 DEF updProcEntry
    <3>2. ~status => (proc[p].state = "running" => Unread(p)') BY <3>1, ReadNoted
    <3>3. QED BY <3>1, <3>2 DEF reading
  <2>3. QED BY <2>1, <2>2
<1> DEFINE n == proc[p].name
           stale == {e \in procList : e.pid = p /\ status /\ e.name # n}
           NewName(e) == [e EXCEPT !.name = n]
           renamed == IF isBlacklisted(n) THEN {} ELSE {NewName(e) : e \in stale}
<1>2. procList' = Commit((procList \ stale) \cup renamed, removing)
  BY <1>1 DEF Renamed
<1>3. \A e \in procList :
        NewName(e).pid = e.pid /\ NewName(e).ctx = e.ctx /\ NewName(e).name = n
  BY DEF ListsOK, Entry
<1>4. \A e \in stale : e \in procList /\ e.pid = p OBVIOUS
<1>5. \A e \in procList : e.pid = p /\ status => e \in stale \/ e.name = n OBVIOUS
<1>6. \A d \in renamed : \E e \in stale : d = NewName(e) OBVIOUS
<1>7. ~isBlacklisted(n) => \A e \in stale : NewName(e) \in renamed OBVIOUS
<1> HIDE DEF stale, renamed, NewName
<1>8. \A d \in procList' : (d \in procList /\ d \notin stale) \/ d \in renamed
  BY <1>2 DEF Commit
<1>9. \A d \in renamed : /\ d.pid = p /\ d.name = n
                         /\ \E e \in procList : e.pid = p /\ e.ctx = d.ctx
  BY <1>3, <1>4, <1>6
<1>10. \A d \in procList' : d.pid # p => d \in procList BY <1>8, <1>9
<1>11. ASSUME proc[p].state = "running", NEW d \in procList', d.pid = p
       PROVE  /\ d.name = n \/ Unread(p)'
              /\ \E e \in procList : e.pid = p /\ e.ctx = d.ctx
  <2>1. CASE d \in renamed BY <1>9, <2>1
  <2>2. CASE d \in procList /\ d \notin stale
    <3>1. p \in ListedPids BY <1>11, <2>2 DEF ListedPids
    <3>2. d.name = n \/ ~status BY <1>5, <1>11, <2>2
    <3>3. QED BY <1>1, <1>11, <2>2, <3>1, <3>2
  <2>3. QED BY <1>8, <2>1, <2>2
<1>12. ASSUME ~isBlacklisted(n), p \in ListedPids \ removing PROVE p \in ListedPids'
  <2>1. PICK e \in procList : e.pid = p BY <1>12 DEF ListedPids
  <2>2. CASE e \in stale
    <3>1. NewName(e) \in procList' /\ NewName(e).pid = p
      BY <1>2, <1>3, <1>7, <1>12, <2>1, <2>2 DEF Commit
    <3>2. QED BY <3>1 DEF ListedPids
  <2>3. CASE e \notin stale
    <3>1. e \in procList' BY <1>2, <1>12, <2>1, <2>3 DEF Commit
    <3>2. QED BY <2>1, <3>1 DEF ListedPids
  <2>4. QED BY <2>2, <2>3
<1>13. QED BY <1>10, <1>11, <1>12 DEF n

\* What is queued stays so while the kernel adds to the queue.
LEMMA QueuedStays ==
  ASSUME events \in Seq(Event), NEW what \in {"FORK", "EXEC", "EXIT"}, NEW p \in Pid,
         Emit(what, p), NEW w, NEW r, Queued(w, r, events)
  PROVE  Queued(w, r, events')
<1>1. Ev(what, p) \in Event BY EventKinds
<1>2. Queued(w, r, Append(events, Ev(what, p))) BY <1>1, QueuedAppend
<1>3. QED BY <1>2, EmitEvent

\* A step of the kernel about p leaves the entries correct: what it changes is
\* reported behind the EXIT of an earlier process with the pid.
LEMMA KernelKeepsEntries ==
  ASSUME ListInv, EventInv, EntriesCorrect, NEW p \in Pid, UNCHANGED options,
         (\E n \in Name, x \in Context : Fork(p, n, x)) \/ (\E n \in Name : Exec(p, n))
           \/ Exit(p) \/ Reap(p)
  PROVE  EntriesCorrect'
<1>1. KernelOK /\ procList \subseteq Entry BY TypeParts DEF ListInv, ListsOK
<1>2. UNCHANGED procList BY DEF Fork, Exec, Exit, Reap, lists
<1>3. Reliable' = Reliable BY DEF Reliable
<1>4. \A e \in procList : e.pid \in Pid BY <1>1 DEF Entry
<1>5. \A w, r : Queued(w, r, events) => Queued(w, r, events')
  <2>1. CASE \E what \in {"FORK", "EXEC", "EXIT"} : Emit(what, p)
    BY <1>1, <2>1, QueuedStays DEF KernelOK
  <2>2. CASE UNCHANGED events BY <2>2
  <2>3. QED BY <2>1, <2>2 DEF Fork, Exec, Exit, Reap
<1>6. \A r \in Pid : r # p => proc'[r] = proc[r]
  BY <1>1 DEF Fork, Exec, Exit, Reap, KernelOK
<1>7. SUFFICES ASSUME Reliable, NEW e \in procList, proc'[e.pid].state = "running"
               PROVE  Correct(e)'
  BY <1>2, <1>3 DEF EntriesCorrect
<1>8. CASE e.pid # p
  <2>1. proc'[e.pid] = proc[e.pid] BY <1>4, <1>6, <1>8
  <2>2. Correct(e) BY <1>7, <2>1 DEF EntriesCorrect
  <2>3. unread'[e.pid] = unread[e.pid]
    BY <1>1, <1>4, <1>8, TypeParts DEF ListInv, ReadsOK, Fork, Exec, Exit, Reap
  <2>4. QED BY <1>5, <2>1, <2>2, <2>3 DEF Correct, Unread
<1>9. ASSUME e.pid = p, NEW n \in Name, NEW x \in Context, Fork(p, n, x)
      PROVE  Correct(e)'
  <2>1. p \in ListedPids BY <1>9 DEF ListedPids
  <2>2. ExitComes(p) BY <1>7, <1>9 DEF EventInv, ExitsReported, Fork
  <2>3. Queued("EXIT", p, events') BY <1>5, <2>1, <2>2 DEF ExitComes
  <2>4. QED BY <1>9, <2>3 DEF Correct
<1>10. ASSUME e.pid = p, NEW n \in Name, Exec(p, n) PROVE Correct(e)'
  <2>1. proc[p].state = "running" /\ proc'[p].ctx = proc[p].ctx
    BY <1>1, <1>10 DEF Exec, KernelOK, Process
  <2>2. Correct(e) BY <1>7, <1>10, <2>1 DEF EntriesCorrect
  <2>3. Queued("EXEC", p, events')
    <3>1. events' = Append(events, Ev("EXEC", p))
      BY <1>7, <1>10, EmitEvent DEF Reliable, Exec
    <3>2. QED BY <1>1, <3>1, QueuedAppend, EventKinds DEF KernelOK
  <2>4. QED BY <1>5, <1>10, <2>1, <2>2, <2>3 DEF Correct
<1>11. CASE e.pid = p /\ (Exit(p) \/ Reap(p))
  <2>1. proc'[p].state # "running" BY <1>1, <1>11 DEF Exit, Reap, KernelOK, Process
  <2>2. QED BY <1>7, <1>11, <2>1
<1>12. QED BY <1>8, <1>9, <1>10, <1>11

\* Entries that stay, and those just made from /proc, are correct.
LEMMA ListedKeepsEntries ==
  ASSUME ListInv, EntriesCorrect, UNCHANGED <<options, proc, events>>, ReadsKept,
         \A d \in procList' :
           \/ d \in procList
           \/ d.name = proc[d.pid].name /\ d.ctx = proc[d.pid].ctx
  PROVE  EntriesCorrect'
<1>1. Reliable' = Reliable BY DEF Reliable
<1>2. \A d \in procList : d.pid \in Pid BY TypeParts DEF ListInv, ListsOK, Entry
<1>3. \A d \in procList : Correct(d) => Correct(d)' BY <1>2 DEF Correct, ReadsKept
<1>4. \A d \in procList' : d \in procList \/ Correct(d)' BY DEF Correct
<1>5. QED BY <1>1, <1>3, <1>4 DEF EntriesCorrect

\* An event is dispatched: an EXEC gives the entry its name, an EXIT takes it.
LEMMA EventKeepsEntries ==
  ASSUME ListInv, EntriesCorrect, events # <<>>, EventReceived(Head(events)),
         UNCHANGED options
  PROVE  EntriesCorrect'
<1> DEFINE h == Head(events)
           p == h.pid
<1>1. /\ proc \in [Pid -> Process] /\ ListsOK /\ ReadsOK
      /\ events \in Seq(Event) /\ Len(events) <= RxBufferSize
  BY TypeParts DEF ListInv, KernelOK
<1>2. h \in Event /\ p \in Pid /\ h = Ev(h.what, p)
  BY <1>1, EventTaken, EventKinds
<1>3. events' = Tail(events) /\ UNCHANGED proc BY DEF EventReceived
<1>4. ReadsKept BY <1>1, <1>2, ReadsFollow DEF EventReceived
<1>5. \A w, r : Queued(w, r, events) => h = Ev(w, r) \/ Queued(w, r, events')
  BY <1>1, <1>3, EventsTail
<1>6. \A w, r : h = Ev(w, r) <=> h.what = w /\ r = p BY <1>2, EventKinds
<1> HIDE DEF h, p
<1>7. SUFFICES ASSUME Reliable, NEW d \in procList', proc[d.pid].state = "running"
               PROVE  Correct(d)'
  BY <1>3 DEF EntriesCorrect, Reliable
<1>8. \A e \in procList : e.pid \in Pid BY <1>1 DEF ListsOK, Entry
<1>9. CASE h.what = "FORK" /\ addProcEntry(p)
  <2>1. d \in procList \/ (d.pid = p /\ d.name = proc[p].name /\ d.ctx = proc[p].ctx)
    BY <1>1, <1>2, <1>9, AddedEntries
  <2>2. CASE d \in procList
    <3>1. Correct(d) BY <1>7, <2>2 DEF EntriesCorrect
    <3>2. h # Ev("EXIT", d.pid) /\ h # Ev("EXEC", d.pid) BY <1>6, <1>9
    <3>3. QED BY <1>3, <1>5, <1>4, <1>8, <2>2, <3>1, <3>2 DEF Correct, ReadsKept
  <2>3. CASE d.pid = p /\ d.name = proc[p].name /\ d.ctx = proc[p].ctx
    BY <1>3, <2>3 DEF Correct
  <2>4. QED BY <2>1, <2>2, <2>3
<1>10. CASE h.what = "EXEC" /\ updProcEntry(p)
  <2>1. PICK r \in Pid : r = p BY <1>2
  <2>2. /\ d.pid # r => d \in procList
        /\ proc[r].state = "running" /\ d.pid = r =>
             /\ d.name = proc[r].name \/ Unread(r)'
             /\ \E e \in procList : e.pid = r /\ e.ctx = d.ctx
    BY <1>1, <1>10, <2>1, UpdatedEntries
  <2>3. CASE d.pid # r
    <3>1. Correct(d) BY <1>7, <2>2, <2>3 DEF EntriesCorrect
    <3>2. h # Ev("EXIT", d.pid) /\ h # Ev("EXEC", d.pid) BY <1>6, <2>1, <2>3
    <3>3. d.pid \in Pid BY <1>8, <2>2, <2>3
    <3>4. QED BY <1>3, <1>4, <1>5, <3>1, <3>2, <3>3 DEF Correct, ReadsKept
  <2>4. CASE d.pid = r
    <3>1. proc[r].state = "running" BY <1>7, <2>4
    <3>2. PICK e \in procList : e.pid = r /\ e.ctx = d.ctx BY <2>2, <2>4, <3>1
    <3>3. d.name = proc[r].name \/ Unread(r)' BY <2>2, <2>4, <3>1
    <3>4. Correct(e) BY <1>7, <2>4, <3>2 DEF EntriesCorrect
    <3>5. h # Ev("EXIT", r) BY <1>6, <1>10
    <3>6. QED BY <1>3, <1>5, <2>4, <3>2, <3>3, <3>4, <3>5 DEF Correct
  <2>5. QED BY <2>3, <2>4
<1>11. CASE h.what = "EXIT" /\ remProcEntrySync(p)
  <2>1. d \in procList /\ d.pid # p BY <1>11 DEF remProcEntrySync, Commit
  <2>2. Correct(d) BY <1>7, <2>1 DEF EntriesCorrect
  <2>3. h # Ev("EXIT", d.pid) /\ h # Ev("EXEC", d.pid) BY <1>6, <2>1
  <2>4. QED BY <1>3, <1>5, <1>4, <1>8, <2>1, <2>2, <2>3 DEF Correct, ReadsKept
<1>12. QED BY <1>9, <1>10, <1>11 DEF EventReceived, h, p

\* Every step keeps the entries correct.
LEMMA NextEntries ==
  ListInv /\ EventInv /\ EntriesCorrect /\ [Next]_vars => EntriesCorrect'
<1> SUFFICES ASSUME ListInv, EventInv, EntriesCorrect, [Next]_vars PROVE EntriesCorrect' OBVIOUS
<1>1. ASSUME NEW p \in Pid, Scan(p), UNCHANGED options PROVE EntriesCorrect'
  <2>1. addProcEntry(p) \/ (initProcEntry(p) /\ p \notin ListedPids)
    BY <1>1 DEF Scan, ListInv, NotYetListed
  <2>2. ReadsOK BY TypeParts DEF ListInv
  <2>3. \A d \in procList' :
          d \in procList \/ (d.name = proc[d.pid].name /\ d.ctx = proc[d.pid].ctx)
    BY <2>1, <2>2, AddedEntries
  <2>4. ReadsKept BY <2>1, <2>2, ReadsFollow
  <2>5. QED BY <1>1, <2>3, <2>4, ListedKeepsEntries DEF Scan, kernel
<1>2. ASSUME ProcEventCallback, UNCHANGED options PROVE EntriesCorrect'
  <2>1. CASE EventsDropped
    <3>1. UNCHANGED <<proc, events, procList>> /\ ReadsKept
      BY <2>1 DEF EventsDropped, lists, ReadsKept, Unread
    <3>2. QED BY <1>2, <3>1, ListedKeepsEntries
  <2>2. CASE events # <<>> /\ EventReceived(Head(events))
    BY <1>2, <2>2, EventKeepsEntries
  <2>3. QED BY <1>2, <2>1, <2>2 DEF ProcEventCallback
<1>3. ASSUME \/ \E p \in Pid : updateProcInfo(p)
             \/ ProcEventLost \/ doUpdateProcessList \/ GetContextInfo \/ requestHandler
             \/ \E lane \in {"Fast", "Pace", "Slow"} : LaneTimer(lane),
             UNCHANGED options
      PROVE  EntriesCorrect'
  <2>1. UNCHANGED <<proc, events>>
    BY <1>3 DEF updateProcInfo, ProcEventLost, doUpdateProcessList, GetContextInfo,
                requestHandler, LaneTimer, kernel
  <2>2. \A d \in procList' : d \in procList
    <3>1. CASE requestHandler
      BY <3>1 DEF requestHandler, doCommitProcList, doCommitContextList,
                  doCollectAndSendContextInfo, Commit
    <3>2. CASE UNCHANGED procList BY <3>2
    <3>3. QED
      BY <1>3, <3>1, <3>2 DEF updateProcInfo, remProcEntryAsync, ProcEventLost,
                   doUpdateProcessList, GetContextInfo, LaneTimer, lists
  <2>3. ReadsKept
    <3>1. ReadsOK BY TypeParts DEF ListInv
    <3>2. CASE \E p \in Pid : updateProcInfo(p) BY <3>1, <3>2, ReadsFollow
    <3>3. CASE UNCHANGED unread BY <3>3 DEF ReadsKept, Unread
    <3>4. QED
      BY <1>3, <3>2, <3>3 DEF ProcEventLost, doUpdateProcessList, GetContextInfo,
                              requestHandler, LaneTimer
  <2>4. QED BY <1>3, <2>1, <2>2, <2>3, ListedKeepsEntries
<1>4. CASE UNCHANGED vars
  BY <1>4, ListedKeepsEntries DEF vars, changing, kernel, lists, ReadsKept, Unread
<1>5. QED BY <1>1, <1>2, <1>3, <1>4, KernelKeepsEntries DEF Next, Steps

\* Where the registry follows the events and none is lost, the entry of a running
\* process has its name and its context, or an event about it is still to come:
\* the entry of an earlier process with the pid has its EXIT queued, an old name
\* an EXEC, unless a read of the process failed.
THEOREM EntriesAreCurrent ==
  Spec => [](options.UpdateOnProcEvent /\ ~options.EventsLost => EntryCurrent)
<1>1. Init => EntriesCorrect BY DEF Init, EntriesCorrect
<1>2. ListInv /\ EntriesCorrect
        => (options.UpdateOnProcEvent /\ ~options.EventsLost => EntryCurrent)
  <2>1. SUFFICES ASSUME ListInv, EntriesCorrect, Reliable, NEW e \in procList,
                        proc[e.pid].state = "running"
                 PROVE  \/ /\ e.name = proc[e.pid].name \/ Unread(e.pid)
                           /\ e.ctx = proc[e.pid].ctx
                        \/ EventQueued(e.pid)
    BY DEF Reliable, EntryCurrent
  <2>2. Correct(e) BY <2>1 DEF EntriesCorrect
  <2>3. events \in Seq(Event) BY <2>1, TypeParts DEF ListInv, KernelOK
  <2>4. QED BY <2>2, <2>3, QueuedEvent DEF Correct
<1>3. QED BY <1>1, <1>2, InitListInv, NextListInv, InitEventInv, NextEventInv, NextEntries, PTL DEF Spec

-----------------------------------------------------------------------------
(* No process is forgotten *)

\* The process is listed or missed, or something that lists it is to come: its
\* FORK, the iteration over /proc, or the scan that makes up for lost events.
AddPending(p) ==
  \/ p \in ListedPids \cup missed
  \/ Queued("FORK", p, events)
  \/ p \in todo /\ pc \in {"init", "scan"}
  \/ buffer = "overrun" \/ resync > 0

\* The settings in which a process that is to be listed is found.
Followed ==
  /\ options.ReadProcAtInit /\ ~options.ExecFromBlacklisted
  /\ Traceable

\* In those every process that is to be listed is, or will be, unless a read of it
\* failed.
AddsPending == Followed => \A p \in Pid : MustBeListed(p) => AddPending(p) \/ Unread(p)

\* A removal that is pending for a process that runs, and could be read, is of an
\* earlier one: its FORK is still to come, behind the EXIT.
LEMMA RemovedComesBack ==
  ASSUME EventInv, Traceable, NEW p \in Pid, proc[p].state = "running", ~Unread(p),
         Queued("EXIT", p, events) \/ p \in removing
  PROVE  Queued("FORK", p, events)
<1>1. ForkComes(p) BY DEF EventInv, ForksReported
<1>2. PICK i \in DOMAIN events : events[i] = Ev("EXIT", p)
  BY <1>1 DEF ForkComes, Queued
<1>3. QED BY <1>1, <1>2 DEF ForkComes, Follows, Queued

\* A step of the kernel about p loses no process that is followed: a FORK is
\* reported, or the loss will be, or its pid is missed.
LEMMA KernelKeepsAdds ==
  ASSUME ListInv, AddsPending, NEW p \in Pid, UNCHANGED options,
         (\E n \in Name, x \in Context : Fork(p, n, x)) \/ (\E n \in Name : Exec(p, n))
           \/ Exit(p) \/ Reap(p)
  PROVE  AddsPending'
<1>1. KernelOK BY TypeParts DEF ListInv
<1>2. UNCHANGED <<procList, pc, todo, resync>> BY DEF Fork, Exec, Exit, Reap, lists
<1>3. ListedPids' = ListedPids BY <1>2 DEF ListedPids
<1>4. Followed' = Followed BY DEF Followed, Traceable
<1>5. \A r \in Pid : r # p => proc'[r] = proc[r]
  BY <1>1 DEF Fork, Exec, Exit, Reap, KernelOK
<1>6. \A r : Queued("FORK", r, events) => Queued("FORK", r, events')
  <2>1. CASE \E what \in {"FORK", "EXEC", "EXIT"} : Emit(what, p)
    BY <1>1, <2>1, QueuedStays DEF KernelOK
  <2>2. CASE UNCHANGED events BY <2>2
  <2>3. QED BY <2>1, <2>2 DEF Fork, Exec, Exit, Reap
<1>7. missed \subseteq missed' /\ (buffer = "overrun" => buffer' = "overrun")
  BY DEF Fork, Exec, Exit, Reap, Emit, Room
<1>8. \A r : AddPending(r) => AddPending(r)' BY <1>2, <1>3, <1>6, <1>7 DEF AddPending
<1>9. SUFFICES ASSUME Followed, NEW r \in Pid, MustBeListed(r)', ~Unread(r)'
               PROVE  AddPending(r)'
  BY <1>4 DEF AddsPending
<1>10. CASE r # p
  <2>1. MustBeListed(r) BY <1>5, <1>9, <1>10 DEF MustBeListed
  <2>2. unread'[r] = unread[r]
    BY <1>10, TypeParts DEF ListInv, ReadsOK, Fork, Exec, Exit, Reap
  <2>3. QED BY <1>8, <1>9, <2>1, <2>2 DEF AddsPending, Unread
<1>11. ASSUME r = p, NEW n \in Name, NEW x \in Context, Fork(p, n, x)
       PROVE  AddPending(r)'
  <2>1. Emit("FORK", p) /\ options.UpdateOnProcEvent
    BY <1>9, <1>11 DEF Fork, Followed, Traceable
  <2>2. CASE events' = Append(events, Ev("FORK", p))
    <3>1. Queued("FORK", p, events')
      BY <1>1, <2>2, QueuedAppend, EventKinds DEF KernelOK
    <3>2. QED BY <1>11, <3>1 DEF AddPending
  <2>3. CASE /\ buffer' = IF buffer = "ok" THEN "overrun" ELSE buffer
             /\ missed' = IF buffer = "congested" THEN missed \cup {p} ELSE missed
    <3>1. buffer' = "overrun" \/ p \in missed'
      BY <1>1, <2>3 DEF KernelOK, Buffer
    <3>2. QED BY <1>11, <3>1 DEF AddPending
  <2>4. QED BY <2>1, <2>2, <2>3 DEF Emit, Ev
<1>12. ASSUME r = p, NEW n \in Name, Exec(p, n) PROVE AddPending(r)'
  <2>1. proc[p].state = "running" /\ proc'[p].name = n
    BY <1>1, <1>12 DEF Exec, KernelOK, Process
  <2>2. n \notin Blacklisted BY <1>9, <1>12, <2>1 DEF MustBeListed, isBlacklisted
  <2>3. proc[p].name \notin Blacklisted BY <1>9, <1>12, <2>2 DEF Exec, Followed
  <2>4. MustBeListed(p) BY <2>1, <2>3 DEF MustBeListed, isBlacklisted
  <2>5. ~Unread(p) BY <1>9, <1>12 DEF Unread, Exec
  <2>6. QED BY <1>8, <1>9, <1>12, <2>4, <2>5 DEF AddsPending
<1>13. CASE r = p /\ (Exit(p) \/ Reap(p))
  <2>1. proc'[p].state # "running" BY <1>1, <1>13 DEF Exit, Reap, KernelOK, Process
  <2>2. QED BY <1>9, <1>13, <2>1 DEF MustBeListed
<1>14. QED BY <1>10, <1>11, <1>12, <1>13

\* An event is dispatched.
LEMMA EventKeepsAdds ==
  ASSUME ListInv, EventInv, AddsPending, pc = "loop", buffer # "overrun", events # <<>>,
         EventReceived(Head(events)), UNCHANGED options
  PROVE  AddsPending'
<1> DEFINE h == Head(events)
           p == h.pid
<1>1. /\ proc \in [Pid -> Process] /\ ListsOK /\ ReadsOK
      /\ events \in Seq(Event) /\ Len(events) <= RxBufferSize
  BY TypeParts DEF ListInv, KernelOK
<1>2. h \in Event /\ p \in Pid /\ h = Ev(h.what, p)
  BY <1>1, EventTaken, EventKinds
<1>3. events' = Tail(events) /\ UNCHANGED <<proc, missed, resync, pc, todo>>
  BY DEF EventReceived
<1>4. /\ \A w, r : Queued(w, r, events) => h = Ev(w, r) \/ Queued(w, r, events')
      /\ \A a, b, r : Follows(a, b, r, events) /\ h = Ev(a, r) => Queued(b, r, events')
  BY <1>1, <1>3, EventsTail
<1>5. \A a, r : h = Ev(a, r) <=> h.what = a /\ r = p BY <1>2, EventKinds
<1>6. todo = {} BY TypeParts DEF ListInv, ControlOK
<1> HIDE DEF h, p
<1>7. Followed' = Followed BY DEF Followed, Traceable
<1>8. SUFFICES ASSUME Followed, NEW r \in Pid, MustBeListed(r), ~Unread(r)'
               PROVE  AddPending(r)'
  BY <1>3, <1>7 DEF AddsPending, MustBeListed
<1>9. Traceable /\ proc[r].state = "running" /\ ~isBlacklisted(proc[r].name) /\ ~Unread(r)
  <2>1. ReadsKept BY <1>1, <1>2, ReadsFollow DEF EventReceived, h, p
  <2>2. QED BY <1>8, <2>1 DEF Followed, MustBeListed, ReadsKept
<1>10. ForkComes(r) BY <1>9 DEF EventInv, ForksReported
<1>11. r \in ListedPids \cup missed \/ Queued("FORK", r, events) \/ resync > 0
  BY <1>6, <1>8, <1>9 DEF AddsPending, AddPending
<1>12. CASE r \in missed \/ resync > 0 BY <1>3, <1>12 DEF AddPending
<1>13. CASE Queued("FORK", r, events)
  <2>1. CASE h = Ev("FORK", r)
    <3>1. h.what = "FORK" /\ r = p BY <1>5, <2>1
    <3>2. addProcEntry(r) BY <3>1 DEF EventReceived, h, p
    <3>3. r \in ListedPids' BY <1>1, <1>8, <3>2, AddedEntries
    <3>4. QED BY <3>3 DEF AddPending
  <2>2. CASE h # Ev("FORK", r)
    <3>1. Queued("FORK", r, events') BY <1>4, <1>13, <2>2
    <3>2. QED BY <3>1 DEF AddPending
  <2>3. QED BY <2>1, <2>2
<1>14. CASE h = Ev("EXIT", r)
  <2>1. Queued("FORK", r, events') BY <1>4, <1>10, <1>14 DEF ForkComes
  <2>2. QED BY <2>1 DEF AddPending
<1>15. CASE r \in removing
  <2>1. Queued("FORK", r, events) BY <1>9, <1>15, RemovedComesBack
  <2>2. QED BY <1>13, <2>1
<1>16. CASE r \in ListedPids /\ r \notin removing /\ h # Ev("EXIT", r)
  <2>1. r \in ListedPids'
    <3>1. CASE h.what = "FORK" /\ addProcEntry(p)
      <4>1. \/ UNCHANGED procList
            \/ ListedPids' = {p} \cup (ListedPids \ (removing \ removing'))
        BY <1>1, <1>2, <3>1, AddKeepsLists
      <4>2. QED BY <1>16, <4>1 DEF ListedPids
    <3>2. CASE h.what = "EXEC" /\ updProcEntry(p)
      <4>1. ListedPids \ (removing \cup {p}) \subseteq ListedPids'
        BY <1>1, <1>2, <3>2, UpdKeepsLists
      <4>2. ~isBlacklisted(proc[p].name) /\ p \in ListedPids \ removing
              => p \in ListedPids'
        BY <1>1, <1>2, <3>2, UpdatedEntries
      <4>3. CASE r = p BY <1>9, <1>16, <4>2, <4>3
      <4>4. CASE r # p BY <1>16, <4>1, <4>4
      <4>5. QED BY <4>3, <4>4
    <3>3. CASE h.what = "EXIT" /\ remProcEntrySync(p)
      <4>1. ListedPids' = ListedPids \ (removing \cup {p})
        BY <1>1, <3>3, CommitKeepsLists DEF remProcEntrySync
      <4>2. r # p BY <1>5, <1>16, <3>3
      <4>3. QED BY <1>16, <4>1, <4>2
    <3>4. QED BY <3>1, <3>2, <3>3 DEF EventReceived, h, p
  <2>2. QED BY <2>1 DEF AddPending
<1>17. QED BY <1>11, <1>12, <1>13, <1>14, <1>15, <1>16

\* An iteration over /proc comes to p: it lists p, and the removals it applies
\* are of processes that come back.
LEMMA ScanKeepsAdds ==
  ASSUME ListInv, EventInv, AddsPending, NEW p \in Pid, Scan(p), UNCHANGED options
  PROVE  AddsPending'
<1>1. proc \in [Pid -> Process] /\ ListsOK /\ ReadsOK BY TypeParts DEF ListInv, KernelOK
<1>2. addProcEntry(p) \/ (initProcEntry(p) /\ p \notin ListedPids)
  BY DEF Scan, ListInv, NotYetListed
<1>3. \/ UNCHANGED procList
      \/ ListedPids' = {p} \cup (ListedPids \ (removing \ removing'))
  BY <1>1, <1>2, AddKeepsLists
<1>4. UNCHANGED <<options, proc, events, buffer, missed, resync>> BY DEF Scan, kernel
<1>5. Followed' = Followed BY DEF Followed, Traceable
<1>6. SUFFICES ASSUME Followed, NEW r \in Pid, MustBeListed(r), ~Unread(r)'
               PROVE  AddPending(r)'
  BY <1>4, <1>5 DEF AddsPending, MustBeListed
<1>7. AddPending(r) /\ ~Unread(r)
  <2>1. ReadsKept BY <1>1, <1>2, ReadsFollow
  <2>2. QED BY <1>6, <2>1 DEF AddsPending, ReadsKept
<1>8. Traceable /\ proc[r].state = "running" /\ ~Unread(r)
  BY <1>6, <1>7 DEF Followed, MustBeListed
<1>9. CASE r \in removing
  <2>1. Queued("FORK", r, events) BY <1>8, <1>9, RemovedComesBack
  <2>2. QED BY <1>4, <2>1 DEF AddPending
<1>10. CASE r = p
  <2>1. p \in ListedPids' BY <1>1, <1>2, <1>6, <1>10, AddedEntries
  <2>2. QED BY <1>10, <2>1 DEF AddPending
<1>11. CASE r \in ListedPids /\ r \notin removing
  <2>1. r \in ListedPids' BY <1>3, <1>11 DEF ListedPids
  <2>2. QED BY <2>1 DEF AddPending
<1>12. CASE r # p /\ r \in todo /\ pc \in {"init", "scan"}
  <2>1. r \in todo' /\ pc' = pc BY <1>12 DEF Scan
  <2>2. QED BY <1>12, <2>1 DEF AddPending
<1>13. CASE r \in missed \/ Queued("FORK", r, events) \/ buffer = "overrun" \/ resync > 0
  BY <1>4, <1>13 DEF AddPending
<1>14. QED BY <1>7, <1>9, <1>10, <1>11, <1>12, <1>13 DEF AddPending

\* Every step keeps what is to be added pending.
LEMMA NextAdds == ListInv /\ EventInv /\ AddsPending /\ [Next]_vars => AddsPending'
<1> SUFFICES ASSUME ListInv, EventInv, AddsPending, [Next]_vars PROVE AddsPending' OBVIOUS
<1>1. resync \in Nat /\ (pc \in {"loop", "stopped"} => todo = {}) /\ ReadsOK
  BY TypeParts DEF ListInv, KernelOK, ControlOK
<1>2. ASSUME UNCHANGED <<options, proc, events, buffer, missed, resync, procList>>,
             pc \in {"loop", "update"} \/ UNCHANGED <<pc, todo>>, ReadsKept
      PROVE  AddsPending'
  <2>1. ListedPids' = ListedPids /\ Followed' = Followed
    BY <1>2 DEF ListedPids, Followed, Traceable
  <2>2. \A r : AddPending(r) => AddPending(r)' BY <1>1, <1>2, <2>1 DEF AddPending
  <2>3. QED BY <1>2, <2>1, <2>2 DEF AddsPending, MustBeListed, ReadsKept
<1>3. ASSUME ProcEventCallback, UNCHANGED options PROVE AddsPending'
  <2>1. CASE EventsDropped
    <3>1. resync' > 0 BY <1>1, <2>1 DEF EventsDropped
    <3>2. QED BY <3>1 DEF AddsPending, AddPending
  <2>2. CASE buffer # "overrun" /\ events # <<>> /\ EventReceived(Head(events))
    BY <1>3, <2>2, EventKeepsAdds DEF ProcEventCallback
  <2>3. QED BY <1>3, <2>1, <2>2 DEF ProcEventCallback
<1>4. ASSUME doUpdateProcessList, UNCHANGED options PROVE AddsPending'
  <2>1. pc' = "scan" /\ todo' = Pid BY <1>4 DEF doUpdateProcessList
  <2>2. QED BY <2>1 DEF AddsPending, AddPending
<1>5. ASSUME requestHandler, UNCHANGED options PROVE AddsPending'
  <2>1. UNCHANGED <<proc, events, buffer, missed, unread, resync, pc, todo>>
    BY <1>5 DEF requestHandler, kernel
  <2>2. ListedPids \ removing \subseteq ListedPids'
    <3>1. CASE doCommitProcList BY <3>1 DEF doCommitProcList, Commit, ListedPids
    <3>2. CASE UNCHANGED procList BY <3>2 DEF ListedPids
    <3>3. QED
      BY <1>5, <3>1, <3>2 DEF requestHandler, doCommitContextList,
                              doCollectAndSendContextInfo
  <2>3. Followed' = Followed BY <1>5 DEF Followed, Traceable
  <2>4. SUFFICES ASSUME Followed, NEW r \in Pid, MustBeListed(r), ~Unread(r)
                 PROVE  AddPending(r)'
    BY <2>1, <2>3 DEF AddsPending, MustBeListed, Unread
  <2>5. AddPending(r) BY <2>4 DEF AddsPending
  <2>6. CASE r \in removing
    <3>1. Traceable /\ proc[r].state = "running" BY <2>4 DEF Followed, MustBeListed
    <3>2. Queued("FORK", r, events) BY <2>4, <2>6, <3>1, RemovedComesBack
    <3>3. QED BY <2>1, <3>2 DEF AddPending
  <2>7. CASE r \notin removing BY <2>1, <2>2, <2>5, <2>7 DEF AddPending
  <2>8. QED BY <2>6, <2>7
<1>6. ASSUME \/ \E p \in Pid : updateProcInfo(p)
             \/ ProcEventLost \/ GetContextInfo
             \/ \E lane \in {"Fast", "Pace", "Slow"} : LaneTimer(lane),
             UNCHANGED options
      PROVE  AddsPending'
  <2>1. UNCHANGED <<proc, events, buffer, missed, resync, procList>>
        /\ pc \in {"loop", "update"}
    BY <1>6 DEF updateProcInfo, remProcEntryAsync, ProcEventLost, GetContextInfo,
                LaneTimer, kernel, lists
  <2>2. ReadsKept
    <3>1. CASE \E p \in Pid : updateProcInfo(p) BY <1>1, <3>1, ReadsFollow
    <3>2. CASE UNCHANGED unread BY <3>2 DEF ReadsKept, Unread
    <3>3. QED BY <1>6, <3>1, <3>2 DEF ProcEventLost, GetContextInfo, LaneTimer
  <2>3. QED BY <1>2, <1>6, <2>1, <2>2
<1>7. CASE UNCHANGED vars
  BY <1>2, <1>7 DEF vars, changing, kernel, lists, ReadsKept, Unread
<1>8. QED
  BY <1>3, <1>4, <1>5, <1>6, <1>7, KernelKeepsAdds, ScanKeepsAdds DEF Next, Steps

\* A running process that is not blacklisted is listed or will be visited, unless
\* a read of that process itself failed, in each setting with events and the reading at the start but two: where a blacklisted
\* program may execute another, nothing lists it, and where a pid is used again
\* after a loss of events, the entry of the process before hides it from the scan.
THEOREM RunningAreListed ==
  Spec => [](~options.ExecFromBlacklisted /\ ~(options.EventsLost /\ options.PidReuse)
               => RunningListed)
<1>1. Init => AddsPending
  BY DEF Init, AddsPending, AddPending, Followed
<1>2. ListInv /\ EventInv /\ AddsPending
        => (~options.ExecFromBlacklisted /\ ~(options.EventsLost /\ options.PidReuse)
              => RunningListed)
  <2>1. SUFFICES ASSUME ListInv, EventInv, AddsPending, Followed,
                        NEW p \in Pid, MustBeListed(p), ~Unread(p)
                 PROVE  p \in ListedPids \cup missed \/ VisitPending(p)
    BY DEF Followed, Traceable, RunningListed
  <2>2. AddPending(p) BY <2>1 DEF AddsPending
  <2>3. events \in Seq(Event) BY <2>1, TypeParts DEF ListInv, KernelOK
  <2>4. Queued("FORK", p, events) => EventQueued(p) BY <2>3, QueuedEvent
  <2>5. QED BY <2>2, <2>4 DEF AddPending, VisitPending
<1>3. QED BY <1>1, <1>2, InitListInv, NextListInv, InitEventInv, NextEventInv, NextAdds, PTL DEF Spec

=============================================================================
