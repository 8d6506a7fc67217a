------------------------------ MODULE Sessions ------------------------------
(***************************************************************************)
(* What the daemon promises the client of a session, and nothing of how:   *)
(* no event sources, lists, queues or shared pointers.                     *)
(*                                                                         *)
(* A session is opened or refused, requests are taken in while it is open  *)
(* and only then, each is answered at most once, and the identity of the   *)
(* session is free again after everything taken was answered or dropped.   *)
(* Task accounting is asked of the kernel exactly while a TCP session is   *)
(* open.  A restart of the daemon closes everything.                       *)
(*                                                                         *)
(* Collectors implements this specification (ImplementsSessions there).    *)
(***************************************************************************)
EXTENDS Naturals

CONSTANTS
  Collector,  \* the sessions
  TCP         \* some of them: the kernel is asked for task accounting

VARIABLES
  session,    \* per collector, the stage of its session
  owed,       \* per collector, the requests taken and not answered
  accounting  \* procAcctCollectorCounter is not zero

vars == <<session, owed, accounting>>

Stage == {"closed", "connecting", "open", "ended"}

TypeOK ==
  /\ session \in [Collector -> Stage]
  /\ owed \in [Collector -> Nat]
  /\ accounting \in BOOLEAN

Init ==
  /\ session = [c \in Collector |-> "closed"]
  /\ owed = [c \in Collector |-> 0]
  /\ accounting = FALSE

-----------------------------------------------------------------------------

\* The session of c moves from one of the stages From to the stage to.
Moves(c, From, to) ==
  /\ session[c] \in From
  /\ session' = [session EXCEPT ![c] = to]
  /\ accounting' = (\E d \in TCP : session'[d] = "open")

Connect(c) == Moves(c, {"closed"}, "connecting") /\ UNCHANGED owed

Open(c) == Moves(c, {"connecting"}, "open") /\ UNCHANGED owed

Refuse(c) == Moves(c, {"connecting"}, "closed") /\ UNCHANGED owed

\* Any number of requests of c, none included, and of nobody else.
Takes(c) ==
  /\ owed'[c] \in Nat /\ owed'[c] >= owed[c]
  /\ owed' = [owed EXCEPT ![c] = owed'[c]]

Take(c) == session[c] = "open" /\ Takes(c) /\ UNCHANGED <<session, accounting>>

\* The last requests may be taken in the step that ends the session.
End(c) == Moves(c, {"open"}, "ended") /\ Takes(c)

\* An answer, or its loss because the connection is closed.
Answer(c) ==
  /\ owed[c] > 0
  /\ owed' = [owed EXCEPT ![c] = @ - 1]
  /\ \/ UNCHANGED <<session, accounting>>
     \/ owed'[c] = 0 /\ Moves(c, {"ended"}, "closed")

Release(c) == owed[c] = 0 /\ Moves(c, {"ended"}, "closed") /\ UNCHANGED owed

Restart ==
  /\ session' = [c \in Collector |-> "closed"]
  /\ owed' = [c \in Collector |-> 0]
  /\ accounting' = FALSE

Next ==
  \/ \E c \in Collector :
       \/ Connect(c) \/ Open(c) \/ Refuse(c)
       \/ Take(c) \/ End(c) \/ Answer(c) \/ Release(c)
  \/ Restart

Spec == Init /\ [][Next]_vars
=============================================================================
