-------------------------- MODULE KeepAliveProofs --------------------------
(***************************************************************************)
(* The bounds of KeepAlive on time, for any number of clients and servers  *)
(* and any values of the options.  They all rest on one bound: how long a  *)
(* source that is ready may wait for its dispatch.                         *)
(***************************************************************************)
EXTENDS KeepAlive, SequenceTheorems, FiniteSetTheorems, TLAPS

\* The servers that this round has not dispatched yet.
Waiting == Cardinality(ready \cap Server)

\* What is left of the wait that goes on.
Rest == IF applicant = Nobody THEN 0 ELSE Block - waited

\* The longest that s, when it has something to do, waits for its dispatch.
Delay(s) ==
  Rest + (Waiting + (IF s \in ready THEN 0 ELSE Cardinality(Server))) * Block

\* A client that is to be monitored is not listed yet, and is asked for once.
MonitoredOnce ==
  \A i, j \in DOMAIN requests :
    requests[i].action = "MonitorCollector" =>
      /\ requests[i].collector \notin monitored
      /\ /\ requests[j].action = "MonitorCollector"
         /\ requests[j].collector = requests[i].collector
         => j = i

\* A server that waits was taken from its round, and its applicant is no client
\* yet; a timer that is in the round has expired, and the queue has a request.
RoundInv ==
  /\ TypeOK
  /\ MonitoredOnce
  /\ IsFiniteSet(monitored)
  /\ applicant = Nobody => waited = 0
  /\ applicant # Nobody => Waiting + 1 <= Cardinality(Server)
  /\ applicant \in Client => ~Referenced(applicant)
  /\ ready \cap Timer \subseteq expired
  /\ "StateManagerEventQueue" \in ready => requests # <<>>

\* The heartbeat is no older than its timer, or waits for its dispatch.
BeatInv ==
  usec > 0 =>
    IF "Watchdog" \in expired
    THEN beat + Delay("Watchdog") <= Period("Watchdog") + LongestWait
    ELSE beat <= phase["Watchdog"]

\* An obedient client was silent for half the timeout at most; what it sent is
\* read, or waits for its dispatch.
AttendedInv ==
  \A c \in open \cap Obedient :
    /\ quiet[c] <= KeepAliveInterval
    /\ IF c \in unread THEN age[c] + Delay(c) <= KeepAliveInterval + LongestWait
       ELSE age[c] <= quiet[c]

\* A listed client is inactive for no longer than its timer runs, or waits for the
\* dispatch of the timer, or for its removal.
NoticedInv ==
  \A c \in monitored :
    \/ Removed(c)
    \/ IF "CollectorsStateTimer" \in expired
       THEN age[c] + Delay("CollectorsStateTimer") <= 2 * timeout + late[c] + LongestWait
       ELSE age[c] <= timeout + late[c] + phase["CollectorsStateTimer"]

-----------------------------------------------------------------------------
(* Numbers, names and requests *)

\* What wraps at p is below p, and is the next number unless that is p.
LEMMA Wraps ==
  ASSUME NEW p \in Nat \ {0}, NEW n \in Nat, n < p
  PROVE  /\ (n + 1) % p \in Nat /\ (n + 1) % p < p
         /\ (n + 1) % p = IF n + 1 = p THEN 0 ELSE n + 1
  OBVIOUS

\* A wait for some of the servers is a number, and is longer for more.
LEMMA Waits ==
  ASSUME NEW k \in Nat, NEW n \in Nat, NEW b \in Nat
  PROVE  /\ k * b \in Nat
         /\ k <= n => k * b <= n * b
         /\ (k + 1) * b = k * b + b
         /\ (k + n) * b = k * b + n * b
         /\ 2 * n * b = n * b + n * b
<1>1. k * b \in Nat /\ n * b \in Nat OBVIOUS
<1>2. (k + 1) * b = k * b + b OBVIOUS
<1>3. (k + n) * b = k * b + n * b OBVIOUS
<1>4. 2 * n * b = n * b + n * b OBVIOUS
<1>5. ASSUME k <= n PROVE k * b <= n * b
  <2>1. n - k \in Nat /\ (n - k) * b \in Nat BY <1>5
  <2>2. n * b = k * b + (n - k) * b OBVIOUS
  <2>3. QED BY <1>1, <2>1, <2>2
<1>6. QED BY <1>1, <1>2, <1>3, <1>4, <1>5

\* The sources of clients, servers and the program are different.
LEMMA Names ==
  /\ \A c \in Client : /\ c \notin Server /\ c # Stranger /\ c # Nobody
                       /\ c # "CollectorsStateTimer" /\ c # "Watchdog"
                       /\ c # "StateManagerEventQueue"
  /\ Stranger # Nobody
  /\ "CollectorsStateTimer" \notin Server /\ "Watchdog" \notin Server
  /\ "StateManagerEventQueue" \notin Server
BY KeepAliveAssumption DEF OwnSources, Stranger, Nobody

\* The requests of StateManager.
LEMMA Requests ==
  /\ \A c \in Client, args \in SUBSET {"WithEventSource"} :
       RemoveCollector(c, args) \in Request
  /\ \A c \in Client : MonitorCollector(c) \in Request /\ UpdateWakeLock(c) \in Request
  /\ \A c : /\ MonitorCollector(c).action = "MonitorCollector"
            /\ MonitorCollector(c).collector = c
            /\ UpdateWakeLock(c).action = "UpdateWakeLock"
            /\ UpdateWakeLock(c).args = {}
  /\ \A c, args : /\ RemoveCollector(c, args).action = "RemoveCollector"
                  /\ RemoveCollector(c, args).collector = c
                  /\ RemoveCollector(c, args).args = args
  /\ \A r \in Request : r.collector \in Client
BY DEF Request, MonitorCollector, RemoveCollector, UpdateWakeLock

\* A queue to which others are appended holds them and what it held.
LEMMA Appended ==
  ASSUME NEW p \in Seq(Request), NEW q \in Seq(Request)
  PROVE  /\ p \o q \in Seq(Request)
         /\ p # <<>> => p \o q # <<>>
         /\ \A i \in DOMAIN p : i \in DOMAIN (p \o q) /\ (p \o q)[i] = p[i]
         /\ \A i \in DOMAIN q : \E j \in DOMAIN (p \o q) : (p \o q)[j] = q[i]
         /\ \A i \in DOMAIN (p \o q) :
              \/ i \in DOMAIN p /\ (p \o q)[i] = p[i]
              \/ \E j \in DOMAIN q : (p \o q)[i] = q[j]
<1> DEFINE n == Len(p)
           m == Len(q)
<1>1. /\ DOMAIN (p \o q) = 1..(n + m) /\ n \in Nat /\ m \in Nat
      /\ DOMAIN p = 1..n /\ DOMAIN q = 1..m
      /\ \A i \in 1..(n + m) : (p \o q)[i] = IF i <= n THEN p[i] ELSE q[i - n]
  OBVIOUS
<1>2. p \o q \in Seq(Request) /\ (p # <<>> => p \o q # <<>>)
  OBVIOUS
<1> HIDE DEF n, m
<1>3. /\ \A i \in 1..(n + m) : i <= n => i \in 1..n
      /\ \A i \in 1..(n + m) : ~(i <= n) => i - n \in 1..m
      /\ \A i \in 1..n : i \in 1..(n + m) /\ i <= n
      /\ \A i \in 1..m : i + n \in 1..(n + m) /\ ~(i + n <= n) /\ (i + n) - n = i
  BY <1>1
<1>4. QED  BY <1>1, <1>2, <1>3

\* The same of one request.
LEMMA AppendedOne ==
  ASSUME NEW p \in Seq(Request), NEW r \in Request
  PROVE  /\ Append(p, r) \in Seq(Request)
         /\ Append(p, r) # <<>>
         /\ \A i \in DOMAIN p : i \in DOMAIN Append(p, r) /\ Append(p, r)[i] = p[i]
         /\ \E j \in DOMAIN Append(p, r) : Append(p, r)[j] = r
         /\ \A i \in DOMAIN Append(p, r) :
              \/ i \in DOMAIN p /\ Append(p, r)[i] = p[i]
              \/ i = Len(p) + 1 /\ Append(p, r)[i] = r
<1> DEFINE n == Len(p)
<1>1. /\ n \in Nat /\ DOMAIN p = 1..n /\ DOMAIN Append(p, r) = 1..(n + 1)
      /\ \A i \in 1..n : Append(p, r)[i] = p[i]
      /\ Append(p, r)[n + 1] = r /\ Append(p, r) \in Seq(Request)
      /\ Append(p, r) # <<>>
  BY AppendProperties
<1> HIDE DEF n
<1>2. /\ n + 1 \in 1..(n + 1)
      /\ \A i \in 1..(n + 1) : i \in 1..n \/ i = n + 1
      /\ \A i \in 1..n : i \in 1..(n + 1)
  BY <1>1
<1>3. QED  BY <1>1, <1>2 DEF n

\* The servers are counted.
LEMMA ServersCounted ==
  ASSUME NEW S
  PROVE  /\ IsFiniteSet(S \cap Server) /\ Cardinality(S \cap Server) \in Nat
         /\ Cardinality(Server) \in Nat
         /\ Cardinality(S \cap Server) <= Cardinality(Server)
         /\ \A s \in S \cap Server :
              Cardinality((S \ {s}) \cap Server) + 1 = Cardinality(S \cap Server)
<1>1. IsFiniteSet(Server) BY KeepAliveAssumption
<1>2. S \cap Server \subseteq Server OBVIOUS
<1>3. IsFiniteSet(S \cap Server) /\ Cardinality(S \cap Server) <= Cardinality(Server)
  BY <1>1, <1>2, FS_Subset
<1>4. Cardinality(S \cap Server) \in Nat /\ Cardinality(Server) \in Nat
  BY <1>1, <1>3, FS_CardinalityType
<1>5. ASSUME NEW s \in S \cap Server
      PROVE  Cardinality((S \ {s}) \cap Server) + 1 = Cardinality(S \cap Server)
  <2> DEFINE T == S \cap Server
  <2>1. (S \ {s}) \cap Server = T \ {s} OBVIOUS
  <2>2. Cardinality(T \ {s}) = IF s \in T THEN Cardinality(T) - 1 ELSE Cardinality(T)
    BY <1>3, FS_RemoveElement
  <2>3. Cardinality(T \ {s}) + 1 = Cardinality(T) BY <1>4, <2>2
  <2>4. QED BY <2>1, <2>3
<1>6. QED BY <1>3, <1>4, <1>5

\* The types of what the bounds are made of.
LEMMA DelayTyped ==
  ASSUME RoundInv, NEW s
  PROVE  /\ Rest \in Nat /\ Waiting \in Nat /\ Delay(s) \in Nat /\ LongestWait \in Nat
         /\ Delay(s) <= LongestWait
         /\ Cardinality(Server) \in Nat /\ Block \in Nat
         /\ Rest <= Block
<1> DEFINE n == Cardinality(Server)
           w == Waiting
           b == Block
<1>1. n \in Nat /\ w \in Nat /\ w <= n BY ServersCounted DEF Waiting
<1>2. b \in Nat BY KeepAliveAssumption
<1>3. waited \in 0..b /\ (applicant # Nobody => w + 1 <= n) BY DEF RoundInv, TypeOK
<1> HIDE DEF n, w, b
<1>4. Rest \in Nat /\ Rest <= b
  <2>1. Rest = IF applicant = Nobody THEN 0 ELSE b - waited BY DEF Rest, b
  <2>2. QED BY <1>2, <1>3, <2>1
<1>5. Rest + w * b <= n * b
  <2>1. CASE applicant = Nobody
    <3>1. Rest = 0 BY <2>1 DEF Rest
    <3>2. w * b <= n * b /\ w * b \in Nat BY <1>1, <1>2, Waits
    <3>3. QED BY <3>1, <3>2
  <2>2. CASE applicant # Nobody
    <3>1. (w + 1) * b <= n * b BY <1>1, <1>2, <1>3, <2>2, Waits
    <3>2. (w + 1) * b = w * b + b BY <1>1, <1>2, Waits
    <3>3. w * b \in Nat /\ n * b \in Nat BY <1>1, <1>2, Waits
    <3>4. QED BY <1>2, <1>4, <3>1, <3>2, <3>3
  <2>3. QED BY <2>1, <2>2
<1>6. LongestWait = n * b + n * b /\ n * b \in Nat /\ w * b \in Nat
  BY <1>1, <1>2, Waits DEF LongestWait, n, b
<1>7. Delay(s) = Rest + w * b + (IF s \in ready THEN 0 ELSE n * b)
  <2>1. CASE s \in ready
    <3>1. Delay(s) = Rest + (w + 0) * b BY <2>1 DEF Delay, w, b
    <3>2. QED BY <1>1, <1>4, <1>6, <2>1, <3>1
  <2>2. CASE s \notin ready
    <3>1. Delay(s) = Rest + (w + n) * b BY <2>2 DEF Delay, w, n, b
    <3>2. (w + n) * b = w * b + n * b BY <1>1, <1>2, Waits
    <3>3. QED BY <1>4, <1>6, <2>2, <3>1, <3>2
  <2>3. QED BY <2>1, <2>2
<1>8. Delay(s) \in Nat /\ Delay(s) <= LongestWait /\ LongestWait \in Nat
  BY <1>4, <1>5, <1>6, <1>7
<1>9. QED BY <1>1, <1>2, <1>4, <1>8 DEF n, w, b

-----------------------------------------------------------------------------
(* The round and the types *)

\* The timers do not change while the program runs, and their periods are positive.
LEMMA TimersStay ==
  ASSUME TypeOK
  PROVE  /\ "CollectorsStateTimer" \in Timer /\ Period("CollectorsStateTimer") = timeout
         /\ usec > 0 <=> "Watchdog" \in Timer
         /\ \A t \in Timer : Period(t) \in Nat \ {0}
         /\ Timer \subseteq Source
         /\ \A c \in Client : c \notin Timer
         /\ \A s \in Server : s \notin Timer
         /\ "StateManagerEventQueue" \notin Timer
<1>1. timeout \in Nat \ {0} /\ usec \in Nat \ {1}
  BY DEF TypeOK
<1>2. usec > 0 => usec \div 2 \in Nat \ {0}
  BY <1>1
<1>3. \A t \in Timer : Period(t) \in Nat \ {0}
  BY <1>1, <1>2 DEF Timer, Period
<1>4. QED  BY <1>1, <1>3, Names DEF Timer, Period, Source

\* The options a start may find give types to the timeouts.
LEMMA OptionsTyped ==
  ASSUME NEW config \in Configs
  PROVE  /\ getFor(config) \in Nat \ {0} /\ config.usec \in Nat \ {1}
         /\ \/ getFor(config) >= MinTimeout
            \/ getFor(config) \in {DefaultTimeout, FallbackTimeout}
<1>1. config \in Config
  BY KeepAliveAssumption
<1>2. config.value \in Nat /\ config.usec \in Nat \ {1}
  BY <1>1 DEF Config
<1>3. config.value >= MinTimeout => config.value \in Nat \ {0}
  BY <1>2, KeepAliveAssumption
<1>4. QED  BY <1>2, <1>3, KeepAliveAssumption DEF getFor

\* A start begins with an empty round.
LEMMA InitRoundInv == Init => RoundInv
<1> SUFFICES ASSUME Init PROVE RoundInv
  OBVIOUS
<1>1. /\ timeout \in Nat \ {0} /\ usec \in Nat \ {1}
      /\ timeout >= MinTimeout \/ timeout \in {DefaultTimeout, FallbackTimeout}
  BY OptionsTyped DEF Init
<1>2. \A t \in Timer : Period(t) \in Nat \ {0}
  BY <1>1 DEF Timer, Period
<1>3. TypeOK
  <2>1. /\ open \subseteq Client /\ unread \subseteq open /\ monitored \subseteq Client
        /\ age \in [Client -> Nat] /\ quiet \in [Client -> Nat] /\ late \in [Client -> Nat]
        /\ requests \in Seq(Request)
        /\ expired \subseteq Timer /\ beat \in Nat
        /\ ready \subseteq Source /\ ready \cap Client \subseteq open
    BY DEF Init
  <2>2. phase \in [Timer -> Nat] /\ \A t \in Timer : phase[t] < Period(t)
    BY <1>2 DEF Init
  <2>3. applicant \in Client \cup {Stranger, Nobody} /\ waited \in 0..Block
    BY KeepAliveAssumption DEF Init
  <2>4. QED  BY <1>1, <2>1, <2>2, <2>3 DEF TypeOK
<1>4. MonitoredOnce
  BY DEF Init, MonitoredOnce
<1>5. QED
  BY <1>3, <1>4, FS_EmptySet, Names DEF Init, RoundInv

\* Nothing of the round and the requests changes while time passes.
LEMMA TickRoundInv ==
  ASSUME RoundInv, Tick
  PROVE  RoundInv'
<1>1. TypeOK
  BY DEF RoundInv
<1>2. Timer' = Timer /\ \A t \in Timer : Period(t)' = Period(t)
  BY DEF Tick, Timer, Period, options
<1>3. /\ phase' \in [Timer -> Nat]
      /\ \A t \in Timer : phase'[t] < Period(t)
  <2>1. ASSUME NEW t \in Timer
        PROVE  (phase[t] + 1) % Period(t) \in Nat /\ (phase[t] + 1) % Period(t) < Period(t)
    <3>1. phase[t] \in Nat /\ phase[t] < Period(t)
      BY <1>1 DEF TypeOK
    <3>2. Period(t) \in Nat \ {0}
      BY <1>1, TimersStay
    <3>3. QED  BY <3>1, <3>2, Wraps
  <2>2. phase' = [t \in Timer |-> (phase[t] + 1) % Period(t)]
    BY DEF Tick
  <2>3. QED  BY <2>1, <2>2
<1>4. waited' \in 0..Block /\ (applicant = Nobody => waited' = waited)
  BY <1>1, KeepAliveAssumption DEF TypeOK, Tick
<1>5. /\ age' \in [Client -> Nat] /\ quiet' \in [Client -> Nat]
      /\ beat' \in Nat
  BY <1>1 DEF TypeOK, Tick
<1>6. expired' \subseteq Timer /\ expired \subseteq expired'
  BY <1>1 DEF TypeOK, Tick
<1>7. Source' = Source
  BY <1>2 DEF Source
<1>8. UNCHANGED <<timeout, usec, open, unread, monitored, late, requests, ready, applicant>>
  BY DEF Tick, options
<1>9. TypeOK'
  BY <1>1, <1>2, <1>3, <1>4, <1>5, <1>6, <1>7, <1>8 DEF TypeOK
<1>10. MonitoredOnce'
  BY <1>8 DEF RoundInv, MonitoredOnce
<1>11. QED
  BY <1>2, <1>4, <1>6, <1>8, <1>9, <1>10 DEF RoundInv, Waiting, Referenced

\* A round changes neither the requests nor what its sources are.
LEMMA CalmRoundInv ==
  ASSUME RoundInv, UNCHANGED <<options, open, monitored, late, requests, phase, accepting>>,
         age' \in [Client -> Nat], quiet' \in [Client -> Nat], beat' \in Nat,
         unread' \subseteq open, expired' \subseteq expired, ready' \subseteq Source,
         ready' \cap Client \subseteq open,
         ready' \cap Timer \subseteq expired',
         "StateManagerEventQueue" \in ready' \ ready => requests # <<>>,
         applicant # Nobody => ready' = ready
  PROVE  RoundInv'
<1>1. TypeOK
  BY DEF RoundInv
<1>2. UNCHANGED <<timeout, usec, open, monitored, late, requests, phase, applicant, waited>>
  BY DEF options, accepting
<1>3. Timer' = Timer /\ (\A t \in Timer : Period(t)' = Period(t)) /\ Source' = Source
  BY <1>2 DEF Timer, Period, Source
<1>4. TypeOK'
  BY <1>1, <1>2, <1>3 DEF TypeOK
<1>5. MonitoredOnce'
  BY <1>2 DEF RoundInv, MonitoredOnce
<1>6. QED
  BY <1>2, <1>3, <1>4, <1>5 DEF RoundInv, Waiting, Referenced

\* A poll finds the sources that have something to do.
LEMMA PollRoundInv ==
  ASSUME RoundInv, Poll
  PROVE  RoundInv'
<1>1. TypeOK
  BY DEF RoundInv
<1>2. PICK connected \in SUBSET Server : ready' = Pending \cup connected
  BY DEF Poll
<1>3. Pending \subseteq Source
  BY <1>1, TimersStay DEF TypeOK, Pending, Source
<1>4. ready' \subseteq Source
  BY <1>2, <1>3 DEF Source
<1>5. ready' \cap Client \subseteq open
  <2>1. unread \subseteq open /\ expired \subseteq Timer
    BY <1>1 DEF TypeOK
  <2>2. QED  BY <1>1, <1>2, <2>1, Names, TimersStay DEF Pending
<1>6. ready' \cap Timer \subseteq expired
  <2>1. unread \subseteq Client
    BY <1>1 DEF TypeOK
  <2>2. QED  BY <1>1, <1>2, <2>1, TimersStay DEF Pending
<1>7. /\ UNCHANGED <<options, open, monitored, late, requests, phase, accepting>>
      /\ UNCHANGED <<age, quiet, beat, unread, expired>>
      /\ applicant = Nobody
  BY DEF Poll, sessions, timers
<1>8. "StateManagerEventQueue" \in ready' => requests # <<>>
  <2>1. unread \subseteq Client /\ expired \subseteq Timer
    BY <1>1 DEF TypeOK
  <2>2. QED  BY <1>1, <1>2, <2>1, Names, TimersStay DEF Pending
<1>9. QED
  BY <1>1, <1>4, <1>5, <1>6, <1>7, <1>8, CalmRoundInv DEF TypeOK

\* A message only becomes unread.
LEMMA SendRoundInv ==
  ASSUME RoundInv, NEW c \in Client, Send(c)
  PROVE  RoundInv'
<1>1. TypeOK /\ ready \cap Timer \subseteq expired
  BY DEF RoundInv
<1>2. quiet' \in [Client -> Nat] /\ unread' \subseteq open
  BY <1>1 DEF TypeOK, Send
<1>3. /\ UNCHANGED <<options, open, monitored, late, requests, phase, accepting>>
      /\ UNCHANGED <<age, beat, expired, ready>>
  BY DEF Send, timers
<1>4. QED
  BY <1>1, <1>2, <1>3, CalmRoundInv DEF TypeOK

\* A server that is dispatched leaves the round and waits.
LEMMA AcceptRoundInv ==
  ASSUME RoundInv, NEW s \in Server, AcceptCallback(s)
  PROVE  RoundInv'
<1>1. TypeOK
  BY DEF RoundInv
<1>2. /\ UNCHANGED <<options, sessions, requests, timers, waited>>
      /\ applicant = Nobody /\ s \in ready /\ ready' = ready \ {s}
      /\ applicant' \in {c \in Client : ~Referenced(c)} \cup {Stranger}
  BY DEF AcceptCallback, Dispatch
<1>3. UNCHANGED <<timeout, usec, open, age, quiet, unread, monitored, late, requests,
                  phase, expired, beat, waited>>
  BY <1>2 DEF options, sessions, timers
<1>4. Timer' = Timer /\ (\A t \in Timer : Period(t)' = Period(t)) /\ Source' = Source
  BY <1>3 DEF Timer, Period, Source
<1>5. TypeOK'
  BY <1>1, <1>2, <1>3, <1>4 DEF TypeOK
<1>6. MonitoredOnce'
  BY <1>3 DEF RoundInv, MonitoredOnce
<1>7. Waiting' + 1 <= Cardinality(Server)
  <2>1. s \in ready \cap Server
    BY <1>2
  <2>2. Cardinality((ready \ {s}) \cap Server) + 1 = Cardinality(ready \cap Server)
    BY <2>1, ServersCounted
  <2>3. Cardinality(ready \cap Server) <= Cardinality(Server)
    BY ServersCounted
  <2>4. QED  BY <1>2, <2>2, <2>3 DEF Waiting
<1>8. applicant' \in Client => ~Referenced(applicant)'
  <2>1. ASSUME NEW c \in Client, applicant' = c PROVE ~Referenced(c)'
    BY <1>2, <1>3, <2>1, Names DEF Referenced
  <2>2. QED  BY <2>1 DEF Referenced
<1>9. applicant' # Nobody
  BY <1>2, Names
<1>10. QED
  BY <1>2, <1>3, <1>4, <1>5, <1>6, <1>7, <1>8, <1>9 DEF RoundInv

\* What is read, or the end of a session, only adds a removal to the queue.
LEMMA ReadRoundInv ==
  ASSUME RoundInv, NEW c \in Client, ReadCallback(c)
  PROVE  RoundInv'
<1>1. /\ TypeOK /\ MonitoredOnce /\ ready \cap Timer \subseteq expired
      /\ IsFiniteSet(monitored)
  BY DEF RoundInv
<1>2. /\ UNCHANGED <<timeout, usec, quiet, monitored, phase, expired, beat, applicant,
                     waited>>
      /\ applicant = Nobody /\ ready' = ready \ {c}
      /\ unread' = unread \ {c}
  BY DEF ReadCallback, Dispatch, options, timers, accepting
<1>3. /\ age' \in [Client -> Nat] /\ late' \in [Client -> Nat]
      /\ open' \subseteq open /\ open \ {c} \subseteq open'
  <2>1. age \in [Client -> Nat] /\ late \in [Client -> Nat]
    BY <1>1 DEF TypeOK
  <2>2. CASE ReadAll(c)
    BY <2>1, <2>2 DEF ReadAll, Update
  <2>3. CASE ReadAndLeave(c)
    <3>1. open' = open \ {c}
      BY <2>3 DEF ReadAndLeave
    <3>2. CASE Update(c)
      BY <2>1, <3>1, <3>2 DEF Update
    <3>3. CASE UNCHANGED <<age, late>>
      BY <2>1, <3>1, <3>3
    <3>4. QED  BY <2>3, <3>2, <3>3 DEF ReadAndLeave
  <2>4. QED  BY <2>2, <2>3 DEF ReadCallback
<1>4. Timer' = Timer /\ (\A t \in Timer : Period(t)' = Period(t)) /\ Source' = Source
  BY <1>2 DEF Timer, Period, Source
<1> DEFINE r == RemoveCollector(c, {})
<1>5. r \in Request /\ r.action # "MonitorCollector"
  BY Requests
<1>6. requests' = requests \/ requests' = Append(requests, r)
  BY DEF ReadCallback, ReadAll, ReadAndLeave
<1> HIDE DEF r
<1>7. /\ requests' \in Seq(Request)
      /\ requests # <<>> => requests' # <<>>
      /\ \A i \in DOMAIN requests' :
           \/ i \in DOMAIN requests /\ requests'[i] = requests[i]
           \/ requests'[i].action # "MonitorCollector"
  <2>1. requests \in Seq(Request)
    BY <1>1 DEF TypeOK
  <2>2. CASE requests' = requests
    BY <2>1, <2>2
  <2>3. CASE requests' = Append(requests, r)
    BY <1>5, <2>1, <2>3, AppendedOne
  <2>4. QED  BY <1>6, <2>2, <2>3
<1>8. TypeOK'
  BY <1>1, <1>2, <1>3, <1>4, <1>7 DEF TypeOK
<1>9. MonitoredOnce'
  BY <1>1, <1>2, <1>7 DEF MonitoredOnce
<1>10. QED
  BY <1>1, <1>2, <1>4, <1>7, <1>8, <1>9, Names DEF RoundInv

\* systemd is told in the round of the timer.
LEMMA WatchdogRoundInv ==
  ASSUME RoundInv, Watchdog
  PROVE  RoundInv'
<1>1. TypeOK /\ ready \cap Timer \subseteq expired
  BY DEF RoundInv
<1>2. /\ UNCHANGED <<options, sessions, requests, phase, accepting>>
      /\ applicant = Nobody /\ ready' = ready \ {"Watchdog"}
      /\ expired' = expired \ {"Watchdog"} /\ beat' = 0
  BY DEF Watchdog, Dispatch
<1>3. UNCHANGED <<open, age, quiet, unread, monitored, late>>
  BY <1>2 DEF sessions
<1>4. QED
  BY <1>1, <1>2, <1>3, CalmRoundInv DEF TypeOK

\* A client whose descriptor arrived is new, and its request is its only one.
LEMMA ReturnRoundInv ==
  ASSUME RoundInv, AcceptReturns
  PROVE  RoundInv'
<1>1. /\ TypeOK /\ MonitoredOnce /\ ready \cap Timer \subseteq expired
      /\ applicant \in Client => ~Referenced(applicant)
      /\ IsFiniteSet(monitored)
  BY DEF RoundInv
<1>2. /\ applicant # Nobody /\ applicant' = Nobody /\ waited' = 0
      /\ UNCHANGED <<timeout, usec, phase, expired, beat, ready>>
  BY DEF AcceptReturns, options, timers
<1>3. Timer' = Timer /\ (\A t \in Timer : Period(t)' = Period(t)) /\ Source' = Source
  BY <1>2 DEF Timer, Period, Source
<1>4. 0 \in 0..Block
  BY KeepAliveAssumption
<1>5. CASE UNCHANGED <<sessions, requests>>
  <2>1. UNCHANGED <<open, age, quiet, unread, monitored, late, requests>>
    BY <1>5 DEF sessions
  <2>2. TypeOK'
    BY <1>1, <1>2, <1>3, <1>4, <2>1 DEF TypeOK
  <2>3. MonitoredOnce'
    BY <1>1, <2>1 DEF MonitoredOnce
  <2>4. QED
    BY <1>1, <1>2, <1>3, <2>1, <2>2, <2>3, Names DEF RoundInv
<1>6. CASE applicant \in Client /\ ~UNCHANGED <<sessions, requests>>
  <2>1. PICK c \in Client : c = applicant
    BY <1>6
  <2>2. /\ open' = open \cup {c}
        /\ age' = [age EXCEPT ![c] = 0]
        /\ quiet' = [quiet EXCEPT ![c] = 0]
        /\ requests' = Append(requests, MonitorCollector(c))
        /\ UNCHANGED <<unread, monitored, late>>
    BY <1>6, <2>1 DEF AcceptReturns
  <2>3. c \notin open /\ c \notin monitored
        /\ \A i \in DOMAIN requests : requests[i].collector # c
    BY <1>1, <2>1 DEF Referenced, TypeOK
  <2>4. /\ MonitorCollector(c) \in Request
        /\ MonitorCollector(c).collector = c
    BY Requests
  <2> DEFINE r == MonitorCollector(c)
  <2>5. r \in Request /\ r.collector = c
    BY <2>4
  <2>6. requests' = Append(requests, r)
    BY <2>2
  <2> HIDE DEF r
  <2>7. requests \in Seq(Request)
    BY <1>1 DEF TypeOK
  <2>8. /\ requests' \in Seq(Request)
        /\ \A i \in DOMAIN requests' :
             \/ i \in DOMAIN requests /\ requests'[i] = requests[i]
             \/ i = Len(requests) + 1 /\ requests'[i] = r
    BY <2>5, <2>6, <2>7, AppendedOne
  <2>9. TypeOK'
    BY <1>1, <1>2, <1>3, <1>4, <2>2, <2>8, Names DEF TypeOK
  <2>10. MonitoredOnce'
    <3> SUFFICES ASSUME NEW i \in DOMAIN requests', NEW j \in DOMAIN requests',
                        requests'[i].action = "MonitorCollector"
                 PROVE  /\ requests'[i].collector \notin monitored
                        /\ /\ requests'[j].action = "MonitorCollector"
                           /\ requests'[j].collector = requests'[i].collector
                           => j = i
      BY <2>2 DEF MonitoredOnce
    <3>1. CASE i \in DOMAIN requests /\ requests'[i] = requests[i]
      <4>1. requests[i].collector \notin monitored /\ requests[i].collector # c
        BY <1>1, <2>3, <3>1 DEF MonitoredOnce
      <4>2. CASE j \in DOMAIN requests /\ requests'[j] = requests[j]
        BY <1>1, <3>1, <4>1, <4>2 DEF MonitoredOnce
      <4>3. CASE requests'[j] = r
        BY <2>5, <3>1, <4>1, <4>3
      <4>4. QED  BY <2>8, <4>2, <4>3
    <3>2. CASE i = Len(requests) + 1 /\ requests'[i] = r
      <4>1. requests'[i].collector = c
        BY <2>5, <3>2
      <4>2. QED  BY <2>3, <2>8, <3>2, <4>1
    <3>3. QED  BY <2>8, <3>1, <3>2
  <2>11. QED
    BY <1>1, <1>2, <1>3, <2>2, <2>9, <2>10, Names DEF RoundInv
<1>7. QED  BY <1>5, <1>6 DEF AcceptReturns

\* The timer asks for the removal of each client that is inactive.
LEMMA InactiveOrder ==
  ASSUME RoundInv,
         NEW order \in SetToSeqs({RemoveCollector(c, {"WithEventSource"}) :
                               c \in {d \in monitored : Inactive(d)}})
  PROVE  /\ order \in Seq(Request)
         /\ \A i \in DOMAIN order :
              \E c \in monitored : Inactive(c) /\ order[i] = RemoveCollector(c, {"WithEventSource"})
         /\ \A c \in monitored : Inactive(c) =>
              \E i \in DOMAIN order : order[i] = RemoveCollector(c, {"WithEventSource"})
<1> DEFINE W == {"WithEventSource"}
           M == {d \in monitored : Inactive(d)}
           S == {RemoveCollector(c, W) : c \in M}
           n == Cardinality(S)
<1>1. IsFiniteSet(M)
  BY FS_Subset DEF RoundInv
<1>2. M \subseteq Client
  BY DEF RoundInv, TypeOK
<1>3. IsFiniteSet(S)
  <2> DEFINE f == [r \in S |-> r.collector]
  <2>1. f \in [S -> M]
    BY Requests
  <2>2. \A r, q \in S : f[r] = f[q] => r = q
    BY Requests
  <2>3. f \in Injection(S, M)
    BY <2>1, <2>2 DEF Injection, IsInjective
  <2> HIDE DEF f
  <2>4. QED  BY <1>1, <2>3, FS_Injection
<1>4. n \in Nat /\ ExistsBijection(1..n, S)
  BY <1>3, FS_CardinalityType
<1>5. order \in [1..n -> S] /\ \A i, j \in 1..n : i # j => order[i] # order[j]
  BY DEF SetToSeqs
<1>6. \A r \in S : \E i \in 1..n : order[i] = r
  <2>1. order \in Injection(1..n, S)
    BY <1>5 DEF Injection, IsInjective
  <2>2. IsFiniteSet(1..n) /\ Cardinality(1..n) = n
    BY <1>4, FS_Interval
  <2>3. order \in Surjection(1..n, S)
    BY <1>3, <2>1, <2>2, FS_Injection
  <2>4. QED  BY <2>3 DEF Surjection
<1>7. \A c \in M : RemoveCollector(c, W) \in Request
  BY <1>2, Requests
<1>8. S \subseteq Request /\ \A r \in S : \E c \in M : r = RemoveCollector(c, W)
  BY <1>7
<1>9. \A c \in M : RemoveCollector(c, W) \in S
  OBVIOUS
<1> HIDE DEF n, S
<1>10. order \in [1..n -> Request]
  BY <1>5, <1>8
<1>11. order \in Seq(Request) /\ DOMAIN order = 1..n
  BY <1>4, <1>10, SeqDef
<1>12. \A i \in DOMAIN order : \E c \in M : order[i] = RemoveCollector(c, W)
  BY <1>5, <1>8, <1>11
<1>13. \A c \in M : \E i \in DOMAIN order : order[i] = RemoveCollector(c, W)
  BY <1>6, <1>9, <1>11
<1>14. QED  BY <1>11, <1>12, <1>13

\* A removal of a listed client takes nothing from a client that is to be listed.
LEMMA TimerRoundInv ==
  ASSUME RoundInv, CollectorsTimer
  PROVE  RoundInv'
<1>1. /\ TypeOK /\ MonitoredOnce /\ ready \cap Timer \subseteq expired
      /\ IsFiniteSet(monitored)
  BY DEF RoundInv
<1>2. /\ UNCHANGED <<timeout, usec, open, age, quiet, unread, monitored, late, phase,
                     beat, applicant, waited>>
      /\ applicant = Nobody /\ ready' = ready \ {"CollectorsStateTimer"}
      /\ expired' = expired \ {"CollectorsStateTimer"}
  BY DEF CollectorsTimer, Dispatch, options, sessions, accepting
<1>3. PICK order \in SetToSeqs({RemoveCollector(c, {"WithEventSource"}) :
                               c \in {d \in monitored : Inactive(d)}}) :
        requests' = requests \o order
  BY DEF CollectorsTimer
<1>4. /\ order \in Seq(Request)
      /\ \A i \in DOMAIN order : order[i].action = "RemoveCollector"
  <2>1. \A i \in DOMAIN order :
          \E c \in monitored : order[i] = RemoveCollector(c, {"WithEventSource"})
    BY InactiveOrder
  <2>2. QED  BY <2>1, InactiveOrder, Requests
<1>5. requests \in Seq(Request)
  BY <1>1 DEF TypeOK
<1>6. requests \o order \in Seq(Request)
  BY <1>4, <1>5, Appended
<1>7. \A i \in DOMAIN requests' :
        \/ i \in DOMAIN requests /\ requests'[i] = requests[i]
        \/ requests'[i].action # "MonitorCollector"
  BY <1>3, <1>4, <1>5, Appended
<1>8. Timer' = Timer /\ (\A t \in Timer : Period(t)' = Period(t)) /\ Source' = Source
  BY <1>2 DEF Timer, Period, Source
<1>9. TypeOK'
  BY <1>1, <1>2, <1>3, <1>6, <1>8 DEF TypeOK
<1>10. MonitoredOnce'
  BY <1>1, <1>2, <1>7 DEF MonitoredOnce
<1>11. "StateManagerEventQueue" \in ready' => requests' # <<>>
  <2>1. requests # <<>> => requests \o order # <<>>
    BY <1>4, <1>5, Appended
  <2>2. QED  BY <1>2, <1>3, <2>1 DEF RoundInv
<1>12. QED
  BY <1>1, <1>2, <1>8, <1>9, <1>10, <1>11, Names DEF RoundInv

\* A request is handled by the handler of its action.
LEMMA Handlers ==
  ASSUME requestHandler
  PROVE  \E c \in Client, args \in SUBSET {"WithEventSource"} :
           doMonitorCollector(c) \/ doRemoveCollector(c, args) \/ doUpdateWakeLock(c)
<1>1. {} \in SUBSET {"WithEventSource"}
  OBVIOUS
<1>2. QED  BY <1>1 DEF requestHandler

\* What a handler pushes.
LEMMA Pushed ==
  ASSUME NEW c \in Client
  PROVE  /\ \A more \in {<<>>, WakeLockRequests(c), FinalizeRequests(c) \o WakeLockRequests(c)} :
              /\ more \in Seq(Request)
              /\ \A i \in DOMAIN more :
                   more[i].action # "MonitorCollector" /\ more[i].args = {}
<1> DEFINE u == UpdateWakeLock(c)
           r == RemoveCollector(c, {})
           P(q) == /\ q \in Seq(Request)
                   /\ \A i \in DOMAIN q : q[i].action # "MonitorCollector" /\ q[i].args = {}
<1>1. /\ u \in Request /\ u.action # "MonitorCollector" /\ u.args = {}
      /\ r \in Request /\ r.action # "MonitorCollector" /\ r.args = {}
  BY Requests
<1>2. /\ WakeLockRequests(c) = <<>> \/ WakeLockRequests(c) = <<u>>
      /\ FinalizeRequests(c) = <<>> \/ FinalizeRequests(c) = <<r>>
  BY DEF WakeLockRequests, FinalizeRequests
<1> HIDE DEF u, r
<1>3. P(<<>>) /\ P(<<u>>) /\ P(<<r>>)
  BY <1>1
<1>4. P(WakeLockRequests(c)) /\ P(FinalizeRequests(c))
  BY <1>2, <1>3
<1>5. P(FinalizeRequests(c) \o WakeLockRequests(c))
  BY <1>4, Appended
<1>6. QED  BY <1>3, <1>4, <1>5

\* A request that is handled leaves the queue, the others move up, and what is
\* pushed asks for nothing to be monitored.
LEMMA Handled ==
  ASSUME RoundInv, requestHandler
  PROVE  /\ requests # <<>> /\ 1 \in DOMAIN requests /\ Head(requests) = requests[1]
         /\ requests' \in Seq(Request)
         /\ \A i \in DOMAIN requests' :
              \/ i + 1 \in DOMAIN requests /\ i + 1 # 1 /\ requests'[i] = requests[i + 1]
              \/ requests'[i].action # "MonitorCollector" /\ requests'[i].args = {}
         /\ \A i \in DOMAIN requests : i # 1 =>
              \E j \in DOMAIN requests' : requests'[j] = requests[i]
<1>1. requests \in Seq(Request)
  BY DEF RoundInv, TypeOK
<1>2. PICK more \in Seq(Request) :
        /\ requests' = Tail(requests) \o more
        /\ \A i \in DOMAIN more : more[i].action # "MonitorCollector" /\ more[i].args = {}
  <2>1. PICK c \in Client, args \in SUBSET {"WithEventSource"} :
          doMonitorCollector(c) \/ doRemoveCollector(c, args) \/ doUpdateWakeLock(c)
    BY Handlers
  <2>2. requests' = Tail(requests) => requests' = Tail(requests) \o <<>>
    <3>1. requests # <<>> => Tail(requests) \in Seq(Request)
      BY <1>1
    <3>2. \A q \in Seq(Request) : q = q \o <<>>
      OBVIOUS
    <3>3. requests # <<>>
      BY DEF RoundInv, requestHandler
    <3>4. QED  BY <3>1, <3>2, <3>3
  <2> DEFINE wake == WakeLockRequests(c)
             all == FinalizeRequests(c) \o WakeLockRequests(c)
  <2>3. /\ FinalizeRequests(c) \in Seq(Request) /\ wake \in Seq(Request)
        /\ requests # <<>> /\ Tail(requests) \in Seq(Request)
    <3>1. FinalizeRequests(c) \in Seq(Request)
      <4>1. RemoveCollector(c, {}) \in Request
        BY Requests
      <4>2. QED  BY <4>1 DEF FinalizeRequests
    <3>2. requests # <<>>
      BY DEF RoundInv, requestHandler
    <3>3. QED  BY <1>1, <3>1, <3>2, Pushed
  <2>4. (Tail(requests) \o FinalizeRequests(c)) \o wake = Tail(requests) \o all
    BY <2>3
  <2>5. \/ requests' = Tail(requests) \o <<>>
        \/ requests' = Tail(requests) \o wake
        \/ requests' = Tail(requests) \o all
    BY <2>1, <2>2, <2>4 DEF doMonitorCollector, doRemoveCollector, doUpdateWakeLock
  <2>6. \A more \in {<<>>, wake, all} :
          /\ more \in Seq(Request)
          /\ \A i \in DOMAIN more : more[i].action # "MonitorCollector" /\ more[i].args = {}
    BY Pushed
  <2> HIDE DEF wake, all
  <2>7. PICK more \in {<<>>, wake, all} : requests' = Tail(requests) \o more
    BY <2>5
  <2>8. QED  BY <2>6, <2>7
<1>3. requests # <<>>
  BY DEF RoundInv, requestHandler
<1> DEFINE n == Len(requests)
<1>4. /\ n \in Nat \ {0} /\ DOMAIN requests = 1..n /\ Head(requests) = requests[1]
      /\ Tail(requests) \in Seq(Request) /\ DOMAIN Tail(requests) = 1..(n - 1)
      /\ \A i \in 1..(n - 1) : Tail(requests)[i] = requests[i + 1]
  BY <1>1, <1>3
<1> HIDE DEF n
<1>5. /\ 1 \in 1..n
      /\ \A i \in 1..(n - 1) : i + 1 \in 1..n /\ i + 1 # 1
      /\ \A i \in 1..n : i # 1 => i - 1 \in 1..(n - 1) /\ (i - 1) + 1 = i
  BY <1>4
<1> DEFINE rest == Tail(requests)
<1>6. /\ rest \in Seq(Request) /\ DOMAIN rest = 1..(n - 1)
      /\ \A i \in 1..(n - 1) : rest[i] = requests[i + 1]
      /\ requests' = rest \o more
  BY <1>2, <1>4
<1> HIDE DEF rest
<1>7. ASSUME NEW i \in DOMAIN requests, i # 1
      PROVE  \E j \in DOMAIN rest : rest[j] = requests[i]
  <2>1. i - 1 \in DOMAIN rest /\ (i - 1) + 1 = i
    BY <1>4, <1>5, <1>6, <1>7
  <2>2. rest[i - 1] = requests[(i - 1) + 1]
    BY <1>6, <2>1
  <2>3. rest[i - 1] = requests[i]
    BY <2>1, <2>2
  <2>4. QED  BY <2>1, <2>3
<1>8. /\ rest \in Seq(Request)
      /\ \A i \in DOMAIN rest : i + 1 \in DOMAIN requests /\ i + 1 # 1
                                /\ rest[i] = requests[i + 1]
      /\ \A i \in DOMAIN requests : i # 1 => \E j \in DOMAIN rest : rest[j] = requests[i]
  BY <1>4, <1>5, <1>6, <1>7
<1>9. /\ requests' \in Seq(Request)
      /\ \A i \in DOMAIN rest : i \in DOMAIN requests' /\ requests'[i] = rest[i]
      /\ \A i \in DOMAIN requests' :
           \/ i \in DOMAIN rest /\ requests'[i] = rest[i]
           \/ \E j \in DOMAIN more : requests'[i] = more[j]
  <2> DEFINE both == rest \o more
  <2>1. /\ both \in Seq(Request)
        /\ \A i \in DOMAIN rest : i \in DOMAIN both /\ both[i] = rest[i]
        /\ \A i \in DOMAIN both :
             \/ i \in DOMAIN rest /\ both[i] = rest[i]
             \/ \E j \in DOMAIN more : both[i] = more[j]
    BY <1>2, <1>6, Appended
  <2>2. requests' = both
    BY <1>6
  <2> HIDE DEF both
  <2>3. QED  BY <2>1, <2>2
<1>10. \A i \in DOMAIN requests' :
        \/ i + 1 \in DOMAIN requests /\ i + 1 # 1 /\ requests'[i] = requests[i + 1]
        \/ requests'[i].action # "MonitorCollector" /\ requests'[i].args = {}
  BY <1>2, <1>8, <1>9
<1>11. \A i \in DOMAIN requests : i # 1 => \E j \in DOMAIN requests' : requests'[j] = requests[i]
  BY <1>8, <1>9
<1>12. QED  BY <1>3, <1>4, <1>5, <1>9, <1>10, <1>11

\* A session begins to be monitored, or ends, with its request.
LEMMA HandlerRoundInv ==
  ASSUME RoundInv, requestHandler
  PROVE  RoundInv'
<1>1. /\ TypeOK /\ MonitoredOnce /\ ready \cap Timer \subseteq expired
      /\ IsFiniteSet(monitored)
  BY DEF RoundInv
<1>2. /\ 1 \in DOMAIN requests /\ Head(requests) = requests[1]
      /\ requests' \in Seq(Request)
      /\ \A i \in DOMAIN requests' : requests'[i].action = "MonitorCollector" =>
           i + 1 \in DOMAIN requests /\ i + 1 # 1 /\ requests'[i] = requests[i + 1]
  BY Handled
<1>3. /\ UNCHANGED <<timeout, usec, phase, expired, beat, applicant, waited>>
      /\ applicant = Nobody
  BY DEF requestHandler, options, timers, accepting
<1>4. PICK c \in Client, args \in SUBSET {"WithEventSource"} :
        doMonitorCollector(c) \/ doRemoveCollector(c, args) \/ doUpdateWakeLock(c)
  BY Handlers
<1>5. Timer' = Timer /\ (\A t \in Timer : Period(t)' = Period(t)) /\ Source' = Source
  BY <1>3 DEF Timer, Period, Source
<1>6. /\ \A i \in DOMAIN requests' : requests'[i].action = "MonitorCollector" =>
           requests'[i].collector \notin monitored
      /\ \A i, j \in DOMAIN requests' :
           /\ requests'[i].action = "MonitorCollector"
           /\ requests'[j].action = "MonitorCollector"
           /\ requests'[j].collector = requests'[i].collector
           => j = i
      /\ \A i \in DOMAIN requests' :
           requests'[i].action = "MonitorCollector" /\ requests[1].action = "MonitorCollector"
           => requests'[i].collector # requests[1].collector
  <2>1. \A i, j \in DOMAIN requests' : i + 1 = j + 1 => i = j
    <3>1. DOMAIN requests' \subseteq Nat
      BY <1>2
    <3>2. QED  BY <3>1
  <2>2. QED  BY <1>1, <1>2, <2>1 DEF MonitoredOnce
<1>7. CASE doMonitorCollector(c)
  <2>1. /\ requests[1] = MonitorCollector(c)
        /\ monitored' = monitored \cup {c}
        /\ late' = [late EXCEPT ![c] = IF Inactive(c) THEN age[c] - timeout ELSE 0]
        /\ ready' = ready \ {"StateManagerEventQueue"}
        /\ UNCHANGED <<open, age, quiet, unread>>
    BY <1>2, <1>7 DEF doMonitorCollector
  <2>2. requests[1].action = "MonitorCollector" /\ requests[1].collector = c
    BY <2>1, Requests
  <2>3. late' \in [Client -> Nat]
    <3>1. age[c] \in Nat /\ timeout \in Nat /\ late \in [Client -> Nat]
      BY <1>1 DEF TypeOK
    <3>2. (IF Inactive(c) THEN age[c] - timeout ELSE 0) \in Nat
      BY <3>1 DEF Inactive
    <3>3. QED  BY <2>1, <3>1, <3>2
  <2>4. TypeOK'
    BY <1>1, <1>2, <1>3, <1>5, <2>1, <2>3 DEF TypeOK
  <2>5. MonitoredOnce'
    BY <1>6, <2>1, <2>2 DEF MonitoredOnce
  <2>6. IsFiniteSet(monitored')
    BY <1>1, <2>1, FS_AddElement
  <2>7. QED
    BY <1>1, <1>3, <1>5, <2>1, <2>4, <2>5, <2>6, Names DEF RoundInv
<1>8. CASE doRemoveCollector(c, args)
  <2>1. /\ monitored' = monitored \ {c}
        /\ late' = [late EXCEPT ![c] = 0]
        /\ UNCHANGED <<age, quiet>>
        /\ \/ /\ open' = open \ {c} /\ unread' = unread \ {c}
              /\ ready' = ready \ {"StateManagerEventQueue", c}
           \/ /\ ready' = ready \ {"StateManagerEventQueue"}
              /\ UNCHANGED <<open, unread>>
    BY <1>8 DEF doRemoveCollector
  <2>2. late' \in [Client -> Nat]
    BY <1>1, <2>1 DEF TypeOK
  <2>3. TypeOK'
    BY <1>1, <1>2, <1>3, <1>5, <2>1, <2>2 DEF TypeOK
  <2>4. MonitoredOnce'
    BY <1>6, <2>1 DEF MonitoredOnce
  <2>5. IsFiniteSet(monitored')
    BY <1>1, <2>1, FS_RemoveElement
  <2>6. QED
    BY <1>1, <1>3, <1>5, <2>1, <2>3, <2>4, <2>5, Names DEF RoundInv
<1>9. CASE doUpdateWakeLock(c)
  <2>1. /\ ready' = ready \ {"StateManagerEventQueue"}
        /\ UNCHANGED <<open, age, quiet, unread, monitored, late>>
    BY <1>9 DEF doUpdateWakeLock, sessions
  <2>2. TypeOK'
    BY <1>1, <1>2, <1>3, <1>5, <2>1 DEF TypeOK
  <2>3. MonitoredOnce'
    BY <1>6, <2>1 DEF MonitoredOnce
  <2>4. QED
    BY <1>1, <1>3, <1>5, <2>1, <2>2, <2>3, Names DEF RoundInv
<1>10. QED  BY <1>4, <1>7, <1>8, <1>9

\* Every step keeps the round in order.
LEMMA NextRoundInv ==
  ASSUME RoundInv, [Next]_vars
  PROVE  RoundInv'
<1>1. CASE Tick
  BY <1>1, TickRoundInv
<1>2. CASE Poll
  BY <1>2, PollRoundInv
<1>3. ASSUME NEW c \in Client, Send(c) \/ ReadCallback(c)
      PROVE  RoundInv'
  BY <1>3, SendRoundInv, ReadRoundInv
<1>4. ASSUME NEW s \in Server, AcceptCallback(s)
      PROVE  RoundInv'
  BY <1>4, AcceptRoundInv
<1>5. CASE AcceptReturns
  BY <1>5, ReturnRoundInv
<1>6. CASE CollectorsTimer
  BY <1>6, TimerRoundInv
<1>7. CASE Watchdog
  BY <1>7, WatchdogRoundInv
<1>8. CASE requestHandler
  BY <1>8, HandlerRoundInv
<1>9. CASE UNCHANGED vars
  <2>1. UNCHANGED <<timeout, usec, open, age, quiet, unread, monitored, late, requests,
                    phase, expired, beat, ready, applicant, waited>>
    BY <1>9 DEF vars, options, sessions, timers, accepting
  <2>2. Timer' = Timer /\ (\A t \in Timer : Period(t)' = Period(t)) /\ Source' = Source
    BY <2>1 DEF Timer, Period, Source
  <2>3. TypeOK' /\ MonitoredOnce'
    BY <2>1, <2>2 DEF RoundInv, TypeOK, MonitoredOnce
  <2>4. QED
    BY <2>1, <2>2, <2>3 DEF RoundInv, Waiting, Referenced
<1>10. QED
  BY <1>1, <1>2, <1>3, <1>4, <1>5, <1>6, <1>7, <1>8, <1>9 DEF Next

\* The round is in order in every behaviour.
LEMMA RoundInvariant == Spec => []RoundInv
<1>1. QED  BY InitRoundInv, NextRoundInv, PTL DEF Spec

\* The variables of the program keep their types, however sessions begin, end and
\* time out: the timeout is none that Options refuses, and a source that left the
\* loop is neither read nor dispatched.
THEOREM TypeCorrect == Spec => []TypeOK
<1>1. RoundInv => TypeOK
  BY DEF RoundInv
<1>2. QED  BY <1>1, RoundInvariant, PTL

-----------------------------------------------------------------------------
(* The wait for a dispatch *)

\* What waits is dispatched no later because of a step that takes no time.
LEMMA DelayKept ==
  ASSUME RoundInv, [Next]_vars, ~Tick, NEW s, s \in Pending, s \notin Server,
         s \in ready => s \in ready'
  PROVE  Delay(s)' <= Delay(s)
<1> DEFINE n == Cardinality(Server)
<1>1. n \in Nat /\ Block \in Nat /\ Rest \in Nat /\ Waiting \in Nat
      /\ n * Block \in Nat /\ Waiting * Block \in Nat
  BY DelayTyped, Waits
<1>2. ASSUME ready' \cap Server = ready \cap Server, ready' \subseteq ready,
             UNCHANGED accepting
      PROVE  Delay(s)' <= Delay(s)
  <2>1. Waiting' = Waiting /\ Rest' = Rest /\ (s \in ready' <=> s \in ready)
    BY <1>2 DEF Waiting, Rest, accepting
  <2>2. Delay(s)' = Delay(s)
    BY <2>1 DEF Delay
  <2>3. QED  BY <2>2, DelayTyped
<1>3. CASE Poll
  <2>1. applicant = Nobody /\ ready = {} /\ UNCHANGED accepting
    BY <1>3 DEF Poll
  <2>2. s \in ready'
    BY <1>3 DEF Poll
  <2>3. Rest = 0 /\ Rest' = 0 /\ Waiting = 0
    <3>1. ready \cap Server = {}
      BY <2>1
    <3>2. QED  BY <2>1, <3>1, FS_EmptySet DEF Rest, Waiting, accepting
  <2>4. Delay(s) = n * Block
    BY <1>1, <2>1, <2>3 DEF Delay
  <2>5. Waiting' \in Nat /\ Waiting' <= n
    BY ServersCounted DEF Waiting
  <2>6. Waiting' * Block <= n * Block /\ Waiting' * Block \in Nat
    BY <1>1, <2>5, Waits
  <2>7. Delay(s)' = Waiting' * Block
    <3>1. Delay(s)' = 0 + (Waiting' + 0) * Block
      BY <2>2, <2>3 DEF Delay
    <3>2. QED  BY <2>5, <2>6, <3>1
  <2>8. QED  BY <2>4, <2>6, <2>7
<1>4. ASSUME NEW c \in Client, Send(c)
      PROVE  Delay(s)' <= Delay(s)
  BY <1>2, <1>4 DEF Send
<1>5. ASSUME NEW c \in Client, ReadCallback(c)
      PROVE  Delay(s)' <= Delay(s)
  <2>1. c \notin Server
    BY Names
  <2>2. QED  BY <1>2, <1>5, <2>1 DEF ReadCallback, Dispatch
<1>6. ASSUME NEW v \in Server, AcceptCallback(v)
      PROVE  Delay(s)' <= Delay(s)
  <2>1. /\ applicant = Nobody /\ v \in ready \cap Server /\ ready' = ready \ {v}
        /\ applicant' # Nobody /\ waited' = waited
    BY <1>6, Names DEF AcceptCallback, Dispatch
  <2>2. waited = 0
    BY <2>1 DEF RoundInv
  <2>3. Rest = 0 /\ Rest' = Block
    BY <1>1, <2>1, <2>2 DEF Rest
  <2>4. Waiting' + 1 = Waiting /\ Waiting' \in Nat
    BY <2>1, ServersCounted DEF Waiting
  <2>5. s \in ready' <=> s \in ready
    BY <2>1
  <2> DEFINE k == IF s \in ready THEN 0 ELSE n
             w == Waiting'
  <2>6. k \in Nat /\ w \in Nat /\ w + 1 = Waiting
    BY <1>1, <2>4
  <2>7. Delay(s)' = Block + (w + k) * Block
    BY <2>3, <2>5 DEF Delay
  <2>8. Delay(s) = (w + 1 + k) * Block
    <3>1. Delay(s) = 0 + (Waiting + k) * Block
      BY <2>3 DEF Delay
    <3>2. Waiting + k \in Nat
      BY <1>1, <2>6
    <3>3. (Waiting + k) * Block \in Nat
      BY <1>1, <3>2, Waits
    <3>4. QED  BY <2>6, <3>1, <3>3
  <2> HIDE DEF k, w
  <2>9. w + k \in Nat /\ w + 1 + k = w + k + 1
    BY <2>6
  <2>10. (w + k + 1) * Block = (w + k) * Block + Block /\ (w + k) * Block \in Nat
    BY <1>1, <2>9, Waits
  <2>11. QED  BY <1>1, <2>7, <2>8, <2>9, <2>10
<1>7. CASE AcceptReturns
  <2>1. applicant' = Nobody /\ ready' = ready
    BY <1>7 DEF AcceptReturns
  <2>2. Rest' = 0 /\ Waiting' = Waiting
    BY <2>1 DEF Rest, Waiting
  <2> DEFINE x == (Waiting + (IF s \in ready THEN 0 ELSE n)) * Block
  <2>3. x \in Nat
    <3>1. Waiting + (IF s \in ready THEN 0 ELSE n) \in Nat
      BY <1>1
    <3>2. QED  BY <1>1, <3>1, Waits
  <2>4. Delay(s) = Rest + x /\ Delay(s)' = 0 + x
    BY <2>1, <2>2 DEF Delay
  <2> HIDE DEF x
  <2>5. QED  BY <1>1, <2>3, <2>4
<1>8. CASE CollectorsTimer
  BY <1>2, <1>8, Names DEF CollectorsTimer, Dispatch
<1>9. CASE Watchdog
  BY <1>2, <1>9, Names DEF Watchdog, Dispatch
<1>10. CASE requestHandler
  <2>1. PICK c \in Client, args \in SUBSET {"WithEventSource"} :
          doMonitorCollector(c) \/ doRemoveCollector(c, args) \/ doUpdateWakeLock(c)
    BY <1>10, Handlers
  <2>2. /\ ready' \subseteq ready /\ UNCHANGED accepting
        /\ \A v \in ready \ ready' : v = "StateManagerEventQueue" \/ v = c
    BY <1>10, <2>1 DEF requestHandler, doMonitorCollector, doRemoveCollector,
       doUpdateWakeLock
  <2>3. c \notin Server /\ "StateManagerEventQueue" \notin Server
    BY Names
  <2>4. QED  BY <1>2, <2>2, <2>3
<1>11. CASE UNCHANGED vars
  BY <1>2, <1>11 DEF vars
<1>12. QED
  BY <1>3, <1>4, <1>5, <1>6, <1>7, <1>8, <1>9, <1>10, <1>11 DEF Next

\* Time passes for what waits only while a server waits for a descriptor.
LEMMA DelayTicks ==
  ASSUME RoundInv, Tick, NEW s, s \in ready \cup Pending
  PROVE  Delay(s)' + 1 = Delay(s)
<1>1. /\ applicant # Nobody /\ waited < Block /\ waited' = waited + 1
      /\ ready' = ready /\ applicant' = applicant
  BY DEF Tick
<1>2. Block \in Nat /\ waited \in 0..Block
  BY KeepAliveAssumption DEF RoundInv, TypeOK
<1>3. Rest' + 1 = Rest /\ Rest \in Nat /\ Rest' \in Nat
  BY <1>1, <1>2 DEF Rest
<1> DEFINE x == (Waiting + (IF s \in ready THEN 0 ELSE Cardinality(Server))) * Block
<1>4. x \in Nat
  <2> DEFINE k == Waiting + (IF s \in ready THEN 0 ELSE Cardinality(Server))
  <2>1. Waiting \in Nat /\ Cardinality(Server) \in Nat
    BY DelayTyped
  <2>2. k \in Nat
    BY <2>1
  <2> HIDE DEF k
  <2>3. k * Block \in Nat
    BY <1>2, <2>2, Waits
  <2>4. QED  BY <2>3 DEF k
<1>5. Waiting' = Waiting
  BY <1>1 DEF Waiting
<1>6. Delay(s) = Rest + x /\ Delay(s)' = Rest' + x
  BY <1>1, <1>5 DEF Delay
<1> HIDE DEF x
<1>7. \A a, b \in Nat : b + 1 = a => (b + x) + 1 = a + x
  BY <1>4
<1>8. (Rest' + x) + 1 = Rest + x
  BY <1>3, <1>7
<1>9. QED  BY <1>6, <1>8

\* The bound on the delays, as a predicate of the state.
DelaysBounded == LongestWait \in Nat /\ \A s : Delay(s) \in Nat /\ Delay(s) <= LongestWait

\* It holds in every round.
LEMMA DelayBefore == RoundInv => DelaysBounded
BY DelayTyped DEF DelaysBounded

\* It holds after a step as well.
LEMMA DelayAfter == RoundInv' => DelaysBounded'
BY DelayBefore, PTL

-----------------------------------------------------------------------------
(* The heartbeat *)

\* A timer that runs is older by what passed, and expires when it wraps.
LEMMA TimerTicks ==
  ASSUME RoundInv, Tick, NEW t \in Timer
  PROVE  /\ phase[t] \in Nat /\ phase[t] < Period(t) /\ Period(t) \in Nat
         /\ t \in expired => t \in expired'
         /\ t \in expired' /\ t \notin expired => phase[t] + 1 = Period(t)
         /\ t \notin expired' => phase'[t] = phase[t] + 1
<1>1. phase[t] \in Nat /\ phase[t] < Period(t) /\ Period(t) \in Nat \ {0}
  BY TimersStay DEF RoundInv, TypeOK
<1>2. phase'[t] = IF phase[t] + 1 = Period(t) THEN 0 ELSE phase[t] + 1
  <2>1. phase'[t] = (phase[t] + 1) % Period(t)
    BY DEF Tick
  <2>2. QED  BY <1>1, <2>1, Wraps
<1>3. Timer' = Timer
  BY DEF Tick, Timer, options
<1>4. t \in expired' <=> t \in expired \/ phase'[t] = 0
  BY <1>3 DEF Tick
<1>5. QED  BY <1>1, <1>2, <1>4

\* A step that takes no time changes a timer only to dispatch it.
LEMMA TimersKept ==
  ASSUME RoundInv, [Next]_vars, ~Tick, NEW t \in Timer, t \in expired
  PROVE  /\ phase' = phase
         /\ t \in expired' => Delay(t)' <= Delay(t)
<1>1. ASSUME t \in expired', t \in ready PROVE t \in ready'
  <2>1. t \notin Server /\ t \notin Client /\ t # "StateManagerEventQueue"
    BY TimersStay DEF RoundInv
  <2>2. ready # {}
    BY <1>1
  <2>3. QED
    BY <1>1, <2>1, <2>2 DEF Next, vars, Poll, Send, ReadCallback, AcceptCallback,
       AcceptReturns, CollectorsTimer, Watchdog, requestHandler, Dispatch,
       doMonitorCollector, doRemoveCollector, doUpdateWakeLock
<1>2. t \in Pending /\ t \notin Server
  BY TimersStay DEF RoundInv, Pending
<1>3. phase' = phase
  BY DEF Next, vars, timers, Poll, Send, ReadCallback, AcceptCallback, AcceptReturns,
     CollectorsTimer, Watchdog, requestHandler
<1>4. QED  BY <1>1, <1>2, <1>3, DelayKept

\* A heartbeat is due when the timer has run its period, and then waits.
LEMMA InitBeatInv == Init => BeatInv
<1> SUFFICES ASSUME Init, usec > 0 PROVE BeatInv
  BY DEF BeatInv
<1>1. "Watchdog" \in Timer
  BY DEF Timer
<1>2. QED  BY <1>1 DEF Init, BeatInv

\* Every step keeps the bound of the heartbeat.
LEMMA NextBeatInv ==
  ASSUME RoundInv, RoundInv', BeatInv, [Next]_vars
  PROVE  BeatInv'
<1>1. UNCHANGED <<timeout, usec>>
  BY DEF Next, vars, options, Tick, Poll, Send, ReadCallback, AcceptCallback,
     AcceptReturns, CollectorsTimer, Watchdog, requestHandler
<1> SUFFICES ASSUME usec > 0
             PROVE  BeatInv'
  BY <1>1 DEF BeatInv
<1> DEFINE p == Period("Watchdog")
           w == LongestWait
<1>2. /\ "Watchdog" \in Timer /\ p \in Nat \ {0} /\ p' = p
      /\ phase["Watchdog"] \in Nat /\ phase["Watchdog"] < p /\ beat \in Nat
  BY <1>1, TimersStay DEF RoundInv, TypeOK, Period
<1>3. /\ Delay("Watchdog") \in Nat /\ Delay("Watchdog") <= w /\ w \in Nat /\ w' = w
      /\ Delay("Watchdog")' \in Nat /\ Delay("Watchdog")' <= w
  BY DelayBefore, DelayAfter DEF DelaysBounded, LongestWait
<1>4. IF "Watchdog" \in expired THEN beat + Delay("Watchdog") <= p + w
                                ELSE beat <= phase["Watchdog"]
  BY DEF BeatInv
<1>5. SUFFICES IF "Watchdog" \in expired' THEN beat' + Delay("Watchdog")' <= p + w
                                          ELSE beat' <= phase'["Watchdog"]
  BY <1>2, <1>3 DEF BeatInv
<1> HIDE DEF p, w
<1>6. CASE Tick
  <2>1. beat' = beat + 1
    BY <1>1, <1>6 DEF Tick
  <2>2. /\ "Watchdog" \in expired => "Watchdog" \in expired'
        /\ "Watchdog" \in expired' /\ "Watchdog" \notin expired => phase["Watchdog"] + 1 = p
        /\ "Watchdog" \notin expired' => phase'["Watchdog"] = phase["Watchdog"] + 1
    BY <1>2, <1>6, TimerTicks DEF p
  <2>3. CASE "Watchdog" \in expired
    <3>1. Delay("Watchdog")' + 1 = Delay("Watchdog")
      BY <1>6, <2>3, DelayTicks DEF Pending
    <3>2. QED  BY <1>2, <1>3, <1>4, <2>1, <2>2, <2>3, <3>1
  <2>4. CASE "Watchdog" \notin expired
    BY <1>2, <1>3, <1>4, <2>1, <2>2, <2>4
  <2>5. QED  BY <2>3, <2>4
<1>7. CASE ~Tick /\ Watchdog
  <2>1. beat' = 0 /\ "Watchdog" \notin expired' /\ phase' = phase
    BY <1>7 DEF Watchdog
  <2>2. QED  BY <1>2, <2>1
<1>8. CASE ~Tick /\ ~Watchdog
  <2>1. beat' = beat /\ ("Watchdog" \in expired' <=> "Watchdog" \in expired) /\ phase' = phase
    BY <1>8 DEF Next, vars, timers, Poll, Send, ReadCallback, AcceptCallback,
       AcceptReturns, CollectorsTimer, requestHandler
  <2>2. CASE "Watchdog" \in expired
    <3>1. Delay("Watchdog")' <= Delay("Watchdog")
      BY <1>2, <1>8, <2>1, <2>2, TimersKept
    <3>2. QED  BY <1>2, <1>3, <1>4, <2>1, <2>2, <3>1
  <2>3. CASE "Watchdog" \notin expired
    BY <1>4, <2>1, <2>3
  <2>4. QED  BY <2>2, <2>3
<1>9. QED  BY <1>6, <1>7, <1>8

\* startWatchdog asks for a heartbeat in every half of what systemd waits: none
\* comes later where the other half covers the wait for descriptors, whatever the
\* clients and the other sources do.
THEOREM HeartbeatComesInTime == Spec => []HeartbeatInTime
<1>1. RoundInv /\ BeatInv => HeartbeatInTime
  <2> SUFFICES ASSUME RoundInv, BeatInv, usec > 0, usec \div 2 + LongestWait <= usec
               PROVE  beat <= usec
    BY DEF HeartbeatInTime
  <2>1. /\ "Watchdog" \in Timer /\ Period("Watchdog") = usec \div 2
        /\ phase["Watchdog"] \in Nat /\ phase["Watchdog"] < Period("Watchdog")
        /\ beat \in Nat /\ usec \in Nat
    BY TimersStay DEF RoundInv, TypeOK, Period
  <2>2. Delay("Watchdog") \in Nat /\ LongestWait \in Nat
    BY DelayTyped
  <2>3. CASE "Watchdog" \in expired
    <3>1. beat + Delay("Watchdog") <= usec \div 2 + LongestWait
      BY <2>1, <2>3 DEF BeatInv
    <3>2. QED  BY <2>1, <2>2, <3>1
  <2>4. CASE "Watchdog" \notin expired
    <3>1. beat <= phase["Watchdog"]
      BY <2>4 DEF BeatInv
    <3>2. QED  BY <2>1, <2>2, <3>1
  <2>5. QED  BY <2>3, <2>4
<1>2. RoundInv /\ RoundInv' /\ BeatInv /\ [Next]_vars => BeatInv'
  BY NextBeatInv
<1>3. QED  BY <1>1, <1>2, InitBeatInv, RoundInvariant, PTL DEF Spec

-----------------------------------------------------------------------------
(* The obedient clients *)

\* A message that is not read yet waits no longer because of a step that takes no
\* time and leaves its session open.
LEMMA MessageKept ==
  ASSUME RoundInv, [Next]_vars, ~Tick, NEW c \in Client, c \in unread, c \in open',
         c \in unread'
  PROVE  Delay(c)' <= Delay(c)
<1>1. /\ c \notin Server /\ c # "CollectorsStateTimer" /\ c # "Watchdog"
      /\ c # "StateManagerEventQueue"
  BY Names
<1>2. c \in ready => c \in ready'
  <2> SUFFICES ASSUME c \in ready PROVE c \in ready'
    OBVIOUS
  <2>1. CASE requestHandler
    <3>1. PICK d \in Client, args \in SUBSET {"WithEventSource"} :
            doMonitorCollector(d) \/ doRemoveCollector(d, args) \/ doUpdateWakeLock(d)
      BY <2>1, Handlers
    <3>2. QED
      BY <1>1, <3>1 DEF doMonitorCollector, doRemoveCollector, doUpdateWakeLock
  <2>2. CASE ~requestHandler
    BY <1>1, <2>2 DEF Next, vars, Poll, Send, ReadCallback, AcceptCallback,
       AcceptReturns, CollectorsTimer, Watchdog, Dispatch
  <2>3. QED  BY <2>1, <2>2
<1>3. c \in Pending
  BY DEF Pending
<1>4. QED  BY <1>1, <1>2, <1>3, DelayKept

\* Nobody is open at a start.
LEMMA InitAttendedInv == Init => AttendedInv
BY DEF Init, AttendedInv

\* Every step keeps the bound of an obedient client.
LEMMA NextAttendedInv ==
  ASSUME RoundInv, RoundInv', AttendedInv, [Next]_vars
  PROVE  AttendedInv'
<1> DEFINE k == KeepAliveInterval
           w == LongestWait
<1>1. timeout' = timeout /\ k' = k /\ k \in Nat
  <2>1. timeout' = timeout
    BY DEF Next, vars, options, Tick, Poll, Send, ReadCallback, AcceptCallback,
       AcceptReturns, CollectorsTimer, Watchdog, requestHandler
  <2>2. QED  BY <2>1 DEF KeepAliveInterval, RoundInv, TypeOK
<1>2. SUFFICES ASSUME NEW c \in open' \cap Obedient
               PROVE  /\ quiet'[c] <= k
                      /\ IF c \in unread' THEN age'[c] + Delay(c)' <= k + w
                         ELSE age'[c] <= quiet'[c]
  BY <1>1 DEF AttendedInv, LongestWait
<1>3. /\ c \in Client /\ age[c] \in Nat /\ quiet[c] \in Nat
      /\ age'[c] \in Nat /\ quiet'[c] \in Nat
  BY KeepAliveAssumption DEF RoundInv, TypeOK
<1>4. /\ Delay(c) \in Nat /\ Delay(c) <= w /\ w \in Nat
      /\ Delay(c)' \in Nat /\ Delay(c)' <= w
  BY DelayBefore, DelayAfter DEF DelaysBounded, LongestWait
<1>5. c \in open => /\ quiet[c] <= k
                    /\ IF c \in unread THEN age[c] + Delay(c) <= k + w
                       ELSE age[c] <= quiet[c]
  BY <1>2 DEF AttendedInv
<1> HIDE DEF k, w
<1>6. CASE Tick
  <2>1. /\ c \in open /\ quiet[c] < k /\ unread' = unread
        /\ age'[c] = age[c] + 1 /\ quiet'[c] = quiet[c] + 1
    BY <1>2, <1>3, <1>6 DEF Tick, Watched, k
  <2>2. CASE c \in unread
    <3>1. Delay(c)' + 1 = Delay(c)
      BY <1>6, <2>2, DelayTicks DEF Pending
    <3>2. QED  BY <1>1, <1>3, <1>4, <1>5, <2>1, <2>2, <3>1
  <2>3. CASE c \notin unread
    BY <1>1, <1>3, <1>5, <2>1, <2>3
  <2>4. QED  BY <2>2, <2>3
<1>7. CASE ~Tick /\ Send(c)
  <2>1. quiet'[c] = 0 /\ age' = age /\ c \in unread' /\ c \in open
    BY <1>3, <1>7 DEF Send, RoundInv, TypeOK
  <2>2. CASE c \in unread
    <3>1. Delay(c)' <= Delay(c)
      BY <1>2, <1>3, <1>7, <2>1, <2>2, MessageKept
    <3>2. QED  BY <1>1, <1>3, <1>4, <1>5, <2>1, <2>2, <3>1
  <2>3. CASE c \notin unread
    BY <1>1, <1>3, <1>4, <1>5, <2>1, <2>3
  <2>4. QED  BY <2>2, <2>3
<1>8. CASE ~Tick /\ ReadCallback(c)
  <2>1. age'[c] = 0 /\ quiet' = quiet /\ c \notin unread' /\ c \in open
    BY <1>2, <1>3, <1>8 DEF ReadCallback, ReadAll, ReadAndLeave, Update, RoundInv, TypeOK
  <2>2. QED  BY <1>3, <1>5, <2>1
<1>9. CASE ~Tick /\ c \notin open
  <2>1. c \notin unread
    BY <1>9 DEF RoundInv, TypeOK
  <2>2. AcceptReturns /\ open' = open \cup {applicant} /\ applicant = c
    <3>1. AcceptReturns
      BY <1>2, <1>9 DEF Next, vars, sessions, Poll, Send, ReadCallback, ReadAll,
         ReadAndLeave, AcceptCallback, CollectorsTimer, Watchdog, requestHandler,
         doMonitorCollector, doRemoveCollector, doUpdateWakeLock
    <3>2. QED  BY <1>2, <1>9, <3>1 DEF AcceptReturns, sessions
  <2>3. /\ age' = [age EXCEPT ![c] = 0] /\ quiet' = [quiet EXCEPT ![c] = 0]
        /\ unread' = unread
    BY <1>9, <1>2, <2>2 DEF AcceptReturns, sessions
  <2>4. age'[c] = 0 /\ quiet'[c] = 0 /\ c \notin unread'
    BY <1>3, <2>1, <2>3 DEF RoundInv, TypeOK
  <2>5. QED  BY <1>1, <2>4
<1>10. CASE ~Tick /\ ~Send(c) /\ ~ReadCallback(c) /\ c \in open
  <2> DEFINE same == /\ age'[c] = age[c]
                     /\ quiet'[c] = quiet[c]
                     /\ c \in unread' <=> c \in unread
  <2>1. same
    <3>1. CASE AcceptReturns
      <4>1. applicant # c
        BY <1>3, <1>10 DEF RoundInv, Referenced
      <4>2. QED  BY <1>3, <3>1, <4>1 DEF AcceptReturns, sessions, RoundInv, TypeOK
    <3>2. ASSUME NEW d \in Client, Send(d) \/ ReadCallback(d)
          PROVE  same
      BY <1>3, <1>10, <3>2 DEF Send, ReadCallback, ReadAll, ReadAndLeave, Update,
         RoundInv, TypeOK
    <3>3. CASE requestHandler
      <4>1. PICK d \in Client, args \in SUBSET {"WithEventSource"} :
              doMonitorCollector(d) \/ doRemoveCollector(d, args) \/ doUpdateWakeLock(d)
        BY <3>3, Handlers
      <4>2. QED
        BY <1>2, <4>1 DEF doMonitorCollector, doRemoveCollector, doUpdateWakeLock, sessions
    <3>4. CASE UNCHANGED sessions
      BY <3>4 DEF sessions
    <3>5. QED
      BY <1>10, <3>1, <3>2, <3>3, <3>4 DEF Next, vars, Poll, AcceptCallback,
         CollectorsTimer, Watchdog
  <2>2. CASE c \in unread
    <3>1. Delay(c)' <= Delay(c)
      BY <1>2, <1>3, <1>10, <2>1, <2>2, MessageKept
    <3>2. QED  BY <1>1, <1>3, <1>4, <1>5, <1>10, <2>1, <2>2, <3>1
  <2>3. CASE c \notin unread
    BY <1>5, <1>10, <2>1, <2>3
  <2>4. QED  BY <2>2, <2>3
<1>11. QED  BY <1>6, <1>7, <1>8, <1>9, <1>10

\* The queue holds what it held and is not handled, what AcceptReturns pushes, the
\* removals of those that are inactive when the timer is dispatched and of those
\* whose session ended, and what the handlers push.
LEMMA RemovalsAsked ==
  ASSUME RoundInv, [Next]_vars, NEW c \in Client
  PROVE  /\ TimedOut(c)' /\ ~TimedOut(c) =>
              CollectorsTimer /\ c \in monitored /\ Inactive(c)
         /\ Removed(c) /\ ~Removed(c)' => c \notin monitored'
         /\ CollectorsTimer /\ c \in monitored /\ Inactive(c) => Removed(c)'
         /\ ReadCallback(c) /\ c \notin open' => Removed(c)'
<1> DEFINE W == {"WithEventSource"}
<1>1. requests \in Seq(Request) /\ monitored \subseteq Client
  BY DEF RoundInv, TypeOK
<1>2. \A d, args : MonitorCollector(d) # RemoveCollector(c, args)
  BY DEF MonitorCollector, RemoveCollector
<1>3. \A d, a, b : RemoveCollector(d, a) = RemoveCollector(c, b) => d = c /\ a = b
  BY DEF RemoveCollector
<1>4. ASSUME \A i \in DOMAIN requests : i \in DOMAIN requests' /\ requests'[i] = requests[i]
      PROVE  Removed(c) => Removed(c)'
  BY <1>4 DEF Removed, TimedOut
<1>5. CASE requests' = requests /\ ~CollectorsTimer /\ ~ReadCallback(c)
  BY <1>5 DEF Removed, TimedOut
<1>6. CASE CollectorsTimer
  <2>1. PICK order \in SetToSeqs({RemoveCollector(d, W) : d \in {e \in monitored : Inactive(e)}}) :
          requests' = requests \o order
    BY <1>6 DEF CollectorsTimer
  <2>2. /\ order \in Seq(Request)
        /\ \A i \in DOMAIN order :
             \E d \in monitored : Inactive(d) /\ order[i] = RemoveCollector(d, W)
        /\ \A d \in monitored : Inactive(d) =>
             \E i \in DOMAIN order : order[i] = RemoveCollector(d, W)
    BY InactiveOrder
  <2>3. /\ \A i \in DOMAIN requests : i \in DOMAIN requests' /\ requests'[i] = requests[i]
        /\ \A i \in DOMAIN order : \E j \in DOMAIN requests' : requests'[j] = order[i]
        /\ \A i \in DOMAIN requests' :
             \/ i \in DOMAIN requests /\ requests'[i] = requests[i]
             \/ \E j \in DOMAIN order : requests'[i] = order[j]
    BY <1>1, <2>1, <2>2, Appended
  <2>4. ASSUME TimedOut(c)', ~TimedOut(c)
        PROVE  c \in monitored /\ Inactive(c)
    <3>1. PICK i \in DOMAIN requests' : requests'[i] = RemoveCollector(c, W)
      BY <2>4 DEF TimedOut
    <3>2. PICK j \in DOMAIN order : requests'[i] = order[j]
      BY <2>3, <2>4, <3>1 DEF TimedOut
    <3>3. PICK d \in monitored : Inactive(d) /\ order[j] = RemoveCollector(d, W)
      BY <2>2
    <3>4. d = c
      <4>1. RemoveCollector(d, W) = RemoveCollector(c, W)
        BY <3>1, <3>2, <3>3
      <4>2. RemoveCollector(d, W).collector = RemoveCollector(c, W).collector
        BY <4>1
      <4>3. QED  BY <4>2, Requests
    <3>5. QED  BY <3>3, <3>4
  <2>5. ASSUME c \in monitored, Inactive(c) PROVE Removed(c)'
    <3>1. PICK i \in DOMAIN order : order[i] = RemoveCollector(c, W)
      BY <2>2, <2>5
    <3>2. PICK j \in DOMAIN requests' : requests'[j] = RemoveCollector(c, W)
      BY <2>3, <3>1
    <3>3. QED  BY <3>2 DEF Removed, TimedOut
  <2>6. ~ReadCallback(c)
    <3>1. c # "CollectorsStateTimer"
      BY Names
    <3>2. QED  BY <1>6, <3>1 DEF CollectorsTimer, ReadCallback, Dispatch
  <2>7. QED  BY <1>4, <1>6, <2>3, <2>4, <2>5, <2>6
<1>7. ASSUME NEW r \in Request, requests' = Append(requests, r), ~CollectorsTimer,
             r # RemoveCollector(c, W), ReadCallback(c) => r = RemoveCollector(c, {})
      PROVE  /\ TimedOut(c)' => TimedOut(c)
             /\ Removed(c) => Removed(c)'
             /\ ReadCallback(c) => Removed(c)'
  <2>1. /\ \A i \in DOMAIN requests : i \in DOMAIN requests' /\ requests'[i] = requests[i]
        /\ \E j \in DOMAIN requests' : requests'[j] = r
        /\ \A i \in DOMAIN requests' :
             \/ i \in DOMAIN requests /\ requests'[i] = requests[i]
             \/ requests'[i] = r
    BY <1>1, <1>7, AppendedOne
  <2>2. TimedOut(c)' => TimedOut(c)
    BY <1>7, <2>1 DEF TimedOut
  <2>3. ReadCallback(c) => Removed(c)'
    BY <1>7, <2>1 DEF Removed
  <2>4. QED  BY <1>4, <2>1, <2>2, <2>3
<1>8. CASE AcceptReturns /\ requests' = Append(requests, MonitorCollector(applicant))
           /\ applicant \in Client
  <2> DEFINE r == MonitorCollector(applicant)
  <2>1. r \in Request /\ r # RemoveCollector(c, W)
    BY <1>2, <1>8, Requests
  <2>2. requests' = Append(requests, r)
    BY <1>8
  <2>3. ~CollectorsTimer /\ ~ReadCallback(c)
    BY <1>8 DEF AcceptReturns, CollectorsTimer, ReadCallback, Dispatch
  <2> HIDE DEF r
  <2>4. /\ TimedOut(c)' => TimedOut(c)
        /\ Removed(c) => Removed(c)'
    BY <1>7, <2>1, <2>2, <2>3
  <2>5. QED  BY <2>3, <2>4
<1>9. ASSUME NEW d \in Client, ReadCallback(d), ReadAndLeave(d)
      PROVE  /\ TimedOut(c)' => TimedOut(c)
             /\ Removed(c) => Removed(c)'
             /\ ~CollectorsTimer
             /\ ReadCallback(c) => Removed(c)'
  <2> DEFINE r == RemoveCollector(d, {})
  <2>1. r \in Request
    BY Requests
  <2>2. r # RemoveCollector(c, W)
    <3>1. {} # W
      OBVIOUS
    <3>2. QED  BY <1>3, <3>1
  <2>3. requests' = Append(requests, r)
    BY <1>9 DEF ReadAndLeave
  <2>4. ~CollectorsTimer
    <3>1. d # "CollectorsStateTimer"
      BY Names
    <3>2. QED  BY <1>9, <3>1 DEF CollectorsTimer, ReadCallback, Dispatch
  <2>5. ReadCallback(c) => r = RemoveCollector(c, {})
    <3>1. ReadCallback(c) => c = d
      BY <1>9 DEF ReadCallback, Dispatch
    <3>2. QED  BY <3>1
  <2> HIDE DEF r
  <2>6. QED  BY <1>7, <2>1, <2>2, <2>3, <2>4, <2>5
<1>10. ASSUME NEW d \in Client, ReadCallback(d), ReadAll(d)
       PROVE  /\ TimedOut(c)' => TimedOut(c)
              /\ Removed(c) => Removed(c)'
              /\ ~CollectorsTimer
              /\ ReadCallback(c) => c \in open'
  <2>1. ~CollectorsTimer
    <3>1. d # "CollectorsStateTimer"
      BY Names
    <3>2. QED  BY <1>10, <3>1 DEF CollectorsTimer, ReadCallback, Dispatch
  <2>2. requests' = requests /\ open' = open
    BY <1>10 DEF ReadAll
  <2>3. ReadCallback(c) => c \in open
    BY DEF ReadCallback, Dispatch, RoundInv, TypeOK
  <2>4. QED  BY <2>1, <2>2, <2>3 DEF Removed, TimedOut
<1>11. CASE requestHandler
  <2>1. /\ Head(requests) = requests[1]
        /\ \A i \in DOMAIN requests' :
             \/ i + 1 \in DOMAIN requests /\ requests'[i] = requests[i + 1]
             \/ requests'[i].args = {}
        /\ \A i \in DOMAIN requests : i # 1 =>
             \E j \in DOMAIN requests' : requests'[j] = requests[i]
    BY <1>11, Handled
  <2>2. TimedOut(c)' => TimedOut(c)
    <3>1. RemoveCollector(c, W).args # {}
      BY Requests
    <3>2. QED  BY <2>1, <3>1 DEF TimedOut
  <2>3. ASSUME Removed(c), ~Removed(c)' PROVE c \notin monitored'
    <3>1. PICK i \in DOMAIN requests, a \in {{}, W} : requests[i] = RemoveCollector(c, a)
      BY <2>3 DEF Removed, TimedOut
    <3>2. i = 1
      BY <2>1, <2>3, <3>1 DEF Removed, TimedOut
    <3>3. Head(requests) = RemoveCollector(c, a)
      BY <2>1, <3>1, <3>2
    <3>4. PICK d \in Client, args \in SUBSET W :
            doMonitorCollector(d) \/ doRemoveCollector(d, args) \/ doUpdateWakeLock(d)
      BY <1>11, Handlers
    <3>5. \A e : UpdateWakeLock(e) # RemoveCollector(c, a)
      BY DEF UpdateWakeLock, RemoveCollector
    <3>6. d = c /\ doRemoveCollector(d, args)
      BY <1>2, <1>3, <3>3, <3>4, <3>5 DEF doMonitorCollector, doRemoveCollector,
         doUpdateWakeLock
    <3>7. QED  BY <3>6 DEF doRemoveCollector
  <2>4. ~CollectorsTimer /\ ~ReadCallback(c)
    <3>1. "StateManagerEventQueue" \notin ready' /\ "StateManagerEventQueue" \in ready
      BY <1>11 DEF requestHandler, doMonitorCollector, doRemoveCollector, doUpdateWakeLock
    <3>2. c # "StateManagerEventQueue"
      BY Names
    <3>3. QED  BY <3>1, <3>2 DEF CollectorsTimer, ReadCallback, Dispatch
  <2>5. QED  BY <2>2, <2>3, <2>4
<1>12. CASE ReadCallback(c)
  BY <1>9, <1>10, <1>12 DEF ReadCallback
<1>13. ASSUME NEW d \in Client, ReadCallback(d), ~ReadCallback(c)
       PROVE  /\ TimedOut(c)' => TimedOut(c)
              /\ Removed(c) => Removed(c)'
              /\ ~CollectorsTimer
  BY <1>9, <1>10, <1>13 DEF ReadCallback
<1>14. CASE (\E d \in Client : ReadCallback(d)) /\ ~ReadCallback(c)
  BY <1>13, <1>14
<1>15. QED
  BY <1>5, <1>6, <1>8, <1>11, <1>12, <1>14 DEF Next, vars, Tick, Poll, Send,
     AcceptCallback, AcceptReturns, Watchdog

\* An obedient client whose wait is covered is not inactive.
LEMMA ObedientActive ==
  ASSUME RoundInv, AttendedInv, KeepAliveInterval + LongestWait <= timeout,
         NEW c \in open \cap Obedient
  PROVE  ~Inactive(c)
<1>1. timeout \in Nat /\ age[c] \in Nat /\ quiet[c] \in Nat
  BY DEF RoundInv, TypeOK
<1>2. KeepAliveInterval \in Nat
  BY <1>1 DEF KeepAliveInterval
<1>3. Delay(c) \in Nat /\ LongestWait \in Nat
  BY DelayTyped
<1>4. age[c] <= KeepAliveInterval + LongestWait
  <2>1. CASE c \in unread
    <3>1. age[c] + Delay(c) <= KeepAliveInterval + LongestWait
      BY <2>1 DEF AttendedInv
    <3>2. QED  BY <1>1, <1>2, <1>3, <3>1
  <2>2. CASE c \notin unread
    <3>1. age[c] <= quiet[c] /\ quiet[c] <= KeepAliveInterval
      BY <2>2 DEF AttendedInv
    <3>2. QED  BY <1>1, <1>2, <1>3, <3>1
  <2>3. QED  BY <2>1, <2>2
<1>5. QED  BY <1>1, <1>2, <1>3, <1>4 DEF Inactive

\* config/taskmonitor.conf.in: a client that sends a request in every half of the
\* timeout keeps its session, where the other half covers the wait of its messages
\* for descriptors, however many clients there are and whatever they do.
THEOREM ObedientAreKept == Spec => []ObedientKeptWithSlack
<1>1. Init => ObedientKeptWithSlack
  BY DEF Init, ObedientKeptWithSlack, ObedientKept, TimedOut
<1>2. ASSUME RoundInv, AttendedInv, ObedientKeptWithSlack, [Next]_vars
      PROVE  ObedientKeptWithSlack'
  <2>1. UNCHANGED timeout
    BY <1>2 DEF Next, vars, options, Tick, Poll, Send, ReadCallback, AcceptCallback,
       AcceptReturns, CollectorsTimer, Watchdog, requestHandler
  <2>2. KeepAliveInterval' = KeepAliveInterval /\ LongestWait' = LongestWait
    BY <2>1 DEF KeepAliveInterval, LongestWait
  <2>3. SUFFICES ASSUME KeepAliveInterval + LongestWait <= timeout,
                        NEW c \in Obedient \cap open'
                 PROVE  ~TimedOut(c)'
    BY <2>1, <2>2 DEF ObedientKeptWithSlack, ObedientKept
  <2>4. c \in Client
    BY KeepAliveAssumption
  <2>5. CASE c \in open
    <3>1. ~TimedOut(c) /\ ~Inactive(c)
      BY <1>2, <2>3, <2>5, ObedientActive DEF ObedientKeptWithSlack, ObedientKept
    <3>2. QED  BY <1>2, <2>4, <3>1, RemovalsAsked
  <2>6. CASE c \notin open
    <3>1. AcceptReturns /\ applicant = c
      BY <1>2, <2>3, <2>6 DEF Next, vars, sessions, Tick, Poll, Send, ReadCallback,
         ReadAll, ReadAndLeave, AcceptCallback, AcceptReturns, CollectorsTimer, Watchdog,
         requestHandler, doMonitorCollector, doRemoveCollector, doUpdateWakeLock
    <3>2. ~TimedOut(c)
      BY <1>2, <2>4, <3>1, Requests DEF RoundInv, Referenced, TimedOut
    <3>3. ~CollectorsTimer
      BY <3>1 DEF AcceptReturns, CollectorsTimer, Dispatch
    <3>4. QED  BY <1>2, <2>4, <3>2, <3>3, RemovalsAsked
  <2>7. QED  BY <2>5, <2>6
<1>3. RoundInv /\ RoundInv' /\ AttendedInv /\ [Next]_vars => AttendedInv'
  BY NextAttendedInv
<1>4. QED
  BY <1>1, <1>2, <1>3, InitAttendedInv, RoundInvariant, PTL DEF Spec

-----------------------------------------------------------------------------
(* The silent clients *)

\* Nobody is listed at a start.
LEMMA InitNoticedInv == Init => NoticedInv
BY DEF Init, NoticedInv

\* Every step keeps the bound of a listed client.
LEMMA NextNoticedInv ==
  ASSUME RoundInv, RoundInv', NoticedInv, [Next]_vars
  PROVE  NoticedInv'
<1> DEFINE w == LongestWait
           t == "CollectorsStateTimer"
<1>1. UNCHANGED <<timeout, usec>>
  BY DEF Next, vars, options, Tick, Poll, Send, ReadCallback, AcceptCallback,
     AcceptReturns, CollectorsTimer, Watchdog, requestHandler
<1>2. SUFFICES ASSUME NEW c \in monitored', ~Removed(c)'
               PROVE  IF t \in expired' THEN age'[c] + Delay(t)' <= 2 * timeout + late'[c] + w
                      ELSE age'[c] <= timeout + late'[c] + phase'[t]
  BY <1>1 DEF NoticedInv, LongestWait
<1>3. /\ c \in Client /\ timeout \in Nat /\ t \in Timer
      /\ age[c] \in Nat /\ late[c] \in Nat /\ age'[c] \in Nat /\ late'[c] \in Nat
      /\ phase[t] \in Nat /\ phase[t] < timeout /\ phase'[t] \in Nat
  <2>1. t \in Timer /\ t \in Timer' /\ Period(t) = timeout
    BY <1>1, TimersStay DEF RoundInv, Timer
  <2>2. QED  BY <1>2, <2>1 DEF RoundInv, TypeOK
<1>4. /\ Delay(t) \in Nat /\ Delay(t) <= w /\ w \in Nat
      /\ Delay(t)' \in Nat /\ Delay(t)' <= w
  BY DelayBefore, DelayAfter DEF DelaysBounded, LongestWait
<1>5. /\ ~Removed(c)
      /\ CollectorsTimer /\ c \in monitored => ~Inactive(c)
      /\ ReadCallback(c) => c \in open'
  BY <1>2, <1>3, RemovalsAsked
<1>6. c \in monitored =>
        IF t \in expired THEN age[c] + Delay(t) <= 2 * timeout + late[c] + w
        ELSE age[c] <= timeout + late[c] + phase[t]
  BY <1>5 DEF NoticedInv
<1> HIDE DEF w
<1>7. CASE Tick
  <2>1. c \in monitored /\ age'[c] = age[c] + 1 /\ late' = late
    BY <1>2, <1>3, <1>7 DEF Tick, Watched
  <2>2. /\ t \in expired => t \in expired'
        /\ t \in expired' /\ t \notin expired => phase[t] + 1 = timeout
        /\ t \notin expired' => phase'[t] = phase[t] + 1
    BY <1>3, <1>7, TimerTicks DEF Period
  <2>3. CASE t \in expired
    <3>1. Delay(t)' + 1 = Delay(t)
      BY <1>7, <2>3, DelayTicks DEF Pending
    <3>2. QED  BY <1>3, <1>4, <1>6, <2>1, <2>2, <2>3, <3>1
  <2>4. CASE t \notin expired
    BY <1>3, <1>4, <1>6, <2>1, <2>2, <2>4
  <2>5. QED  BY <2>3, <2>4
<1>8. CASE CollectorsTimer
  <2>1. /\ c \in monitored /\ age' = age /\ late' = late /\ t \notin expired'
    BY <1>2, <1>8 DEF CollectorsTimer, sessions
  <2>2. age[c] <= timeout
    BY <1>3, <1>5, <1>8, <2>1 DEF Inactive
  <2>3. QED  BY <1>3, <2>1, <2>2
<1>9. CASE ~Tick /\ ~CollectorsTimer
  <2>1. (t \in expired' <=> t \in expired) /\ phase' = phase
    BY <1>9 DEF Next, vars, timers, Poll, Send, ReadCallback, AcceptCallback,
       AcceptReturns, Watchdog, requestHandler
  <2>2. t \in expired => Delay(t)' <= Delay(t)
    BY <1>3, <1>9, <2>1, TimersKept
  <2>3. CASE ReadCallback(c)
    <3>1. age'[c] = 0 /\ late'[c] = 0
      BY <1>3, <1>5, <2>3 DEF ReadCallback, ReadAll, ReadAndLeave, Update, RoundInv, TypeOK
    <3>2. QED  BY <1>3, <1>4, <3>1
  <2>4. CASE c \notin monitored
    <3>1. requestHandler
      BY <1>2, <1>9, <2>4 DEF Next, vars, sessions, Poll, Send, ReadCallback,
         AcceptCallback, AcceptReturns, Watchdog
    <3>2. PICK d \in Client, args \in SUBSET {"WithEventSource"} :
            doMonitorCollector(d) \/ doRemoveCollector(d, args) \/ doUpdateWakeLock(d)
      BY <3>1, Handlers
    <3>3. d = c /\ doMonitorCollector(d)
      BY <1>2, <2>4, <3>2 DEF doMonitorCollector, doRemoveCollector, doUpdateWakeLock,
         sessions
    <3>4. late'[c] = (IF Inactive(c) THEN age[c] - timeout ELSE 0) /\ age' = age
      BY <1>3, <3>3 DEF doMonitorCollector, RoundInv, TypeOK
    <3>5. age'[c] <= timeout + late'[c]
      BY <1>3, <3>4 DEF Inactive
    <3>6. QED  BY <1>3, <1>4, <3>5
  <2>5. CASE c \in monitored /\ ~ReadCallback(c)
    <3>1. age'[c] = age[c] /\ late'[c] = late[c]
      <4>1. CASE AcceptReturns
        <5>1. applicant # c
          BY <1>3, <2>5, <4>1 DEF RoundInv, Referenced
        <5>2. QED  BY <1>3, <4>1, <5>1 DEF AcceptReturns, sessions, RoundInv, TypeOK
      <4>2. ASSUME NEW d \in Client, Send(d) \/ ReadCallback(d)
            PROVE  age'[c] = age[c] /\ late'[c] = late[c]
        BY <1>3, <2>5, <4>2 DEF Send, ReadCallback, ReadAll, ReadAndLeave, Update,
           RoundInv, TypeOK
      <4>3. CASE requestHandler
        <5>1. PICK d \in Client, args \in SUBSET {"WithEventSource"} :
                doMonitorCollector(d) \/ doRemoveCollector(d, args) \/ doUpdateWakeLock(d)
          BY <4>3, Handlers
        <5>2. doUpdateWakeLock(d) \/ d # c
          <6>1. CASE doMonitorCollector(d)
            <7>1. /\ requests[1] = MonitorCollector(d) /\ 1 \in DOMAIN requests
                  /\ MonitorCollector(d).action = "MonitorCollector"
                  /\ MonitorCollector(d).collector = d
              BY <4>3, <6>1, Handled, Requests DEF doMonitorCollector
            <7>2. d \notin monitored
              BY <7>1 DEF RoundInv, MonitoredOnce
            <7>3. QED  BY <2>5, <7>2
          <6>2. CASE doRemoveCollector(d, args)
            BY <1>2, <6>2 DEF doRemoveCollector
          <6>3. QED  BY <5>1, <6>1, <6>2
        <5>3. QED
          BY <1>3, <5>1, <5>2 DEF doMonitorCollector, doRemoveCollector, doUpdateWakeLock,
             sessions, RoundInv, TypeOK
      <4>4. CASE UNCHANGED sessions
        BY <4>4 DEF sessions
      <4>5. QED
        BY <1>9, <4>1, <4>2, <4>3, <4>4 DEF Next, vars, Poll, AcceptCallback, Watchdog
    <3>2. CASE t \in expired
      BY <1>3, <1>4, <1>6, <2>1, <2>2, <2>5, <3>1, <3>2
    <3>3. CASE t \notin expired
      BY <1>3, <1>6, <2>1, <2>5, <3>1, <3>3
    <3>4. QED  BY <3>2, <3>3
  <2>6. QED  BY <2>3, <2>4, <2>5
<1>10. QED  BY <1>7, <1>8, <1>9

\* CollectorsStateTimer disconnects the clients that are silent: when one is listed
\* for twice the timeout since its last update, the wait for descriptors and what
\* its listing came late, its removal is queued, however many sessions there are.
THEOREM SilentAreNoticed == Spec => []SilentNoticed
<1>1. RoundInv /\ NoticedInv => SilentNoticed
  <2> SUFFICES ASSUME RoundInv, NoticedInv, NEW c \in monitored, ~Removed(c)
               PROVE  ~(age[c] > 2 * timeout + LongestWait + late[c])
    BY DEF SilentNoticed
  <2> DEFINE t == "CollectorsStateTimer"
  <2>1. /\ c \in Client /\ timeout \in Nat /\ age[c] \in Nat /\ late[c] \in Nat
        /\ phase[t] \in Nat /\ phase[t] < timeout
    BY TimersStay DEF RoundInv, TypeOK
  <2>2. Delay(t) \in Nat /\ LongestWait \in Nat
    BY DelayTyped
  <2>3. CASE t \in expired
    <3>1. age[c] + Delay(t) <= 2 * timeout + late[c] + LongestWait
      BY <2>3 DEF NoticedInv
    <3>2. QED  BY <2>1, <2>2, <3>1
  <2>4. CASE t \notin expired
    <3>1. age[c] <= timeout + late[c] + phase[t]
      BY <2>4 DEF NoticedInv
    <3>2. QED  BY <2>1, <2>2, <3>1
  <2>5. QED  BY <2>3, <2>4
<1>2. RoundInv /\ RoundInv' /\ NoticedInv /\ [Next]_vars => NoticedInv'
  BY NextNoticedInv
<1>3. QED  BY <1>1, <1>2, InitNoticedInv, RoundInvariant, PTL DEF Spec

=============================================================================
