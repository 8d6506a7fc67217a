------------------------------ MODULE CPUStat ------------------------------
(***************************************************************************)
(* The load of one processor as SysProcStat reports it: CPUStat takes the  *)
(* counters of a line of /proc/stat and turns their growth since the last  *)
(* line into percentages.                                                  *)
(*                                                                         *)
(* The counters are unsigned long and their arithmetic wraps, the          *)
(* percentages are cut to 32 bits.  The kernel may take counters back,     *)
(* when the system resumes from suspend above all, and it may not have     *)
(* counted anything between two updates.  The seven counters that are      *)
(* never reported on their own are one, "rest": they enter in sums only.   *)
(***************************************************************************)
EXTENDS Integers

CONSTANTS
  ULong,      \* 2^64, the values of an unsigned long
  UInt,       \* 2^32, the values of a uint32_t
  MaxTime     \* bound: the counters of a processor sum to less than ULong / 100

ASSUME CPUStatAssumption ==
  /\ MaxTime \in Nat /\ UInt \in Nat /\ ULong \in Nat
  /\ 100 * MaxTime < ULong /\ 300 < UInt

VARIABLES
  time,       \* the counters of the kernel
  m_last,     \* CPUStat::m_last
  m_data,     \* CPUStat::m_data
  crashed,    \* a division by zero ended the application
  prev,       \* history: the counters that the last update read
  interval,   \* history: their growth between the last two updates when both
              \* are known to be good
  steady      \* history: updates since the last resume, up to three

vars == <<time, m_last, m_data, crashed, prev, interval, steady>>

-----------------------------------------------------------------------------

CPUStatData(u, s, i, r) == [usr |-> u, sys |-> s, iow |-> i, rest |-> r]

Cleared == CPUStatData(0, 0, 0, 0)

Field == {"usr", "sys", "iow", "rest"}

\* The sum of the counters, without the wrap-around.
Sum(t) == t.usr + t.sys + t.iow + t.rest

\* The counters of the kernel within the bound.
Time == {t \in [usr : 0..MaxTime, sys : 0..MaxTime, iow : 0..MaxTime, rest : 0..MaxTime] :
           Sum(t) <= MaxTime}

\* Variant: written before the time of waiting for I/O was a field.
getTotalTimeNoIOWait(d) == (d.usr + d.sys + d.rest) % ULong

getTotalTime(d) == Sum(d) % ULong

Minus(d, p) ==
  CPUStatData(d.usr - p.usr, d.sys - p.sys, d.iow - p.iow, d.rest - p.rest)

getDiff(d, p) ==
  CPUStatData((d.usr - p.usr) % ULong, (d.sys - p.sys) % ULong,
              (d.iow - p.iow) % ULong, (d.rest - p.rest) % ULong)

\* getPercent and the cast of its result to uint32_t.
getPercent(d, f) == (((d[f] * 100) % ULong) \div getTotalTime(d)) % UInt

\* Variant: written before the time of waiting for I/O was a field.
ReportNoIOWait(u, s, i) ==
  [usr |-> u, sys |-> s, iow |-> i, all |-> (u + s) % UInt]

Report(u, s, i) ==
  [usr |-> u, sys |-> s, iow |-> i, all |-> (u + s + i) % UInt]

Init ==
  /\ time \in Time
  /\ m_last = Cleared /\ m_data = Report(0, 0, 0)
  /\ crashed = FALSE
  /\ prev = Cleared /\ interval = Cleared /\ steady = 1

-----------------------------------------------------------------------------

\* Time passes: the counters grow.
Tick ==
  /\ ~crashed
  /\ \E t \in Time \ {time} :
       /\ \A f \in Field : t[f] >= time[f]
       /\ time' = t
  /\ UNCHANGED <<m_last, m_data, crashed, prev, interval, steady>>

\* After a resume some counters are lower than before.
Resume ==
  /\ ~crashed
  /\ \E t \in Time :
       /\ \E f \in Field : t[f] < time[f]
       /\ time' = t
  /\ steady' = 0
  /\ UNCHANGED <<m_last, m_data, crashed, prev, interval>>

\* Variant: m_last stays where it was first set.
NewDataKeepLast(diff) ==
  /\ m_data' = Report(getPercent(diff, "usr"), getPercent(diff, "sys"),
                      getPercent(diff, "iow"))
  /\ m_last' = m_last

\* The percentages since m_last are accepted unless they sum to more than 100;
\* then m_last is cleared and the next update only reads.
NewData(diff) ==
  LET report == Report(getPercent(diff, "usr"), getPercent(diff, "sys"),
                       getPercent(diff, "iow")) IN
  IF report.all <= 100 THEN m_last' = time /\ m_data' = report
                       ELSE m_last' = Cleared /\ m_data' = m_data

updateStats ==
  /\ ~crashed
  /\ \/ /\ getTotalTime(m_last) = 0
        /\ m_last' = time
        /\ UNCHANGED <<m_data, crashed>>
     \/ /\ getTotalTime(m_last) # 0
        /\ LET diff == getDiff(time, m_last) IN
           \/ getTotalTime(diff) # 0 /\ NewData(diff) /\ UNCHANGED crashed
           \/ getTotalTime(diff) = 0 /\ crashed' = TRUE /\ UNCHANGED <<m_last, m_data>>
  /\ prev' = time
  /\ interval' = IF steady < 2 \/ Sum(prev) = 0 THEN Cleared ELSE Minus(time, prev)
  /\ steady' = IF steady = 3 THEN 3 ELSE steady + 1
  /\ UNCHANGED time

Next == Tick \/ Resume \/ updateStats

Spec == Init /\ [][Next]_vars

-----------------------------------------------------------------------------
(* Properties *)

\* Every variable has its type; the overall load is the sum of the parts.
TypeOK ==
  /\ time \in Time /\ prev \in Time /\ m_last \in Time
  /\ m_data \in [usr : 0..UInt - 1, sys : 0..UInt - 1, iow : 0..UInt - 1, all : 0..100]
  /\ m_data.all = (m_data.usr + m_data.sys + m_data.iow) % UInt
  /\ crashed \in BOOLEAN /\ steady \in 0..3

\* The percentage of a counter in the growth of all, rounded down.
Percent(t, f) == (100 * t[f]) \div Sum(t)

\* From the third update after a resume on, and from the second after the start,
\* what is reported is the load between the last two updates: neither the
\* wrap-around, nor the cut to 32 bits, nor what became of the data computed
\* across the resume shows in it.
ReportedExact ==
  ~crashed /\ steady = 3 /\ Sum(interval) # 0 =>
    \A f \in {"usr", "sys", "iow"} : m_data[f] = Percent(interval, f)

\* Rounding never makes good data look invalid: from the second update after a
\* resume on, every update is the base of the next one.
NothingDiscarded == ~crashed /\ steady >= 2 => m_last = prev

\* code: "During resume the computed time can be invalid depending when we
\* sleep, if not valid we clear m_last and copy only on the first valid data in
\* the next updates".  Data computed from a counter that went back is invalid.
ResumeDiscarded ==
  [][updateStats /\ (\E f \in Field : time[f] < m_last[f]) => m_data' = m_data]_vars

=============================================================================
