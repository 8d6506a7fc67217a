--------------------------- MODULE CPUStatProofs ---------------------------
(***************************************************************************)
(* What CPUStat reports is right for all widths of the integers and every  *)
(* course of the counters below the bound: the wrap-around, the cut to 32  *)
(* bits and the test for valid data do not show once the counters have     *)
(* grown through two updates.                                              *)
(***************************************************************************)
EXTENDS CPUStat, TLAPS

-----------------------------------------------------------------------------
(* Arithmetic *)

\* A difference that is not negative is not changed by the wrap-around.
LEMMA ModSmall ==
  ASSUME NEW n \in Nat, NEW x \in 0..(n - 1) PROVE x % n = x
  OBVIOUS

\* Integer division rounds down.
LEMMA Division ==
  ASSUME NEW a \in Nat, NEW d \in Nat \ {0}
  PROVE  /\ a \div d \in Nat
         /\ d * (a \div d) <= a
  OBVIOUS

\* The percentages of the parts a, b and c of d.
Rounded(a, b, c, d) ==
  /\ (100 * a) \div d \in 0..100
  /\ (100 * b) \div d \in 0..100
  /\ (100 * c) \div d \in 0..100
  /\ (100 * a) \div d + (100 * b) \div d + (100 * c) \div d <= 100

\* The percentages of three parts of d, each rounded down, are at most 100
\* together: the test of updateStats accepts them.
LEMMA FloorSum ==
  ASSUME NEW a \in Nat, NEW b \in Nat, NEW c \in Nat, NEW d \in Nat \ {0},
         a + b + c <= d
  PROVE  Rounded(a, b, c, d)
<1> DEFINE u == (100 * a) \div d
           s == (100 * b) \div d
           i == (100 * c) \div d
<1>1. u \in Nat /\ d * u <= 100 * a
  <2>1. 100 * a \in Nat OBVIOUS
  <2>2. QED BY <2>1, Division
<1>2. s \in Nat /\ d * s <= 100 * b
  <2>1. 100 * b \in Nat OBVIOUS
  <2>2. QED BY <2>1, Division
<1>3. i \in Nat /\ d * i <= 100 * c
  <2>1. 100 * c \in Nat OBVIOUS
  <2>2. QED BY <2>1, Division
<1> HIDE DEF u, s, i
<1>4. d * (u + s + i) <= 100 * d
  <2>1. d * (u + s + i) = d * u + d * s + d * i BY <1>1, <1>2, <1>3
  <2>2. QED BY <2>1, <1>1, <1>2, <1>3
<1>5. u + s + i <= 100
  <2>1. SUFFICES ASSUME u + s + i >= 101 PROVE FALSE BY <1>1, <1>2, <1>3
  <2>2. d * (u + s + i) >= d * 101 BY <2>1, <1>1, <1>2, <1>3
  <2>3. QED BY <2>2, <1>4, <1>1, <1>2, <1>3
<1>6. u <= 100 /\ s <= 100 /\ i <= 100 BY <1>5, <1>1, <1>2, <1>3
<1>7. QED BY <1>1, <1>2, <1>3, <1>5, <1>6 DEF u, s, i, Rounded

\* A sum of percentages fits 32 bits.
LEMMA SumKept ==
  ASSUME NEW u \in 0..100, NEW s \in 0..100, NEW i \in 0..100, u + s + i <= 100
  PROVE  Report(u, s, i).all = u + s + i
<1>1. u + s + i \in 0..100 OBVIOUS
<1>2. u + s + i \in 0..(UInt - 1) /\ UInt \in Nat BY <1>1, CPUStatAssumption
<1>3. (u + s + i) % UInt = u + s + i BY <1>2, ModSmall
<1>4. QED BY <1>3 DEF Report

-----------------------------------------------------------------------------
(* The computation on counters that have grown *)

\* The counters of t are those of p or higher.
Grown(p, t) == \A f \in Field : p[f] <= t[f]

\* What the bound says of the counters.
LEMMA TimeFacts ==
  ASSUME NEW t \in Time
  PROVE  /\ t.usr \in Nat /\ t.sys \in Nat /\ t.iow \in Nat /\ t.rest \in Nat
         /\ Sum(t) \in Nat /\ Sum(t) <= MaxTime
         /\ t = CPUStatData(t.usr, t.sys, t.iow, t.rest)
         /\ getTotalTime(t) = Sum(t)
<1>1. /\ t.usr \in Nat /\ t.sys \in Nat /\ t.iow \in Nat /\ t.rest \in Nat
      /\ Sum(t) <= MaxTime
      /\ t = CPUStatData(t.usr, t.sys, t.iow, t.rest)
  BY CPUStatAssumption DEF Time, CPUStatData
<1>2. Sum(t) \in Nat BY <1>1 DEF Sum
<1>3. Sum(t) \in 0..(ULong - 1) /\ ULong \in Nat
  BY <1>1, <1>2, CPUStatAssumption
<1>4. getTotalTime(t) = Sum(t) BY <1>3, ModSmall DEF getTotalTime
<1>5. QED BY <1>1, <1>2, <1>4

\* The difference of counters that have grown is that of the integers.
LEMMA DiffGrown ==
  ASSUME NEW p \in Time, NEW t \in Time, Grown(p, t)
  PROVE  /\ getDiff(t, p) = Minus(t, p)
         /\ Minus(t, p) \in Time
         /\ Minus(t, p).usr \in Nat /\ Minus(t, p).sys \in Nat
         /\ Minus(t, p).iow \in Nat /\ Minus(t, p).rest \in Nat
<1>1. /\ p.usr <= t.usr /\ p.sys <= t.sys /\ p.iow <= t.iow /\ p.rest <= t.rest
  BY DEF Grown, Field
<1>2. /\ p.usr \in Nat /\ p.sys \in Nat /\ p.iow \in Nat /\ p.rest \in Nat
      /\ t.usr \in Nat /\ t.sys \in Nat /\ t.iow \in Nat /\ t.rest \in Nat
      /\ t.usr + t.sys + t.iow + t.rest <= MaxTime
  BY TimeFacts DEF Sum
<1>3. /\ t.usr - p.usr \in 0..(ULong - 1) /\ t.sys - p.sys \in 0..(ULong - 1)
      /\ t.iow - p.iow \in 0..(ULong - 1) /\ t.rest - p.rest \in 0..(ULong - 1)
      /\ ULong \in Nat
  BY <1>1, <1>2, CPUStatAssumption
<1>4. getDiff(t, p) = Minus(t, p)
  <2>1. (t.usr - p.usr) % ULong = t.usr - p.usr BY <1>3, ModSmall
  <2>2. (t.sys - p.sys) % ULong = t.sys - p.sys BY <1>3, ModSmall
  <2>3. (t.iow - p.iow) % ULong = t.iow - p.iow BY <1>3, ModSmall
  <2>4. (t.rest - p.rest) % ULong = t.rest - p.rest BY <1>3, ModSmall
  <2>5. QED BY <2>1, <2>2, <2>3, <2>4 DEF getDiff, Minus
<1>5. /\ Minus(t, p).usr = t.usr - p.usr /\ Minus(t, p).sys = t.sys - p.sys
      /\ Minus(t, p).iow = t.iow - p.iow /\ Minus(t, p).rest = t.rest - p.rest
  BY DEF Minus, CPUStatData
<1>6. Minus(t, p) \in Time
  <2>1. /\ t.usr - p.usr \in 0..MaxTime /\ t.sys - p.sys \in 0..MaxTime
        /\ t.iow - p.iow \in 0..MaxTime /\ t.rest - p.rest \in 0..MaxTime
    BY <1>1, <1>2, CPUStatAssumption
  <2>2. Sum(Minus(t, p)) <= MaxTime
    <3>1. Sum(Minus(t, p)) = (t.usr - p.usr) + (t.sys - p.sys)
                               + (t.iow - p.iow) + (t.rest - p.rest)
      BY <1>5 DEF Sum
    <3>2. QED BY <3>1, <1>1, <1>2, CPUStatAssumption
  <2>3. QED BY <2>1, <2>2 DEF Time, Minus, CPUStatData
<1>7. QED BY <1>1, <1>2, <1>4, <1>5, <1>6

\* Percentages of a difference of grown counters: neither the multiplication
\* nor the cut to 32 bits changes them, and their sum is accepted.
LEMMA PercentGrown ==
  ASSUME NEW d \in Time, Sum(d) # 0
  PROVE  /\ getPercent(d, "usr") = Percent(d, "usr")
         /\ getPercent(d, "sys") = Percent(d, "sys")
         /\ getPercent(d, "iow") = Percent(d, "iow")
         /\ Report(getPercent(d, "usr"), getPercent(d, "sys"),
                   getPercent(d, "iow")).all <= 100
<1>1. /\ d.usr \in Nat /\ d.sys \in Nat /\ d.iow \in Nat /\ d.rest \in Nat
      /\ Sum(d) \in Nat \ {0} /\ Sum(d) <= MaxTime /\ getTotalTime(d) = Sum(d)
      /\ Sum(d) = d.usr + d.sys + d.iow + d.rest
  BY TimeFacts DEF Sum
<1>2. d.usr + d.sys + d.iow <= Sum(d) BY <1>1
<1>3. /\ Percent(d, "usr") \in 0..100 /\ Percent(d, "sys") \in 0..100
      /\ Percent(d, "iow") \in 0..100
      /\ Percent(d, "usr") + Percent(d, "sys") + Percent(d, "iow") <= 100
  <2>1. Rounded(d.usr, d.sys, d.iow, Sum(d)) BY <1>1, <1>2, FloorSum
  <2>2. QED BY <2>1 DEF Rounded, Percent
<1>4. /\ d.usr * 100 \in 0..(ULong - 1) /\ d.sys * 100 \in 0..(ULong - 1)
      /\ d.iow * 100 \in 0..(ULong - 1) /\ ULong \in Nat
  BY <1>1, <1>2, CPUStatAssumption
<1>5. UInt \in Nat /\ \A x \in 0..100 : x \in 0..(UInt - 1)
  BY CPUStatAssumption
<1>6. getPercent(d, "usr") = Percent(d, "usr")
  <2>1. (d.usr * 100) % ULong = 100 * d.usr
    <3>1. (d.usr * 100) % ULong = d.usr * 100 BY <1>4, ModSmall
    <3>2. QED BY <3>1, <1>1
  <2>2. Percent(d, "usr") % UInt = Percent(d, "usr") BY <1>3, <1>5, ModSmall
  <2>3. QED BY <2>1, <2>2, <1>1 DEF getPercent, Percent
<1>7. getPercent(d, "sys") = Percent(d, "sys")
  <2>1. (d.sys * 100) % ULong = 100 * d.sys
    <3>1. (d.sys * 100) % ULong = d.sys * 100 BY <1>4, ModSmall
    <3>2. QED BY <3>1, <1>1
  <2>2. Percent(d, "sys") % UInt = Percent(d, "sys") BY <1>3, <1>5, ModSmall
  <2>3. QED BY <2>1, <2>2, <1>1 DEF getPercent, Percent
<1>8. getPercent(d, "iow") = Percent(d, "iow")
  <2>1. (d.iow * 100) % ULong = 100 * d.iow
    <3>1. (d.iow * 100) % ULong = d.iow * 100 BY <1>4, ModSmall
    <3>2. QED BY <3>1, <1>1
  <2>2. Percent(d, "iow") % UInt = Percent(d, "iow") BY <1>3, <1>5, ModSmall
  <2>3. QED BY <2>1, <2>2, <1>1 DEF getPercent, Percent
<1>9. Report(Percent(d, "usr"), Percent(d, "sys"), Percent(d, "iow")).all <= 100
  BY <1>3, SumKept
<1>10. QED BY <1>6, <1>7, <1>8, <1>9

\* Whatever the counters, a percentage is a uint32_t.
LEMMA PercentType ==
  ASSUME NEW p \in Time, NEW t \in Time, NEW f \in Field,
         getTotalTime(getDiff(t, p)) # 0
  PROVE  getPercent(getDiff(t, p), f) \in 0..(UInt - 1)
<1> DEFINE d == getDiff(t, p)
<1>1. /\ p.usr \in Nat /\ p.sys \in Nat /\ p.iow \in Nat /\ p.rest \in Nat
      /\ t.usr \in Nat /\ t.sys \in Nat /\ t.iow \in Nat /\ t.rest \in Nat
      /\ ULong \in Nat \ {0} /\ UInt \in Nat \ {0}
  BY TimeFacts, CPUStatAssumption
<1>2. d.usr \in Nat /\ d.sys \in Nat /\ d.iow \in Nat /\ d.rest \in Nat
  BY <1>1 DEF getDiff, CPUStatData
<1>3. d[f] \in Nat BY <1>2 DEF Field
<1> HIDE DEF d
<1>4. Sum(d) \in Nat BY <1>2 DEF Sum
<1>5. getTotalTime(d) \in Nat BY <1>1, <1>4 DEF getTotalTime
<1>6. getTotalTime(d) # 0 BY DEF d
<1>7. (d[f] * 100) % ULong \in Nat BY <1>1, <1>3
<1>8. ((d[f] * 100) % ULong) \div getTotalTime(d) \in Nat
  <2> DEFINE a == (d[f] * 100) % ULong
             n == getTotalTime(d)
  <2>1. a \in Nat /\ n \in Nat \ {0} BY <1>5, <1>6, <1>7
  <2> HIDE DEF a, n
  <2>2. a \div n \in Nat BY <2>1, Division
  <2>3. QED BY <2>2 DEF a, n
<1>9. getPercent(d, f) \in 0..(UInt - 1) BY <1>1, <1>8 DEF getPercent
<1>10. QED BY <1>9 DEF d

-----------------------------------------------------------------------------
(* The invariant *)

\* The counters have grown since the last update unless a resume came after it.
PrevGrown == ~crashed /\ steady >= 1 => Grown(prev, time)

\* The first update after a resume leaves the base it read or none.
BaseKnown == ~crashed /\ steady = 1 => m_last = prev \/ m_last = Cleared

\* The inductive invariant.
IInv == TypeOK /\ ReportedExact /\ NothingDiscarded /\ PrevGrown /\ BaseKnown

\* Cleared counters are within the bound, with a sum that updateStats takes for
\* "nothing known".
LEMMA ClearedFacts == Cleared \in Time /\ Sum(Cleared) = 0
  BY CPUStatAssumption DEF Cleared, CPUStatData, Time, Sum

\* The constructor clears the base, and no counter is below zero.
LEMMA InitIInv == Init => IInv
<1> SUFFICES ASSUME Init PROVE IInv OBVIOUS
<1>1. /\ time \in Time /\ m_last = Cleared /\ prev = Cleared
      /\ interval = Cleared /\ crashed = FALSE /\ steady = 1
      /\ m_data = Report(0, 0, 0)
  BY DEF Init
<1>2. m_data = [usr |-> 0, sys |-> 0, iow |-> 0, all |-> 0]
  <2>1. 0 + 0 + 0 <= 100 /\ 0 \in 0..100 OBVIOUS
  <2>2. Report(0, 0, 0).all = 0 + 0 + 0 BY <2>1, SumKept
  <2>3. QED BY <2>2, <1>1 DEF Report
<1>3. TypeOK
  <2>1. m_data \in [usr : 0..UInt - 1, sys : 0..UInt - 1, iow : 0..UInt - 1, all : 0..100]
    BY <1>2, CPUStatAssumption
  <2>2. m_data.all = (m_data.usr + m_data.sys + m_data.iow) % UInt
    BY <1>1 DEF Report
  <2>3. steady \in 0..3 BY <1>1
  <2>4. crashed \in BOOLEAN BY <1>1
  <2>5. time \in Time /\ prev \in Time /\ m_last \in Time BY <1>1, ClearedFacts
  <2>6. QED BY <2>1, <2>2, <2>3, <2>4, <2>5 DEF TypeOK
<1>4. ReportedExact BY <1>1 DEF ReportedExact
<1>5. NothingDiscarded BY <1>1 DEF NothingDiscarded
<1>6. PrevGrown
  <2>1. \A f \in Field : Cleared[f] = 0 BY DEF Cleared, CPUStatData, Field
  <2>2. \A f \in Field : time[f] \in Nat BY <1>1, TimeFacts DEF Field
  <2>3. QED BY <1>1, <2>1, <2>2 DEF PrevGrown, Grown
<1>7. BaseKnown BY <1>1 DEF BaseKnown
<1>8. QED BY <1>3, <1>4, <1>5, <1>6, <1>7 DEF IInv

\* Counters that grow have grown from the last update, too.
LEMMA TickStep == ASSUME IInv, Tick PROVE IInv'
<1>1. PICK t \in Time : (\A f \in Field : t[f] >= time[f]) /\ time' = t
  BY DEF Tick
<1>2. UNCHANGED <<m_last, m_data, crashed, prev, interval, steady>> BY DEF Tick
<1>3. TypeOK' BY <1>1, <1>2 DEF IInv, TypeOK
<1>4. ReportedExact' BY <1>2 DEF IInv, ReportedExact
<1>5. NothingDiscarded' BY <1>2 DEF IInv, NothingDiscarded
<1>6. PrevGrown'
  <2>1. \A x \in Time : \A f \in Field : x[f] \in Nat BY TimeFacts DEF Field
  <2>2. prev \in Time /\ time \in Time BY DEF IInv, TypeOK
  <2>3. ASSUME Grown(prev, time) PROVE Grown(prev, t)
    BY <1>1, <2>1, <2>2, <2>3 DEF Grown
  <2>4. QED BY <1>1, <1>2, <2>3 DEF IInv, PrevGrown, Grown
<1>7. BaseKnown' BY <1>2 DEF IInv, BaseKnown
<1>8. QED BY <1>3, <1>4, <1>5, <1>6, <1>7 DEF IInv

\* A resume ends what is known of the growth of the counters.
LEMMA ResumeStep == ASSUME IInv, Resume PROVE IInv'
<1>1. time' \in Time /\ steady' = 0 BY DEF Resume
<1>2. UNCHANGED <<m_last, m_data, crashed, prev, interval>> BY DEF Resume
<1>3. TypeOK' BY <1>1, <1>2 DEF IInv, TypeOK
<1>4. QED BY <1>1, <1>3
       DEF IInv, ReportedExact, NothingDiscarded, PrevGrown, BaseKnown

\* An update whose base is the data before it, with counters that have grown,
\* reports their growth and becomes the base of the next one.
LEMMA GoodData ==
  ASSUME IInv, m_last = prev, Grown(prev, time),
         getTotalTime(getDiff(time, m_last)) # 0,
         NewData(getDiff(time, m_last))
  PROVE  /\ m_last' = time
         /\ \A f \in {"usr", "sys", "iow"} : m_data'[f] = Percent(Minus(time, prev), f)
<1> DEFINE d == Minus(time, prev)
<1>1. prev \in Time /\ time \in Time BY DEF IInv, TypeOK
<1>2. getDiff(time, m_last) = d /\ d \in Time BY <1>1, DiffGrown
<1> HIDE DEF d
<1>3. Sum(d) # 0
  <2>1. getTotalTime(d) # 0 BY <1>2
  <2>2. QED BY <2>1, <1>2, TimeFacts
<1>4. NewData(d) BY <1>2
<1>5. /\ m_last' = time
      /\ m_data' = Report(getPercent(d, "usr"), getPercent(d, "sys"),
                          getPercent(d, "iow"))
  BY <1>2, <1>3, <1>4, PercentGrown DEF NewData
<1>6. \A f \in {"usr", "sys", "iow"} : m_data'[f] = getPercent(d, f)
  BY <1>5 DEF Report
<1>7. \A f \in {"usr", "sys", "iow"} : m_data'[f] = Percent(d, f)
  BY <1>2, <1>3, <1>6, PercentGrown
<1>8. QED BY <1>5, <1>7 DEF d

\* What updateStats stores has its type, whatever the counters did.
LEMMA UpdateTypes == ASSUME IInv, updateStats PROVE TypeOK'
<1>1. /\ time \in Time /\ time' = time /\ prev' = time /\ m_last \in Time
      /\ steady' \in 0..3
  BY DEF updateStats, IInv, TypeOK
<1>2. CASE UNCHANGED m_data /\ m_last' \in {time, m_last} /\ crashed' \in BOOLEAN
  BY <1>1, <1>2 DEF IInv, TypeOK
<1>3. CASE /\ getTotalTime(getDiff(time, m_last)) # 0
           /\ NewData(getDiff(time, m_last)) /\ UNCHANGED crashed
  <2> DEFINE d == getDiff(time, m_last)
             u == getPercent(d, "usr")
             s == getPercent(d, "sys")
             i == getPercent(d, "iow")
  <2>1. u \in 0..(UInt - 1) /\ s \in 0..(UInt - 1) /\ i \in 0..(UInt - 1)
    BY <1>1, <1>3, PercentType DEF Field
  <2>2. \/ m_last' = Cleared /\ m_data' = m_data
        \/ /\ m_last' = time /\ m_data' = Report(u, s, i)
           /\ Report(u, s, i).all <= 100
    BY <1>3 DEF NewData
  <2> HIDE DEF u, s, i
  <2>3. m_last' \in Time BY <1>1, <2>2, ClearedFacts
  <2>4. (u + s + i) % UInt \in Nat
    BY <2>1, CPUStatAssumption
  <2>5. CASE m_data' = Report(u, s, i) /\ Report(u, s, i).all <= 100
    <3>1. Report(u, s, i).all \in 0..100 BY <2>4, <2>5 DEF Report
    <3>2. m_data' \in [usr : 0..UInt - 1, sys : 0..UInt - 1, iow : 0..UInt - 1, all : 0..100]
      BY <2>1, <2>5, <3>1 DEF Report
    <3>3. m_data'.all = (m_data'.usr + m_data'.sys + m_data'.iow) % UInt
      BY <2>5 DEF Report
    <3>4. QED BY <1>1, <1>3, <2>3, <3>2, <3>3 DEF IInv, TypeOK
  <2>6. CASE m_data' = m_data
    BY <1>1, <1>3, <2>3, <2>6 DEF IInv, TypeOK
  <2>7. QED BY <2>2, <2>5, <2>6
<1>4. QED BY <1>2, <1>3 DEF updateStats, IInv, TypeOK

\* An update keeps the invariant: it crashed, or it had no base, or it comes
\* first after a resume, or its base is the update before and GoodData applies.
LEMMA UpdateStep == ASSUME IInv, updateStats PROVE IInv'
<1>1. TypeOK' BY UpdateTypes
<1>2. /\ time \in Time /\ prev \in Time /\ time' = time /\ prev' = time
      /\ steady \in 0..3 /\ steady' = IF steady = 3 THEN 3 ELSE steady + 1
      /\ ~crashed
      /\ interval' = IF steady < 2 \/ Sum(prev) = 0 THEN Cleared ELSE Minus(time, prev)
  BY DEF updateStats, IInv, TypeOK
<1>3. PrevGrown'
  <2>1. \A f \in Field : time[f] <= time[f] BY <1>2, TimeFacts DEF Field
  <2>2. QED BY <1>2, <2>1 DEF PrevGrown, Grown
<1>4. CASE crashed'
  BY <1>1, <1>3, <1>4 DEF IInv, ReportedExact, NothingDiscarded, BaseKnown
<1>5. CASE ~crashed' /\ getTotalTime(m_last) = 0
  <2>1. m_last' = time BY <1>5 DEF updateStats
  <2>2. NothingDiscarded' /\ BaseKnown'
    BY <1>2, <2>1 DEF NothingDiscarded, BaseKnown
  <2>3. Sum(interval') = 0
    <3>1. CASE steady < 2 BY <1>2, <3>1, ClearedFacts
    <3>2. CASE steady >= 2
      <4>1. m_last = prev BY <1>2, <3>2 DEF IInv, NothingDiscarded
      <4>2. Sum(prev) = 0 BY <4>1, <1>2, <1>5, TimeFacts
      <4>3. QED BY <1>2, <4>2, ClearedFacts
    <3>3. QED BY <1>2, <3>1, <3>2
  <2>4. ReportedExact' BY <2>3 DEF ReportedExact
  <2>5. QED BY <1>1, <1>3, <2>2, <2>4 DEF IInv
<1>6. CASE ~crashed' /\ getTotalTime(m_last) # 0
  <2>1. /\ getTotalTime(getDiff(time, m_last)) # 0
        /\ NewData(getDiff(time, m_last))
    BY <1>6 DEF updateStats
  <2>2. CASE steady = 0
    <3>1. m_last' = time \/ m_last' = Cleared BY <2>1 DEF NewData
    <3>2. QED BY <1>1, <1>2, <1>3, <2>2, <3>1
            DEF IInv, ReportedExact, NothingDiscarded, BaseKnown
  <2>3. CASE steady >= 1
    <3>1. m_last # Cleared BY <1>6, ClearedFacts, TimeFacts
    <3>2. m_last = prev
      BY <1>2, <2>3, <3>1 DEF IInv, NothingDiscarded, BaseKnown
    <3>3. Grown(prev, time) BY <1>2, <2>3 DEF IInv, PrevGrown
    <3>4. /\ m_last' = time
          /\ \A f \in {"usr", "sys", "iow"} :
               m_data'[f] = Percent(Minus(time, prev), f)
      BY <2>1, <3>2, <3>3, GoodData
    <3>5. NothingDiscarded' /\ BaseKnown'
      BY <1>2, <3>4 DEF NothingDiscarded, BaseKnown
    <3>6. ReportedExact'
      <4>1. CASE interval' = Cleared BY <4>1, ClearedFacts DEF ReportedExact
      <4>2. CASE interval' = Minus(time, prev) BY <3>4, <4>2 DEF ReportedExact
      <4>3. QED BY <1>2, <4>1, <4>2
    <3>7. QED BY <1>1, <1>3, <3>5, <3>6 DEF IInv
  <2>4. QED BY <1>2, <2>2, <2>3
<1>7. QED BY <1>4, <1>5, <1>6

\* Every step keeps the invariant.
LEMMA NextIInv == IInv /\ [Next]_vars => IInv'
<1> SUFFICES ASSUME IInv, [Next]_vars PROVE IInv' OBVIOUS
<1>1. CASE UNCHANGED vars
  BY <1>1 DEF vars, IInv, TypeOK, ReportedExact, NothingDiscarded, PrevGrown,
              BaseKnown, Grown
<1>2. QED BY <1>1, TickStep, ResumeStep, UpdateStep DEF Next

-----------------------------------------------------------------------------
(* The theorems *)

\* The invariant holds in every state.
THEOREM InvariantCorrect == Spec => []IInv
BY InitIInv, NextIInv, PTL DEF Spec

\* Every variable keeps its type, and the overall load is at most 100.
THEOREM TypeCorrect == Spec => []TypeOK
BY InvariantCorrect, PTL DEF IInv

\* From the third update after a resume on the percentages are exactly those of
\* the growth of the counters between the last two updates.
THEOREM ReportedExactCorrect == Spec => []ReportedExact
BY InvariantCorrect, PTL DEF IInv

\* updateStats takes no good data for invalid, however it is rounded.
THEOREM NothingDiscardedCorrect == Spec => []NothingDiscarded
BY InvariantCorrect, PTL DEF IInv
=============================================================================
