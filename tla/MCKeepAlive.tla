---------------------------- MODULE MCKeepAlive ----------------------------
(* KeepAlive on two clients, for TLC.  A unit of time is the wait for a      *)
(* descriptor, three seconds, which is also the minimum of the option; the   *)
(* default of ten seconds is rounded down to three units, and the interval   *)
(* of the profiler, one second, up to one.  The run that shows a violation   *)
(* counts in seconds.                                                        *)
EXTENDS KeepAlive

CONSTANTS c1, c2

\* The option has a value that stoul accepts.
Value(n) == [file |-> TRUE, valid |-> TRUE, value |-> n, usec |-> 0]

\* No file, no usable value, a value below the minimum, the minimum, twice the
\* minimum under the least watchdog for which half covers the wait for a
\* descriptor, and the least timeout for which this is true with any rounding.
MCConfigs ==
  {[file |-> FALSE, valid |-> FALSE, value |-> 0, usec |-> 0],
   [file |-> TRUE, valid |-> FALSE, value |-> 0, usec |-> 0],
   Value(0), Value(1), [Value(2) EXCEPT !.usec = 4], Value(4)}

\* The minimum, in seconds.
MCMinimum == {Value(3)}
=============================================================================
