--------------------------- MODULE MCProcRegistry ---------------------------
(***************************************************************************)
(* ProcRegistry on a few pids, names and contexts, for TLC, with the       *)
(* settings of the runs.                                                   *)
(***************************************************************************)
EXTENDS ProcRegistry, TLC

CONSTANTS p1, p2, app, tool, kworker, x1, x2

\* The configuration as it is shipped, in a system that loses no event.
Shipped ==
  [ReadProcAtInit |-> TRUE, UpdateOnProcEvent |-> TRUE, CommitOnAppend |-> TRUE,
   EventsLost |-> FALSE, PidReuse |-> TRUE, ExecFromBlacklisted |-> FALSE]

\* Events are lost.  A pid that is used again after a loss is out of reach of
\* the scan, which only looks at pids.
Lossy == [Shipped EXCEPT !.EventsLost = TRUE, !.PidReuse = FALSE]

\* No events: the lanes scan /proc.
Scanning ==
  [Shipped EXCEPT !.UpdateOnProcEvent = FALSE, !.CommitOnAppend = FALSE]

EventSettings == {Shipped}
UpdateSettings == {Lossy, Scanning}
ScanSettings == {[Scanning EXCEPT !.PidReuse = FALSE]}

Symmetry == Permutations({p1, p2}) \cup Permutations({app, tool}) \cup Permutations({x1, x2})

=============================================================================
