----------------------------- MODULE MCProcAcct -----------------------------
(* ProcAcct on two processes, for TLC. *)
EXTENDS ProcAcct

CONSTANTS p1, p2

\* A pid that is used again is followed where events report it.  A buffer of
\* two datagrams is overrun, one of five holds the answers of both processes.
MCSettings ==
  [scanning : {TRUE}, PidReuse : {FALSE}, RxBufferSize : {2, 5}] \cup
  {[scanning |-> FALSE, PidReuse |-> FALSE, RxBufferSize |-> 5],
   [scanning |-> FALSE, PidReuse |-> TRUE, RxBufferSize |-> 2]}
=============================================================================
