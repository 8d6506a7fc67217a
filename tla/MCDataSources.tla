--------------------------- MODULE MCDataSources ---------------------------
(***************************************************************************)
(* DataSources for TLC: a collector of each kind.                          *)
(***************************************************************************)
EXTENDS DataSources, TLC

CONSTANTS tcp, uds

=============================================================================
