---------------------------- MODULE MCCollectors ----------------------------
(* Collectors on a small set of clients, for TLC. *)
EXTENDS Collectors, TLC

CONSTANTS t1, t2, u1

MCTCP == {t1, t2}

MCCollector == MCTCP \cup {u1}

\* The two TCP clients are interchangeable (safety runs only).
Symmetry == Permutations(MCTCP)
=============================================================================
