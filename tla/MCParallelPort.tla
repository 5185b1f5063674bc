--------------------------- MODULE MCParallelPort ---------------------------
(* ParallelPort for TLC. *)
EXTENDS ParallelPort

CONSTANTS t1, t2, m1, m2
=============================================================================
