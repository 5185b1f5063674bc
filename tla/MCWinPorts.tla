----------------------------- MODULE MCWinPorts -----------------------------
(* WinPorts for TLC. *)
EXTENDS WinPorts, TLC

CONSTANTS a, b, c, t1, t2
Symmetry == Permutations(Files) \cup Permutations(Threads)
=============================================================================
