---------------------------- MODULE MCPreopened -----------------------------
(* Instances of Preopened for TLC. *)
EXTENDS Preopened, TLC

MCFds == 1..3
Symmetry == Permutations(Files) \cup Permutations(Threads) \cup Permutations(Nodes)
==============================================================================
