----------------------------- MODULE MCPortReads -----------------------------
(* Values for TLC: an array of three bytes, three bytes to read, two of which *)
(* make the terminator.                                                      *)
EXTENDS PortReads

MCTerminator == [i \in 0 .. 1 |-> i + 1]
MCTimeouts == {-1, 250}
=============================================================================
