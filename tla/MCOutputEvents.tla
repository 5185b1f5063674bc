--------------------------- MODULE MCOutputEvents ---------------------------
(* A writer and the listener, for TLC.  A store through a null pointer ends *)
(* the process: nothing happens after a fault.                              *)
EXTENDS OutputEvents

CONSTANTS writer, listener
=============================================================================
