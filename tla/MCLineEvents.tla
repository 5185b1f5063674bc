----------------------------- MODULE MCLineEvents -----------------------------
(* An instance of LineEvents for TLC: CTS and DSR, frame errors and overruns. *)
EXTENDS LineEvents
MCLines == {1, 2}
MCCounters == {1, 2}
==============================================================================
