------------------------------ MODULE LineWatch ------------------------------
(***************************************************************************)
(* What the serial events promise of the modem lines CTS, DSR, RI and CD:  *)
(* a listener is told of a line's levels in turn, never twice the same and *)
(* never one the line has not had since it was last told; and a line that  *)
(* keeps its level is in the end told at that level.  A pulse between two  *)
(* looks at the lines may go untold.                                       *)
(***************************************************************************)
CONSTANT Lines

VARIABLES
  level,    \* the lines
  told,     \* the last level told, at first the one found when listening began
  since,    \* the levels a line has had since it was last told
  watched   \* whether events are promised at all

vars == <<level, told, since, watched>>

Init ==
  /\ level \in [Lines -> BOOLEAN]
  /\ told = level
  /\ since = [l \in Lines |-> {level[l]}]
  /\ watched \in BOOLEAN

Change(l) ==
  /\ level' = [level EXCEPT ![l] = ~level[l]]
  /\ since' = [since EXCEPT ![l] = @ \cup {~level[l]}]
  /\ UNCHANGED <<told, watched>>

Tell(l) ==
  /\ (~told[l]) \in since[l]
  /\ told' = [told EXCEPT ![l] = ~told[l]]
  /\ since' = [since EXCEPT ![l] = {level[l]}]
  /\ UNCHANGED <<level, watched>>

Watch == watched' \in BOOLEAN /\ UNCHANGED <<level, told, since>>

Next == (\E l \in Lines : Change(l) \/ Tell(l)) \/ Watch

Spec == Init /\ [][Next]_vars

Settles ==
  \A l \in Lines, v \in BOOLEAN :
    <>[](watched /\ level[l] = v) => <>[](told[l] = v)
==============================================================================
