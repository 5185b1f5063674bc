---------------------------- MODULE MCSerialPort ----------------------------
(* Instances of SerialPort: which thread calls which methods.               *)
EXTENDS SerialPort, TLC

CONSTANTS c, d, m1, m2, m3,
          CanC, CanD, CanM,         \* the methods of c, d and the listener
          CallsC, CallsD, CallsM    \* the calls each makes

MCCan == [a \in App \cup Mon |-> IF a = c THEN CanC ELSE IF a = d THEN CanD ELSE CanM]
MCMaxCalls ==
  [a \in App \cup Mon |-> IF a = c THEN CallsC ELSE IF a = d THEN CallsD ELSE CallsM]

MonSymmetry == Permutations(Mon)
=============================================================================
