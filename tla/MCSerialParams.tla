--------------------------- MODULE MCSerialParams ----------------------------
(* Instances of SerialParams for TLC. *)
EXTENDS SerialParams, TLC

Request(s, d, b, p) == [speed |-> s, bits |-> d, stop |-> b, par |-> p]
\* rate 0, rates of both tables, a rate that is taken for a code (7), one
\* without a constant (14400), every stop bit setting, three parities, a
\* number of data bits that is refused
MCRequests ==
  {Request(0, 8, 1, "none"), Request(115200, 7, 2, "odd"), Request(7, 6, 1, "space"),
   Request(14400, 8, 3, "even"), Request(9600, 9, 1, "none")}
MCFlowModes == {{}, {"RTSCTS_IN"}, {"XONXOFF_IN", "XONXOFF_OUT"}}
Symmetry == Permutations(Threads)
==============================================================================
