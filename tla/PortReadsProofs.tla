--------------------------- MODULE PortReadsProofs ---------------------------
(***************************************************************************)
(* What PortReads promises, for any array, terminator, timeouts, thresholds*)
(* and number of rounds.                                                   *)
(***************************************************************************)
EXTENDS PortReads, TLAPS

Early == {"available", "threshold", "interrupted", "native"}
Reading == {"loop", "select", "read"}

\* The lengths a read works with: the part of the array it was given, at least one byte
\* of it, and no more of it than the rounds to come may fill.
CallInv ==
  /\ call.off + call.len <= BufferLength
  /\ call.Minimum <= call.len
  /\ at \in Early \cup Reading \cup {"bytes"} => call.len > 0
  /\ at \in Early \cup {"idle"} => total = 0 /\ bytes = 0 /\ count = 0
  /\ at \in {"available", "threshold"} => call.available = 0
  /\ at \in {"available", "threshold", "interrupted"} => call.kind # "readByte"
  /\ call.kind # "readTerminatedArray" => total = 0
  /\ call.kind = "readByte" => call.off = 0 /\ call.Minimum <= 1 /\ call.available = 0
  /\ call.available > 0 => call.Minimum > 0
  /\ at \in Reading => total + Wanted <= call.len /\ bytes <= Wanted
  /\ at \in {"select", "read"} => bytes < Wanted
  /\ at = "bytes" => total + bytes <= call.len /\ bytes <= Wanted
  /\ at \in {"returned", "thrown"} => total + bytes <= call.len

\* Why a read of an array has ended: the loop of read_byte_array.
TableInv ==
  call.kind = "readArray" =>
    /\ at = "bytes" => bytes = Wanted \/ TimedOut \/ count = Rounds
    /\ ReadTable

\* A read that found bytes at its start asks for no more of them than are there: nothing
\* else takes them away.
WaitInv ==
  call.available > 0 =>
    /\ at \in Reading \cup {"bytes"} => call.Minimum - total - bytes <= Available
    /\ at \in Reading => total < call.Minimum
    /\ at \in Early => call.Minimum <= Available

NoTerminator(n) ==
  \A i \in Index : i > 0 /\ i < n => ~(Value(i) = Terminator[1] /\ Value(i - 1) = Terminator[0])

\* The bytes of the finished calls of read_byte_array hold no terminator.
TermInv ==
  call.kind = "readTerminatedArray" /\ call.off = 0 =>
    /\ at \in Early \cup Reading \cup {"bytes"} => NoTerminator(total)
    /\ StopsAtTerminator

\* BytesInOrder within the array, and an array not written yet.
OrderInv ==
  /\ at = "idle" => body = Empty
  /\ at # "idle" =>
       /\ taken = call.first + Got
       /\ \A i \in Index :
            body[i] = IF i - call.off \in 0 .. Got - 1 THEN call.first + (i - call.off) + 1
                      ELSE 0

IInv == TypeOK /\ CallInv /\ OrderInv /\ ReturnsRead /\ TableInv /\ WaitInv /\ TermInv

-----------------------------------------------------------------------------
(* Lemmas about the operators.                                             *)

\* VTIME is an unsigned char.
LEMMA VTimeType ==
  ASSUME NEW vtime \in Int
  PROVE VTimeOf(vtime) \in 0 .. 255
  BY DEF VTimeOf

\* It holds the timeout in tenths of a second, as long as these fit.
LEMMA VTimeTells ==
  ASSUME NEW vtime \in Int, vtime < 25600
  PROVE IF vtime < 0 THEN VTimeOf(vtime) = 0 ELSE vtime - VTimeOf(vtime) * 100 \in 0 .. 99
  BY DEF VTimeOf

LEMMA LeastOf ==
  ASSUME NEW a \in Int, NEW b \in Int
  PROVE Least(a, b) \in {a, b} /\ Least(a, b) <= a /\ Least(a, b) <= b
  BY DEF Least

LEMMA TimeoutsAreInt == Timeouts \subseteq Int
  BY TimeoutsAssumption

\* What a read(2) has done: n bytes, no more than are wanted and there.
Chunk(n) ==
  /\ n > 0 /\ n <= Wanted - bytes /\ n <= Available
  /\ body' = Stored(call.off + total + bytes, n)
  /\ bytes' = bytes + n
  /\ taken' = taken + n

LEMMA WantedType == TypeOK => Wanted \in 0 .. BufferLength
  BY BytesAssumption DEF TypeOK, Wanted

LEMMA ChunkRead ==
  ASSUME TypeOK, ReadBytes
  PROVE \E n \in Nat : Chunk(n)
<1>1. Wanted - bytes \in Int /\ Available \in Int
  BY WantedType DEF TypeOK, Available
<1>2. PICK n \in 1 .. Least(Wanted - bytes, Available) :
        /\ body' = Stored(call.off + total + bytes, n)
        /\ bytes' = bytes + n
        /\ taken' = taken + n
  BY DEF ReadBytes
<1>3. n \in Nat /\ n > 0 /\ n <= Wanted - bytes /\ n <= Available
  BY <1>1, <1>2, LeastOf
<1>4. QED
  BY <1>2, <1>3 DEF Chunk

\* Every step keeps the types.
LEMMA TypeStep ==
  ASSUME TypeOK, CallInv, [Next]_vars
  PROVE TypeOK'
<1>1. ASSUME NEW kind \in Kind, NEW off \in Index, NEW len \in 0 .. BufferLength, Read(kind, off, len)
      PROVE TypeOK'
  <2>1. (at \in Loc)'
    BY <1>1 DEF Read, TypeOK, Return, Loc
  <2>2. (call \in [kind : Kind, off : Index, len : 0 .. BufferLength, Minimum : 0 .. BufferLength,
            available : 0 .. MaxBytes, first : 0 .. MaxBytes])'
    BY <1>1, BytesAssumption, ThresholdsAssumption DEF Read, TypeOK, Kind, Index
  <2>3. (result \in -1 .. BufferLength \cup Byte)'
    BY <1>1, BytesAssumption DEF Read, TypeOK, Return, Loc
  <2>4. QED
    BY <1>1, <2>1, <2>2, <2>3 DEF Read, TypeOK, deviceVars, portVars, nativeVars
<1>2. ASSUME AvailableMinimum PROVE TypeOK'
  <2>1. /\ Available \in 0 .. MaxBytes
        /\ (IF Available = 0 THEN 1 ELSE Least(call.len, Available)) \in 0 .. BufferLength
    BY BytesAssumption DEF TypeOK, Available, Least
  <2>2. (call \in [kind : Kind, off : Index, len : 0 .. BufferLength, Minimum : 0 .. BufferLength,
            available : 0 .. MaxBytes, first : 0 .. MaxBytes])'
    <3>1. \/ UNCHANGED call
          \/ \E m \in 0 .. BufferLength :
               call' = [call EXCEPT !.available = Available, !.Minimum = m]
      BY <2>1, <1>2 DEF AvailableMinimum
    <3>2. QED
      BY <2>1, <3>1 DEF TypeOK
  <2>3. (at \in Loc)' /\ (result \in -1 .. BufferLength \cup Byte)'
    BY <1>2, BytesAssumption DEF AvailableMinimum, TypeOK, Loc, Return, Throw
  <2>4. QED
    BY <2>2, <2>3, <1>2 DEF AvailableMinimum, TypeOK, deviceVars, portVars, nativeVars
<1>3. ASSUME ThresholdMinimum PROVE TypeOK'
  <2>1. Least(call.len, threshold) \in 0 .. BufferLength
    BY BytesAssumption, ThresholdsAssumption DEF TypeOK, Least
  <2>2. (call \in [kind : Kind, off : Index, len : 0 .. BufferLength, Minimum : 0 .. BufferLength,
            available : 0 .. MaxBytes, first : 0 .. MaxBytes])'
    BY <2>1, <1>3 DEF ThresholdMinimum, TypeOK
  <2>3. (at \in Loc)'
    BY <1>3 DEF ThresholdMinimum, Loc
  <2>4. QED
    BY <2>2, <2>3, <1>3 DEF ThresholdMinimum, TypeOK, deviceVars, portVars, nativeVars
<1>4. ASSUME InterruptedCheck PROVE TypeOK'
  <2>1. (at \in Loc)'
    BY <1>4 DEF InterruptedCheck, TypeOK, Return, Loc
  <2>2. (result \in -1 .. BufferLength \cup Byte)'
    BY <1>4, BytesAssumption DEF InterruptedCheck, TypeOK, Return, Loc
  <2>3. QED
    BY <1>4, <2>1, <2>2 DEF InterruptedCheck, TypeOK, deviceVars, portVars, nativeVars
<1>5. ASSUME Native PROVE TypeOK'
  BY <1>5 DEF Native, TypeOK, deviceVars, portVars, Loc
<1>6. ASSUME Loop PROVE TypeOK'
  <2>1. (at \in Loc)'
    BY <1>6 DEF Loop, TypeOK, Loc
  <2>2. (count \in 0 .. Rounds)'
    BY <1>6, RoundsAssumption DEF Loop, TypeOK
  <2>3. QED
    BY <1>6, <2>1, <2>2 DEF Loop, TypeOK, deviceVars, portVars
<1>7. ASSUME Select PROVE TypeOK'
  BY <1>7 DEF Select, TypeOK, deviceVars, portVars, nativeVars, Loc
<1>8. ASSUME ReadBytes PROVE TypeOK'
  <2>1. PICK n \in Nat : Chunk(n)
    BY <1>8, ChunkRead
  <2>2. (taken \in 0 .. arrived)' /\ (bytes \in 0 .. BufferLength)'
    BY <2>1, <1>8, BytesAssumption, WantedType DEF Chunk, ReadBytes, TypeOK, Available,
       deviceVars
  <2>3. ASSUME NEW i \in Index PROVE body'[i] \in 0 .. MaxBytes
    <3>1. taken + n <= MaxBytes /\ taken \in Nat /\ body[i] \in 0 .. MaxBytes
      BY <2>1, BytesAssumption DEF Chunk, TypeOK, Available
    <3>2. QED
      <4>1. call.off + total + bytes \in Int /\ i \in Int /\ i \in DOMAIN body
        BY BytesAssumption DEF TypeOK, Index
      <4>2. body'[i] = IF i - (call.off + total + bytes) \in 0 .. n - 1
                       THEN taken + (i - (call.off + total + bytes)) + 1 ELSE body[i]
        BY <2>1, <4>1 DEF Chunk, Stored
      <4>3. QED
        BY <2>1, <3>1, <4>1, <4>2, BytesAssumption
  <2>4. (body \in [Index -> 0 .. MaxBytes])'
    <3>1. /\ call.off \in Nat /\ call.len \in Nat /\ total \in Nat /\ bytes \in Nat
          /\ Wanted \in Nat /\ BufferLength \in Nat /\ DOMAIN body = Index
      BY WantedType, BytesAssumption DEF TypeOK, Index
    <3>2. call.off + total + bytes + n <= BufferLength
      BY <1>8, <2>1, <3>1 DEF ReadBytes, Chunk, CallInv, Reading
    <3>3. call.off + total + bytes .. call.off + total + bytes + n - 1 \subseteq Index
      BY <3>1, <3>2 DEF Index
    <3>4. DOMAIN body' = Index
      BY <2>1, <3>1, <3>3 DEF Chunk, Stored
    <3>5. body' = [i \in DOMAIN body' |-> body'[i]]
      BY <2>1 DEF Chunk, Stored
    <3>6. QED
      BY <2>3, <3>4, <3>5
  <2>5. QED
    BY <2>2, <2>4, <1>8 DEF ReadBytes, TypeOK, Loc, deviceVars, portVars
<1>9. ASSUME ReadGone PROVE TypeOK'
  <2>1. (at \in Loc)'
    BY <1>9 DEF ReadGone, TypeOK, Throw, Loc, Return
  <2>2. (result \in -1 .. BufferLength \cup Byte)'
    BY <1>9, BytesAssumption DEF ReadGone, TypeOK, Throw, Loc, Return
  <2>3. QED
    BY <1>9, <2>1, <2>2 DEF ReadGone, TypeOK, deviceVars, portVars, nativeVars
<1>10. ASSUME ReturnBytes PROVE TypeOK'
  <2>1. at' \in Loc
    BY <1>10 DEF ReturnBytes, Return, Loc
  <2>2. (result \in -1 .. BufferLength \cup Byte)'
    <3>1. CASE call.kind = "readArray" /\ Return(bytes)
      BY <3>1, BytesAssumption DEF TypeOK, Return
    <3>2. CASE call.kind = "readByte" /\ Return(IF bytes > 0 THEN Value(0) ELSE -1)
      <4>1. Value(0) \in Byte \cup {0}
        BY BytesAssumption DEF TypeOK, Value, Index
      <4>2. QED
        BY <3>2, <4>1, BytesAssumption DEF TypeOK, Return
    <3>3. QED
      BY <1>10, <3>1, <3>2 DEF ReturnBytes
  <2>3. QED
    BY <1>10, <2>1, <2>2 DEF ReturnBytes, TypeOK, deviceVars, portVars, nativeVars
<1>11. ASSUME NextByte PROVE TypeOK'
  <2>1. (at \in Loc)'
    BY <1>11 DEF NextByte, TypeOK, Return, Loc
  <2>2. (total \in 0 .. BufferLength)'
    BY <1>11, BytesAssumption DEF NextByte, TypeOK, CallInv, Early, Reading
  <2>3. (count \in 0 .. Rounds)'
    BY <1>11, RoundsAssumption DEF NextByte, TypeOK
  <2>4. (result \in -1 .. BufferLength \cup Byte)'
    BY <1>11, BytesAssumption DEF NextByte, TypeOK, Return, Loc
  <2>5. QED
    BY BytesAssumption, <1>11, <2>1, <2>2, <2>3, <2>4 DEF NextByte, TypeOK, deviceVars,
       portVars
<1>12. ASSUME Take PROVE TypeOK'
  BY <1>12, BytesAssumption, RoundsAssumption, TimeoutsAssumption DEF Take, TypeOK, NoCall,
     Empty, deviceVars, portVars, Loc, Kind, Index
<1>13. ASSUME NEW time \in Timeouts, EnableReceiveTimeout(time) PROVE TypeOK'
  <2>1. (VTIME \in 0 .. 255)'
    BY <1>13, TimeoutsAreInt, VTimeType DEF EnableReceiveTimeout, TypeOK, SetVTIME
  <2>2. QED
    BY <1>13, <2>1 DEF EnableReceiveTimeout, TypeOK, deviceVars, nativeVars
<1>14. ASSUME NEW thresh \in Thresholds, EnableReceiveThreshold(thresh) PROVE TypeOK'
  <2>1. (VTIME \in 0 .. 255)'
    BY <1>14, TimeoutsAreInt, VTimeType DEF EnableReceiveThreshold, TypeOK, SetVTIME
  <2>2. QED
    BY <1>14, <2>1 DEF EnableReceiveThreshold, TypeOK, deviceVars, nativeVars
<1>15. ASSUME NEW byte \in Byte, Arrive(byte) PROVE TypeOK'
  <2>1. (stream \in [1 .. MaxBytes -> Byte \cup {0}])'
    BY <1>15, BytesAssumption DEF Arrive, TypeOK
  <2>2. (taken \in 0 .. arrived)'
    BY <1>15 DEF Arrive, TypeOK
  <2>3. (arrived \in 0 .. MaxBytes)'
    BY <1>15, BytesAssumption DEF Arrive, TypeOK
  <2>4. QED
    BY <1>15, <2>1, <2>2, <2>3 DEF Arrive, TypeOK, portVars, nativeVars
<1>16. ASSUME Unplug PROVE TypeOK'
  BY <1>16 DEF Unplug, TypeOK, portVars, nativeVars
<1>17. ASSUME Tick PROVE TypeOK'
  BY <1>17 DEF Tick, TypeOK, deviceVars, portVars, nativeVars
<1>18. ASSUME UNCHANGED vars PROVE TypeOK'
  BY <1>18 DEF TypeOK, vars, deviceVars, portVars, nativeVars
<1>19. ASSUME SelectFails PROVE TypeOK'
  BY <1>19, BytesAssumption DEF SelectFails, TypeOK, Throw, Return, Loc, deviceVars,
     portVars, nativeVars
<1>20. QED
  BY <1>1, <1>2, <1>3, <1>4, <1>5, <1>6, <1>7, <1>8, <1>9, <1>10, <1>11, <1>12, <1>13,
     <1>14, <1>15, <1>16, <1>17, <1>18, <1>19 DEF Next, Reader

\* Every step keeps the lengths within the array.
LEMMA CallStep ==
  ASSUME TypeOK, CallInv, TypeOK', [Next]_vars
  PROVE CallInv'
<1>1. ASSUME NEW kind \in Kind, NEW off \in Index, NEW len \in 0 .. BufferLength, Read(kind, off, len)
      PROVE CallInv'
  BY <1>1 DEF Read, CallInv, Return, nativeVars, Early, Reading
<1>2. ASSUME AvailableMinimum PROVE CallInv'
  <2> DEFINE m == IF Available = 0 THEN 1 ELSE Least(call.len, Available)
  <2>1. call.len \in Nat /\ Available \in Nat /\ call.Minimum \in Nat
    BY BytesAssumption DEF TypeOK, Available
  <2>2. /\ at = "available" /\ call.len > 0 /\ call.kind # "readByte"
        /\ total = 0 /\ bytes = 0 /\ count = 0
        /\ call.available = 0 /\ call.Minimum <= call.len
        /\ call.off + call.len <= BufferLength
    BY <1>2 DEF AvailableMinimum, CallInv, Early
  <2>3. m \in Nat /\ m > 0 /\ m <= call.len
    BY <2>2, <2>1 DEF Least
  <2>4. \/ UNCHANGED call
        \/ call' = [call EXCEPT !.available = Available, !.Minimum = m]
    BY <1>2 DEF AvailableMinimum
  <2>5. at' \in {"interrupted", "thrown"}
    BY <1>2 DEF AvailableMinimum, Throw, Return
  <2> HIDE DEF m
  <2>6. /\ call'.off = call.off /\ call'.len = call.len /\ call'.kind = call.kind
        /\ call'.Minimum \in Nat /\ call'.Minimum <= call.len
        /\ call'.available > 0 => call'.Minimum > 0
    <3>1. CASE UNCHANGED call
      BY <2>2, <2>1, <3>1
    <3>2. CASE call' = [call EXCEPT !.available = Available, !.Minimum = m]
      BY <2>3, <3>2 DEF TypeOK
    <3>3. QED
      BY <2>4, <3>1, <3>2
  <2>7. UNCHANGED <<total, bytes, count>>
    BY <1>2 DEF AvailableMinimum, nativeVars
  <2>8. QED
    BY <2>2, <2>1, <2>5, <2>6, <2>7 DEF CallInv, Early, Reading
<1>3. ASSUME ThresholdMinimum PROVE CallInv'
  <2>1. call.len \in Nat /\ threshold \in Nat
    BY ThresholdsAssumption, BytesAssumption DEF TypeOK
  <2>2. Least(call.len, threshold) \in Nat /\ Least(call.len, threshold) <= call.len
    BY <2>1 DEF Least
  <2>3. QED
    BY <2>2, <1>3 DEF ThresholdMinimum, CallInv, Early, Reading, nativeVars
<1>4. ASSUME InterruptedCheck PROVE CallInv'
  BY <1>4 DEF InterruptedCheck, TypeOK, CallInv, Return, nativeVars, Early, Wanted
<1>5. ASSUME Native PROVE CallInv'
  BY <1>5 DEF Native, TypeOK, CallInv, Early, Wanted
<1>6. ASSUME Loop PROVE CallInv'
  BY <1>6 DEF Loop, TypeOK, CallInv, Wanted, Early, Reading
<1>7. ASSUME Select PROVE CallInv'
  BY <1>7 DEF Select, CallInv, nativeVars, Early, Reading, Wanted
<1>8. ASSUME ReadBytes PROVE CallInv'
  <2>1. PICK n \in Nat : Chunk(n)
    BY <1>8, ChunkRead
  <2>2. Wanted' = Wanted /\ Wanted \in Nat
    BY <1>8, WantedType DEF ReadBytes, Wanted
  <2>3. QED
    BY <2>1, <2>2, <1>8 DEF Chunk, ReadBytes, TypeOK, CallInv, Early, Reading
<1>9. ASSUME ReadGone PROVE CallInv'
  BY <1>9 DEF ReadGone, TypeOK, CallInv, Throw, nativeVars, Early, Reading, Wanted, Return
<1>10. ASSUME ReturnBytes PROVE CallInv'
  BY <1>10 DEF ReturnBytes, CallInv, Return, nativeVars, Early, Reading
<1>11. ASSUME NextByte PROVE CallInv'
  BY <1>11 DEF NextByte, TypeOK, CallInv, Return, Early, Reading, Wanted
<1>12. ASSUME Take PROVE CallInv'
  BY <1>12 DEF Take, TypeOK, CallInv, NoCall, Early, Reading
<1>13. ASSUME NEW time \in Timeouts, EnableReceiveTimeout(time) PROVE CallInv'
  BY <1>13 DEF EnableReceiveTimeout, CallInv, nativeVars, Wanted
<1>14. ASSUME NEW thresh \in Thresholds, EnableReceiveThreshold(thresh) PROVE CallInv'
  BY <1>14 DEF EnableReceiveThreshold, CallInv, nativeVars, Wanted
<1>15. ASSUME NEW byte \in Byte, Arrive(byte) PROVE CallInv'
  BY <1>15 DEF Arrive, CallInv, nativeVars, Wanted
<1>16. ASSUME Unplug PROVE CallInv'
  BY <1>16 DEF Unplug, CallInv, nativeVars, Wanted
<1>17. ASSUME Tick PROVE CallInv'
  BY <1>17 DEF Tick, CallInv, nativeVars, Wanted
<1>18. ASSUME UNCHANGED vars PROVE CallInv'
  BY <1>18 DEF vars, CallInv, nativeVars, Wanted
<1>19. ASSUME SelectFails PROVE CallInv'
  <2>1. total \in Nat /\ bytes \in Nat /\ call.len \in Nat
    BY BytesAssumption DEF TypeOK
  <2>2. Wanted \in Nat
    BY WantedType
  <2>3. total + bytes <= call.len
    BY <1>19, <2>1, <2>2 DEF SelectFails, CallInv, Reading
  <2>4. QED
    BY <1>19, <2>3 DEF SelectFails, CallInv, Throw, Return, nativeVars, Early, Reading
<1>20. QED
  BY <1>1, <1>2, <1>3, <1>4, <1>5, <1>6, <1>7, <1>8, <1>9, <1>10, <1>11, <1>12, <1>13,
     <1>14, <1>15, <1>16, <1>17, <1>18, <1>19 DEF Next, Reader

-----------------------------------------------------------------------------
(* Steps that move no byte, and steps that return.                         *)

Calling == Early \cup Reading \cup {"bytes"}

\* Every step but the start of a read, its end, read(2) and the step to the next byte.
QuietStep ==
  \/ AvailableMinimum \/ ThresholdMinimum \/ InterruptedCheck \/ Native \/ Loop \/ Select
  \/ SelectFails \/ ReadGone \/ ReturnBytes
  \/ \E time \in Timeouts : EnableReceiveTimeout(time)
  \/ \E thresh \in Thresholds : EnableReceiveThreshold(thresh)
  \/ \E byte \in Byte : Arrive(byte)
  \/ Unplug \/ Tick
  \/ UNCHANGED vars

ReadStep == \E kind \in Kind, off \in Index, len \in 0 .. BufferLength : Read(kind, off, len)

LEMMA StepCases == [Next]_vars => QuietStep \/ ReadStep \/ ReadBytes \/ NextByte \/ Take
  BY DEF Next, Reader, QuietStep, ReadStep

LEMMA QuietKeeps ==
  ASSUME TypeOK, QuietStep
  PROVE /\ UNCHANGED <<taken, total, bytes, body>>
        /\ call'.kind = call.kind /\ call'.off = call.off /\ call'.first = call.first
        /\ at' = "idle" <=> at = "idle"
        /\ at' \in Calling => at \in Calling
<1>1. CASE AvailableMinimum
  BY <1>1 DEF AvailableMinimum, TypeOK, Throw, Return, nativeVars, Calling, Early
<1>2. CASE ThresholdMinimum
  BY <1>2 DEF ThresholdMinimum, TypeOK, nativeVars, Calling, Early
<1>3. CASE InterruptedCheck
  BY <1>3 DEF InterruptedCheck, Return, nativeVars, Calling, Early
<1>4. CASE Native
  BY <1>4 DEF Native, Calling, Early
<1>5. CASE Loop
  BY <1>5 DEF Loop, Calling, Reading
<1>6. CASE Select
  BY <1>6 DEF Select, nativeVars, Calling, Reading
<1>7. CASE ReadGone
  BY <1>7 DEF ReadGone, Throw, Return, nativeVars, Calling, Reading
<1>8. CASE ReturnBytes
  BY <1>8 DEF ReturnBytes, Return, nativeVars, Calling
<1>9. CASE \E time \in Timeouts : EnableReceiveTimeout(time)
  BY <1>9 DEF EnableReceiveTimeout, nativeVars
<1>10. CASE \E thresh \in Thresholds : EnableReceiveThreshold(thresh)
  BY <1>10 DEF EnableReceiveThreshold, nativeVars
<1>11. CASE \E byte \in Byte : Arrive(byte)
  BY <1>11 DEF Arrive, nativeVars
<1>12. CASE Unplug
  BY <1>12 DEF Unplug, nativeVars
<1>13. CASE Tick
  BY <1>13 DEF Tick, nativeVars
<1>14. CASE UNCHANGED vars
  BY <1>14 DEF vars, nativeVars
<1>15. CASE SelectFails
  BY <1>15 DEF SelectFails, Throw, Return, nativeVars, Calling, Reading
<1>16. QED
  BY <1>1, <1>2, <1>3, <1>4, <1>5, <1>6, <1>7, <1>8, <1>9, <1>10, <1>11, <1>12, <1>13,
     <1>14, <1>15 DEF QuietStep

\* A read has returned, and not thrown, after these steps only.
LEMMA Returns ==
  ASSUME [Next]_vars, at' = "returned"
  PROVE \/ UNCHANGED <<at, call, taken, limit, total, bytes, count, elapsed, result>>
        \/ ReadStep
        \/ InterruptedCheck /\ result' = 0
        \/ ReturnBytes
        \/ NextByte
<1>1. ASSUME QuietStep
      PROVE \/ UNCHANGED <<at, call, taken, limit, total, bytes, count, elapsed, result>>
            \/ InterruptedCheck /\ result' = 0
            \/ ReturnBytes
  <2>1. CASE AvailableMinimum \/ ThresholdMinimum \/ ReadGone \/ SelectFails
    BY <2>1 DEF AvailableMinimum, ThresholdMinimum, ReadGone, SelectFails, Throw, Return
  <2>2. CASE InterruptedCheck
    BY <2>2 DEF InterruptedCheck, Return
  <2>3. CASE Native \/ Loop \/ Select
    BY <2>3 DEF Native, Loop, Select
  <2>4. CASE ReturnBytes
    BY <2>4
  <2>5. CASE \E time \in Timeouts : EnableReceiveTimeout(time)
    BY <2>5 DEF EnableReceiveTimeout, nativeVars
  <2>6. CASE \E thresh \in Thresholds : EnableReceiveThreshold(thresh)
    BY <2>6 DEF EnableReceiveThreshold, nativeVars
  <2>7. CASE \E byte \in Byte : Arrive(byte)
    BY <2>7 DEF Arrive, nativeVars
  <2>8. CASE Unplug
    BY <2>8 DEF Unplug, nativeVars
  <2>9. CASE Tick
    BY <2>9 DEF Tick
  <2>10. CASE UNCHANGED vars
    BY <2>10 DEF vars, nativeVars
  <2>11. QED
    BY <1>1, <2>1, <2>2, <2>3, <2>4, <2>5, <2>6, <2>7, <2>8, <2>9, <2>10 DEF QuietStep
<1>2. ~ReadBytes /\ ~Take
  BY DEF ReadBytes, Take
<1>3. QED
  BY <1>1, <1>2, StepCases

-----------------------------------------------------------------------------
(* The bytes and the result.                                               *)

\* Every step keeps the bytes in order.
LEMMA OrderStep ==
  ASSUME TypeOK, CallInv, OrderInv, [Next]_vars
  PROVE OrderInv'
<1>1. CASE QuietStep
  BY <1>1, QuietKeeps DEF OrderInv, Got
<1>2. CASE ReadStep
  <2>1. PICK kind \in Kind, off \in Index, len \in 0 .. BufferLength : Read(kind, off, len)
    BY <1>2 DEF ReadStep
  <2>2. at = "idle" /\ at' # "idle" /\ call'.first = taken /\ UNCHANGED <<taken, total, bytes, body>>
    BY <2>1 DEF Read, Return, nativeVars
  <2>3. body = Empty /\ total = 0 /\ bytes = 0 /\ taken \in Nat
    BY <2>2 DEF OrderInv, CallInv, TypeOK
  <2>4. QED
    BY <2>2, <2>3 DEF OrderInv, Got, Empty
<1>3. CASE ReadBytes
  <2>1. PICK n \in Nat : Chunk(n)
    BY <1>3, ChunkRead
  <2>2. /\ taken = call.first + Got /\ call.first \in Nat /\ total \in Nat /\ bytes \in Nat
        /\ \A i \in Index :
             body[i] = IF i - call.off \in 0 .. Got - 1 THEN call.first + (i - call.off) + 1
                       ELSE 0
    BY <1>3 DEF ReadBytes, TypeOK, OrderInv
  <2>3. Got' = Got + n /\ taken' = call.first + Got'
    BY <2>1, <2>2, <1>3 DEF Chunk, ReadBytes, Got
  <2>4. ASSUME NEW i \in Index
        PROVE body'[i] = IF i - call.off \in 0 .. Got' - 1 THEN call.first + (i - call.off) + 1
                         ELSE 0
    <3>1. i \in Int /\ call.off \in Int /\ Got \in Nat /\ Got = total + bytes
      BY <2>2, BytesAssumption DEF TypeOK, Index, Got
    <3>2. body'[i] = IF i - (call.off + Got) \in 0 .. n - 1
                     THEN taken + (i - (call.off + Got)) + 1 ELSE body[i]
      <4>1. call.off + total + bytes = call.off + Got /\ i \in DOMAIN body
        BY <2>2, <3>1 DEF TypeOK
      <4>2. body' = Stored(call.off + Got, n)
        BY <2>1, <4>1 DEF Chunk
      <4>3. QED
        BY <4>1, <4>2 DEF Stored
    <3>3. QED
      BY <2>1, <2>2, <2>3, <3>1, <3>2 DEF Chunk
  <2>5. QED
    BY <2>3, <2>4, <1>3 DEF ReadBytes, OrderInv
<1>4. CASE NextByte
  BY <1>4 DEF NextByte, OrderInv, Return, Got
<1>5. CASE Take
  BY <1>5 DEF Take, OrderInv
<1>6. QED
  BY <1>1, <1>2, <1>3, <1>4, <1>5, StepCases

\* Every step keeps what is returned right.
LEMMA ResultStep ==
  ASSUME TypeOK, CallInv, OrderInv, ReturnsRead, [Next]_vars
  PROVE ReturnsRead'
<1> SUFFICES ASSUME at' = "returned", call'.kind \in {"readArray", "readByte"}
             PROVE result' = IF call'.kind = "readArray" THEN taken' - call'.first
                             ELSE IF taken' = call'.first THEN -1 ELSE stream'[taken']
  BY DEF ReturnsRead, Returned
<1>1. CASE UNCHANGED <<at, call, taken, limit, total, bytes, count, elapsed, result>>
  <2>1. taken \in Nat /\ taken <= arrived /\ arrived \in Nat
    BY BytesAssumption DEF TypeOK
  <2>2. stream'[taken] = stream[taken] \/ taken = call.first
    <3>1. CASE \E byte \in Byte : Arrive(byte)
      <4>1. taken \in 1 .. MaxBytes \/ taken = 0
        BY <2>1, BytesAssumption DEF TypeOK
      <4>2. CASE taken = 0
        <5>1. call.first = 0
          BY <1>1, <4>2 DEF TypeOK, OrderInv, Got
        <5>2. QED
          BY <4>2, <5>1
      <4>3. CASE taken \in 1 .. MaxBytes
        BY <2>1, <3>1, <4>3 DEF Arrive, TypeOK
      <4>4. QED
        BY <4>1, <4>2, <4>3
    <3>2. CASE ~\E byte \in Byte : Arrive(byte)
      <4>1. UNCHANGED stream
        BY <3>2 DEF Next, Reader, Read, AvailableMinimum, ThresholdMinimum, InterruptedCheck,
           Native, Loop, Select, SelectFails, ReadBytes, ReadGone, ReturnBytes, NextByte, Take,
           EnableReceiveTimeout, EnableReceiveThreshold, Unplug, Tick, vars, deviceVars
      <4>2. QED
        BY <4>1
    <3>3. QED
      BY <3>1, <3>2
  <2>3. QED
    BY <1>1, <2>2 DEF ReturnsRead, Returned
<1>2. CASE ReadStep
  BY <1>2 DEF ReadStep, Read, Return, TypeOK
<1>3. CASE InterruptedCheck /\ result' = 0
  BY <1>3 DEF InterruptedCheck, TypeOK, CallInv, OrderInv, Got, Early
<1>4. CASE ReturnBytes
  <2>1. /\ taken = call.first + Got /\ total = 0 /\ Got = bytes
        /\ UNCHANGED <<call, taken, stream, body>> /\ at = "bytes"
        /\ bytes \in Nat /\ call.first \in Nat /\ bytes <= Wanted
    BY <1>4 DEF ReturnBytes, TypeOK, CallInv, OrderInv, Got, deviceVars
  <2>2. CASE call.kind = "readArray"
    BY <1>4, <2>1, <2>2 DEF ReturnBytes, Return
  <2>3. CASE call.kind = "readByte"
    <3>1. result' = IF bytes > 0 THEN Value(0) ELSE -1
      BY <1>4, <2>3 DEF ReturnBytes, Return
    <3>2. bytes \in {0, 1}
      BY <2>1, <2>3 DEF Wanted
    <3>3. CASE bytes = 0
      BY <2>1, <2>3, <3>1, <3>3
    <3>4. CASE bytes = 1
      <4>1. call.off = 0 /\ 0 \in Index
        BY <1>4, <2>3, <2>1, BytesAssumption DEF CallInv, Index
      <4>2. body[0] = taken /\ taken # 0 /\ taken # call.first
        BY <2>1, <3>4, <4>1 DEF OrderInv
      <4>3. QED
        BY <2>1, <2>3, <3>1, <3>4, <4>2 DEF Value
    <3>5. QED
      BY <3>2, <3>3, <3>4
  <2>4. QED
    BY <2>1, <2>2, <2>3
<1>5. ~NextByte
  BY DEF NextByte
<1>6. QED
  BY <1>1, <1>2, <1>3, <1>4, <1>5, Returns

\* Every step keeps the reasons for the end of a read.
LEMMA TableStep ==
  ASSUME TypeOK, CallInv, TableInv, [Next]_vars
  PROVE TableInv'
<1> SUFFICES ASSUME call'.kind = "readArray"
             PROVE /\ (at = "bytes" => bytes = Wanted \/ TimedOut \/ count = Rounds)'
                   /\ ReadTable'
  BY DEF TableInv
<1>1. ASSUME at' = "bytes"
      PROVE (bytes = Wanted \/ TimedOut \/ count = Rounds)'
  <2>1. CASE Loop
    <3>1. UNCHANGED <<call, bytes, limit, elapsed>>
      BY <2>1 DEF Loop
    <3>2. bytes \in Nat /\ Wanted \in Nat /\ count \in Nat /\ Rounds \in Nat
      BY WantedType, RoundsAssumption, BytesAssumption DEF TypeOK
    <3>3. bytes <= Wanted /\ count <= Rounds
      BY <2>1, <3>2 DEF Loop, CallInv, Reading, TypeOK
    <3>4. bytes = Wanted \/ TimedOut \/ count' = Rounds
      BY <2>1, <3>2, <3>3, <1>1 DEF Loop
    <3>5. QED
      BY <3>1, <3>4 DEF Wanted, TimedOut
  <2>2. ASSUME ~Loop PROVE at = "bytes" /\ UNCHANGED <<call, bytes, limit, elapsed, count>>
    <3>1. ~ReadStep /\ ~ReadBytes /\ ~NextByte /\ ~Take /\ ~AvailableMinimum
          /\ ~ThresholdMinimum /\ ~InterruptedCheck /\ ~Native /\ ~Select /\ ~SelectFails /\ ~ReadGone
          /\ ~ReturnBytes /\ ~Tick
      BY <1>1 DEF ReadStep, Read, ReadBytes, NextByte, Take, AvailableMinimum,
         ThresholdMinimum, InterruptedCheck, Native, Select, SelectFails, ReadGone,
         ReturnBytes, Tick, Return, Throw
    <3>2. CASE \E time \in Timeouts : EnableReceiveTimeout(time)
      BY <1>1, <3>2 DEF EnableReceiveTimeout, nativeVars
    <3>3. CASE \E thresh \in Thresholds : EnableReceiveThreshold(thresh)
      BY <1>1, <3>3 DEF EnableReceiveThreshold, nativeVars
    <3>4. CASE \E byte \in Byte : Arrive(byte)
      BY <1>1, <3>4 DEF Arrive, nativeVars
    <3>5. CASE Unplug
      BY <1>1, <3>5 DEF Unplug, nativeVars
    <3>6. CASE UNCHANGED vars
      BY <1>1, <3>6 DEF vars, nativeVars
    <3>7. QED
      BY <2>2, <3>1, <3>2, <3>3, <3>4, <3>5, <3>6, StepCases DEF QuietStep
  <2>3. QED
    BY <2>1, <2>2 DEF TableInv, Wanted, TimedOut
<1>2. ASSUME at' = "returned"
      PROVE (\/ result = call.Minimum
             \/ limit >= 0 /\ elapsed >= limit
             \/ count = Rounds
             \/ result = 0 /\ count = 0)'
  <2>1. CASE UNCHANGED <<at, call, taken, limit, total, bytes, count, elapsed, result>>
    BY <1>2, <2>1 DEF TableInv, ReadTable, Returned
  <2>2. CASE ReadStep
    BY <1>2, <2>2 DEF ReadStep, Read, Return
  <2>3. CASE InterruptedCheck /\ result' = 0
    BY <2>3 DEF InterruptedCheck, CallInv, Early, nativeVars
  <2>4. CASE ReturnBytes
    BY <2>4 DEF ReturnBytes, Return, TableInv, Wanted, TimedOut, nativeVars
  <2>5. ~NextByte
    BY DEF NextByte
  <2>6. QED
    BY <1>2, <2>1, <2>2, <2>3, <2>4, <2>5, Returns
<1>3. QED
  BY <1>1, <1>2 DEF ReadTable, Returned

\* Every step keeps the bytes that were there at the start.
LEMMA WaitStep ==
  ASSUME TypeOK, CallInv, WaitInv, TypeOK', [Next]_vars
  PROVE WaitInv'
<1>1. ASSUME NEW kind \in Kind, NEW off \in Index, NEW len \in 0 .. BufferLength, Read(kind, off, len)
      PROVE WaitInv'
  BY <1>1 DEF Read, WaitInv
<1>2. ASSUME AvailableMinimum PROVE WaitInv'
  <2> DEFINE m == IF Available = 0 THEN 1 ELSE Least(call.len, Available)
  <2>1. call.len \in Nat /\ Available \in Nat
    BY BytesAssumption DEF TypeOK, Available
  <2>2. Available > 0 => m <= Available
    BY <2>1 DEF Least
  <2>3. UNCHANGED <<arrived, taken>> /\ at' \notin Reading \cup {"bytes"}
    BY <1>2 DEF AvailableMinimum, Throw, Return, Reading, deviceVars
  <2>4. \/ at' = "thrown"
        \/ call' = [call EXCEPT !.available = Available, !.Minimum = m]
    BY <1>2 DEF AvailableMinimum, Throw, Return
  <2> HIDE DEF m
  <2>5. at' # "thrown" => call'.available = Available /\ call'.Minimum = m
    BY <2>4 DEF TypeOK
  <2>6. QED
    BY <2>2, <2>3, <2>5 DEF WaitInv, Available, Early, Reading
<1>3. ASSUME ThresholdMinimum PROVE WaitInv'
  BY <1>3 DEF ThresholdMinimum, CallInv, WaitInv
<1>4. ASSUME InterruptedCheck PROVE WaitInv'
  BY <1>4 DEF InterruptedCheck, WaitInv, Return, deviceVars, Early, Reading, Available
<1>5. ASSUME Native PROVE WaitInv'
  BY <1>5 DEF Native, TypeOK, CallInv, WaitInv, deviceVars, Early, Available
<1>6. ASSUME Loop PROVE WaitInv'
  BY <1>6 DEF Loop, WaitInv, deviceVars, Early, Reading, Available
<1>7. ASSUME Select PROVE WaitInv'
  BY <1>7 DEF Select, WaitInv, Available, deviceVars, nativeVars, Early, Reading
<1>8. ASSUME ReadBytes PROVE WaitInv'
  <2>1. PICK n \in Nat : Chunk(n)
    BY <1>8, ChunkRead
  <2>2. /\ UNCHANGED <<call, total, arrived>> /\ at = "read" /\ at' = "loop"
        /\ bytes' = bytes + n /\ taken' = taken + n
    BY <1>8, <2>1 DEF ReadBytes, Chunk, deviceVars
  <2>3. /\ call.Minimum \in Nat /\ total \in Nat /\ bytes \in Nat /\ taken \in Nat
        /\ arrived \in Nat /\ call.available \in Nat
    BY BytesAssumption DEF TypeOK
  <2>4. QED
    BY <2>2, <2>3 DEF WaitInv, Available, Early, Reading
<1>9. ASSUME ReadGone PROVE WaitInv'
  BY <1>9 DEF ReadGone, WaitInv, Throw, deviceVars, nativeVars, Early, Reading, Available,
     Return
<1>10. ASSUME ReturnBytes PROVE WaitInv'
  BY <1>10 DEF ReturnBytes, CallInv, WaitInv, Return, deviceVars, nativeVars, Early,
     Available
<1>11. ASSUME NextByte PROVE WaitInv'
  BY <1>11 DEF NextByte, TypeOK, WaitInv, Return, deviceVars, Early, Reading, Available
<1>12. ASSUME Take PROVE WaitInv'
  BY <1>12 DEF Take, WaitInv, NoCall
<1>13. ASSUME NEW time \in Timeouts, EnableReceiveTimeout(time) PROVE WaitInv'
  BY <1>13 DEF EnableReceiveTimeout, WaitInv, deviceVars, nativeVars, Available
<1>14. ASSUME NEW thresh \in Thresholds, EnableReceiveThreshold(thresh) PROVE WaitInv'
  BY <1>14 DEF EnableReceiveThreshold, WaitInv, deviceVars, nativeVars, Available
<1>15. ASSUME NEW byte \in Byte, Arrive(byte) PROVE WaitInv'
  BY <1>15 DEF Arrive, TypeOK, WaitInv, nativeVars, Available
<1>16. ASSUME Unplug PROVE WaitInv'
  BY <1>16 DEF Unplug, WaitInv, nativeVars, Available
<1>17. ASSUME Tick PROVE WaitInv'
  BY <1>17 DEF Tick, WaitInv, deviceVars, nativeVars, Available
<1>18. ASSUME UNCHANGED vars PROVE WaitInv'
  BY <1>18 DEF vars, WaitInv, deviceVars, nativeVars, Available
<1>19. ASSUME SelectFails PROVE WaitInv'
  BY <1>19 DEF SelectFails, WaitInv, Throw, Return, Early, Reading
<1>20. QED
  BY <1>1, <1>2, <1>3, <1>4, <1>5, <1>6, <1>7, <1>8, <1>9, <1>10, <1>11, <1>12, <1>13,
     <1>14, <1>15, <1>16, <1>17, <1>18, <1>19 DEF Next, Reader

-----------------------------------------------------------------------------
(* The terminator.                                                         *)

\* What has been stored stays, when a read is to the start of the array.
LEMMA ValueKept ==
  ASSUME TypeOK, OrderInv, QuietStep \/ ReadBytes \/ NextByte, at # "idle", call.off = 0,
         NEW i \in Index, i < Got
  PROVE Value(i)' = Value(i)
<1>1. i \in Nat /\ Got \in Nat /\ taken \in Nat /\ taken <= arrived /\ call.first \in Nat
  BY BytesAssumption DEF TypeOK, Index, Got
<1>2. taken = call.first + Got /\ body[i] = call.first + i + 1
  BY <1>1 DEF OrderInv
<1>3. CASE ReadBytes
  <2>1. PICK n \in Nat : Chunk(n)
    BY <1>3, ChunkRead
  <2>2. total \in Nat /\ bytes \in Nat /\ Got = total + bytes
    BY DEF TypeOK, Got
  <2>3. body'[i] = body[i]
    BY <1>1, <2>1, <2>2 DEF Chunk, Stored, TypeOK
  <2>4. QED
    BY <1>3, <2>3 DEF ReadBytes, deviceVars, Value
<1>4. CASE NextByte
  BY <1>4 DEF NextByte, deviceVars, Value
<1>5. CASE \E byte \in Byte : Arrive(byte)
  <2>1. PICK byte \in Byte : Arrive(byte)
    BY <1>5
  <2>2. body[i] # arrived + 1 /\ body[i] \in 1 .. MaxBytes
    <3>1. arrived \in Nat /\ arrived <= MaxBytes /\ MaxBytes \in Nat
      BY BytesAssumption DEF TypeOK
    <3>2. body[i] \in Nat /\ body[i] > 0 /\ body[i] <= arrived
      BY <1>1, <1>2, <3>1
    <3>3. QED
      BY <3>1, <3>2
  <2>3. QED
    BY <2>1, <2>2 DEF Arrive, TypeOK, Value
<1>6. CASE QuietStep /\ ~\E byte \in Byte : Arrive(byte)
  <2>1. UNCHANGED stream
    BY <1>6 DEF QuietStep, AvailableMinimum, ThresholdMinimum, InterruptedCheck, Native,
       Loop, Select, SelectFails, ReadGone, ReturnBytes, EnableReceiveTimeout,
       EnableReceiveThreshold, Unplug, Tick, vars, deviceVars
  <2>2. QED
    BY <1>6, <2>1, QuietKeeps DEF Value
<1>7. QED
  BY <1>3, <1>4, <1>5, <1>6

LEMMA TerminatorKept ==
  ASSUME TypeOK, OrderInv, QuietStep \/ ReadBytes \/ NextByte, at # "idle", call.off = 0,
         NEW k \in Int, k <= Got, NoTerminator(k)
  PROVE NoTerminator(k)'
<1> SUFFICES ASSUME NEW i \in Index, i > 0, i < k
             PROVE ~(Value(i)' = Terminator[1] /\ Value(i - 1)' = Terminator[0])
  BY DEF NoTerminator
<1>1. i - 1 \in Index /\ i < Got /\ i - 1 < Got
  BY BytesAssumption DEF Index, TypeOK, Got
<1>2. Value(i)' = Value(i) /\ Value(i - 1)' = Value(i - 1)
  BY <1>1, ValueKept
<1>3. QED
  BY <1>2 DEF NoTerminator

\* Every step keeps what has been stored free of terminators.
LEMMA TermStep ==
  ASSUME TypeOK, CallInv, OrderInv, TermInv, CallInv', TypeOK', [Next]_vars
  PROVE TermInv'
<1> SUFFICES ASSUME call'.kind = "readTerminatedArray", call'.off = 0
             PROVE /\ at' \in Calling => NoTerminator(total)'
                   /\ at' # "idle" => NoTerminator(Got - 1)'
  BY DEF TermInv, StopsAtTerminator, NoTerminator, Calling
<1>1. ASSUME at # "idle", call.kind = "readTerminatedArray", call.off = 0
      PROVE (at \in Calling => NoTerminator(total)) /\ NoTerminator(Got - 1)
  BY <1>1 DEF TermInv, StopsAtTerminator, NoTerminator, Calling
<1>2. /\ total \in Nat /\ bytes \in Nat /\ Got = total + bytes
      /\ total' \in Nat /\ bytes' \in Nat /\ Got' = total' + bytes'
      /\ \A i \in Index : i \in Int
  BY DEF TypeOK, Got, Index
<1>3. CASE QuietStep
  <2>1. CASE at = "idle"
    BY <1>3, <2>1, QuietKeeps DEF Calling, Early, Reading
  <2>2. CASE at # "idle"
    <3>1. call.kind = "readTerminatedArray" /\ call.off = 0 /\ total' = total /\ bytes' = bytes
          /\ (at' \in Calling => at \in Calling)
      BY <1>3, QuietKeeps
    <3>2. ASSUME NEW k \in Int, k <= Got, NoTerminator(k) PROVE NoTerminator(k)'
      BY <1>3, <2>2, <3>1, <3>2, TerminatorKept
    <3>3. QED
      BY <1>1, <1>2, <2>2, <3>1, <3>2 DEF NoTerminator
  <2>3. QED
    BY <2>1, <2>2
<1>4. CASE ReadStep
  <2>1. total' = 0 /\ bytes' = 0
    BY <1>4 DEF ReadStep, Read, CallInv, nativeVars
  <2>2. QED
    BY <1>2, <2>1 DEF NoTerminator
<1>5. CASE ReadBytes
  <2>1. UNCHANGED <<total, call>> /\ at = "read" /\ at' = "loop"
    BY <1>5 DEF ReadBytes
  <2>2. NoTerminator(total)
    BY <1>1, <2>1 DEF Calling, Reading
  <2>3. ASSUME NEW k \in Int, k = total PROVE NoTerminator(k)'
    BY <1>2, <1>5, <2>1, <2>2, <2>3, TerminatorKept
  <2>4. NoTerminator(total)'
    BY <1>2, <2>1, <2>3 DEF NoTerminator
  <2>5. bytes' <= Wanted' /\ Wanted' = 1
    BY <2>1 DEF CallInv, Reading, Wanted
  <2>6. ASSUME NEW i \in Index, i > 0, i < Got' - 1 PROVE i < total'
    BY <1>2, <2>5, <2>6
  <2>7. NoTerminator(Got - 1)'
    BY <2>4, <2>6 DEF NoTerminator
  <2>8. QED
    BY <2>4, <2>7
<1>6. CASE NextByte
  <2>1. /\ UNCHANGED <<call, body, stream>> /\ at = "bytes" /\ total' = Got /\ bytes' = 0
        /\ at' \in Calling => ~AtTerminator(total)' /\ bytes > 0
    BY <1>6 DEF NextByte, Got, deviceVars, Calling, Early, Reading, Return, AtTerminator,
       Value
  <2>2. NoTerminator(total) /\ NoTerminator(Got - 1)
    BY <1>1, <2>1 DEF Calling
  <2>3. bytes <= 1
    BY <1>2, <2>1 DEF CallInv, Wanted
  <2>4. ASSUME at' \in Calling PROVE NoTerminator(total)'
    BY <1>2, <2>1, <2>2, <2>3, <2>4 DEF NoTerminator, AtTerminator, Value
  <2>5. NoTerminator(Got - 1)'
    BY <1>2, <2>1, <2>2 DEF NoTerminator, Value
  <2>6. QED
    BY <2>4, <2>5
<1>7. CASE Take
  BY <1>7 DEF Take, Calling, Early, Reading
<1>8. QED
  BY <1>3, <1>4, <1>5, <1>6, <1>7, StepCases

-----------------------------------------------------------------------------
(* The theorems.                                                           *)

LEMMA Initial == Init => IInv
<1> SUFFICES ASSUME Init PROVE IInv
  OBVIOUS
<1>1. TypeOK
  BY BytesAssumption, RoundsAssumption, TimeoutsAssumption, ThresholdsAssumption
  DEF Init, TypeOK, NoCall, Empty, Loc, Kind, Index
<1>2. CallInv
  BY BytesAssumption DEF Init, CallInv, NoCall, Early, Reading
<1>3. OrderInv /\ ReturnsRead
  BY DEF Init, OrderInv, ReturnsRead, Returned
<1>4. TableInv /\ WaitInv /\ TermInv
  BY DEF Init, NoCall, TableInv, WaitInv, TermInv
<1>5. QED
  BY <1>1, <1>2, <1>3, <1>4 DEF IInv

\* The invariant holds in every state.
THEOREM Invariance == Spec => []IInv
<1>1. IInv /\ [Next]_vars => IInv'
  BY TypeStep, CallStep, OrderStep, ResultStep, TableStep, WaitStep, TermStep DEF IInv
<1>2. QED
  BY Initial, <1>1, PTL DEF Spec

\* Every variable keeps its type: in particular no read stores a byte outside the array,
\* nor goes beyond the rounds of read_byte_array.
THEOREM TypeCorrect == Spec => []TypeOK
  BY Invariance, PTL DEF IInv

\* The bytes of a read are the next ones, in order, from off on, no more than len, and
\* nothing else is written (read_byte_array, readTerminatedArray).
THEOREM Order == Spec => []BytesInOrder
<1>1. IInv => BytesInOrder
  <2> SUFFICES ASSUME IInv, at # "idle"
               PROVE  /\ taken = call.first + Got /\ Got <= call.len
                      /\ \A i \in DOMAIN body :
                           body[i] = IF i - call.off \in 0 .. Got - 1
                                     THEN call.first + (i - call.off) + 1 ELSE 0
    BY DEF BytesInOrder
  <2>1. /\ total \in Nat /\ bytes \in Nat /\ call.len \in Nat /\ Wanted \in Nat
        /\ DOMAIN body = Index /\ at \in Loc
    BY WantedType, BytesAssumption DEF IInv, TypeOK
  <2>2. Got <= call.len
    BY <2>1 DEF IInv, CallInv, Early, Reading, Loc, Got
  <2>3. QED
    BY <2>1, <2>2 DEF IInv, OrderInv
<1>2. QED
  BY <1>1, Invariance, PTL

\* read(b, off, len) returns how many bytes it has taken from the device, read() the byte
\* itself, or -1 for none.
THEOREM Counted == Spec => []ReturnsRead
  BY Invariance, PTL DEF IInv

\* read(b, off, len) ends as the table in its comment says, but for the removed listener
\* and the rounds.
THEOREM Table == Spec => []ReadTable
<1>1. IInv => ReadTable
  BY DEF IInv, TableInv, ReadTable, Returned
<1>2. QED
  BY <1>1, Invariance, PTL

\* No read waits for more bytes when nativeavailable() had told it of some.
THEOREM NoWait == Spec => []NoNeedlessWait
<1>1. IInv => NoNeedlessWait
  <2> SUFFICES ASSUME IInv, call.available > 0, at = "select"
               PROVE Available > 0
    BY DEF NoNeedlessWait
  <2>1. call.Minimum - total - bytes <= Available /\ total < call.Minimum
    BY DEF IInv, WaitInv, Reading
  <2>2. bytes < Wanted /\ (call.kind # "readTerminatedArray" => total = 0)
        /\ total + Wanted <= call.len
    BY DEF IInv, CallInv, Reading
  <2>3. call.kind # "readByte"
    BY DEF IInv, CallInv
  <2>4. /\ total \in Nat /\ bytes \in Nat /\ Available \in Int /\ call.Minimum \in Nat
        /\ call.kind \in Kind
    BY BytesAssumption DEF IInv, TypeOK, Available
  <2>5. QED
    BY <2>1, <2>2, <2>3, <2>4 DEF Wanted, Kind
<1>2. QED
  BY <1>1, Invariance, PTL

\* No read with a terminator takes a byte that follows it.
THEOREM Terminated == Spec => []StopsAtTerminator
<1>1. IInv => StopsAtTerminator
  BY DEF IInv, TermInv, StopsAtTerminator
<1>2. QED
  BY <1>1, Invariance, PTL

\* getReceiveTimeout tells the timeout, to 100 ms, whoever has set it or the threshold
\* last (NativeEnableReceiveTimeoutThreshold).
THEOREM Told == Spec => []TimeoutTold
<1>1. Init => TimeoutTold
  BY DEF Init, TimeoutTold, NativeisReceiveTimeoutEnabled
<1>2. TypeOK /\ TimeoutTold /\ [Next]_vars => TimeoutTold'
  <2> SUFFICES ASSUME TypeOK, TimeoutTold, [Next]_vars, device' = "ok", timeout' < 25600
               PROVE IF timeout' < 0 THEN ~NativeisReceiveTimeoutEnabled'
                     ELSE timeout' - NativegetReceiveTimeout' \in 0 .. 99
    BY DEF TimeoutTold
  <2>1. timeout \in Int
    BY TimeoutsAreInt DEF TypeOK
  <2>2. ASSUME NEW time \in Timeouts, EnableReceiveTimeout(time)
        PROVE VTIME' = VTimeOf(timeout') /\ timeout' \in Int
    BY <2>2, TimeoutsAreInt DEF EnableReceiveTimeout, SetVTIME, deviceVars
  <2>3. ASSUME NEW thresh \in Thresholds, EnableReceiveThreshold(thresh)
        PROVE VTIME' = VTimeOf(timeout') /\ timeout' \in Int
    BY <2>1, <2>3 DEF EnableReceiveThreshold, SetVTIME, deviceVars
  <2>4. CASE VTIME' = VTimeOf(timeout') /\ timeout' \in Int
    BY <2>4, VTimeTells DEF NativeisReceiveTimeoutEnabled, NativegetReceiveTimeout
  <2>5. CASE UNCHANGED <<device, timeout, VTIME>>
    BY <2>5 DEF TimeoutTold, NativeisReceiveTimeoutEnabled, NativegetReceiveTimeout
  <2>6. ASSUME ~\E time \in Timeouts : EnableReceiveTimeout(time),
               ~\E thresh \in Thresholds : EnableReceiveThreshold(thresh)
        PROVE UNCHANGED <<device, timeout, VTIME>>
    BY <2>6 DEF Next, Reader, Read, AvailableMinimum, ThresholdMinimum, InterruptedCheck,
       Native, Loop, Select, SelectFails, ReadBytes, ReadGone, ReturnBytes, NextByte, Take,
       Arrive, Unplug, Tick, vars, deviceVars, portVars
  <2>7. QED
    BY <2>2, <2>3, <2>4, <2>5, <2>6
<1>3. QED
  BY <1>1, <1>2, TypeCorrect, PTL DEF Spec
=============================================================================
