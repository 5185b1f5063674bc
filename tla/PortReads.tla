----------------------------- MODULE PortReads -----------------------------
(***************************************************************************)
(* Reading: the methods of SerialInputStream, with readByte, readArray,    *)
(* readTerminatedArray and read_byte_array, under the receive timeout and  *)
(* threshold of the port.  A read runs while bytes arrive, time passes,    *)
(* and other threads change the timeout, the threshold and the listener.   *)
(*                                                                         *)
(* The methods are synchronized on the stream: one read at a time.  What a *)
(* read does to IOLocked and to the event flag is in SerialPort.           *)
(***************************************************************************)
EXTENDS Integers

CONSTANTS MaxBytes,      \* bound on the bytes that arrive
          BufferLength,  \* length of the array b
          Byte,          \* the values of bytes
          Terminator,    \* the two bytes of t
          Timeouts,      \* values of timeout, in ms; -1 disables it
          Thresholds,    \* values of threshold; 0 disables it
          Rounds         \* the 20 of read_byte_array

ASSUME BytesAssumption ==
  MaxBytes \in Nat /\ BufferLength \in Nat \ {0} /\ Byte \subseteq Nat
ASSUME TerminatorAssumption == Terminator \in [0 .. 1 -> Byte]
ASSUME TimeoutsAssumption == -1 \in Timeouts /\ Timeouts \subseteq Nat \cup {-1}
ASSUME ThresholdsAssumption == 0 \in Thresholds /\ Thresholds \subseteq Nat
ASSUME RoundsAssumption == Rounds \in Nat \ {0}

VARIABLES
  stream,     \* the bytes that have arrived, numbered from 1
  arrived,    \* how many
  taken,      \* how many read(2) has returned
  device,     \* "ok", or "gone" (unplugged)
  timeout, threshold,  \* the fields of the port
  VTIME,      \* c_cc[VTIME] of the device
  at,         \* where the read is
  call,       \* its arguments, and what it has decided before the native call
  limit,      \* timeout, as the native method has read it
  total,      \* bytes of the complete read_byte_array calls
  bytes,      \* bytes of the current one
  count,      \* its rounds
  elapsed,    \* now - start
  body,       \* which byte is where in b; 0: none
  result      \* what the read returns

deviceVars == <<stream, arrived, device>>
portVars == <<timeout, threshold, VTIME>>
nativeVars == <<limit, total, bytes, count>>
vars == <<deviceVars, taken, portVars, at, call, nativeVars, elapsed, body, result>>

Index == 0 .. BufferLength - 1
Kind == {"readByte", "readArray", "readTerminatedArray"}
Loc == {"idle", "available", "threshold", "interrupted", "native", "loop", "select",
        "read", "bytes", "returned", "thrown"}

TypeOK ==
  /\ stream \in [1 .. MaxBytes -> Byte \cup {0}]
  /\ arrived \in 0 .. MaxBytes
  /\ taken \in 0 .. arrived
  /\ device \in {"ok", "gone"}
  /\ timeout \in Timeouts
  /\ threshold \in Thresholds
  /\ VTIME \in 0 .. 255
  /\ at \in Loc
  /\ call \in [kind : Kind, off : Index, len : 0 .. BufferLength,
               Minimum : 0 .. BufferLength, available : 0 .. MaxBytes,
               first : 0 .. MaxBytes]
  /\ limit \in Timeouts
  /\ total \in 0 .. BufferLength
  /\ bytes \in 0 .. BufferLength
  /\ count \in 0 .. Rounds
  /\ elapsed \in Timeouts \cup {0}
  /\ body \in [Index -> 0 .. MaxBytes]
  /\ result \in -1 .. BufferLength \cup Byte

Empty == [i \in Index |-> 0]
NoCall == [kind |-> "readByte", off |-> 0, len |-> 0, Minimum |-> 0, available |-> 0,
           first |-> 0]

Init ==
  /\ stream = [i \in 1 .. MaxBytes |-> 0]
  /\ arrived = 0
  /\ taken = 0
  /\ device = "ok"
  /\ timeout = -1
  /\ threshold = 0
  /\ VTIME = 0
  /\ at = "idle"
  /\ call = NoCall
  /\ limit = -1
  /\ total = 0 /\ bytes = 0 /\ count = 0
  /\ elapsed = 0
  /\ body = Empty
  /\ result = 0

Least(a, b) == IF a < b THEN a ELSE b
Available == arrived - taken

Return(value) == at' = "returned" /\ result' = value
Throw == at' = "thrown" /\ UNCHANGED result

-----------------------------------------------------------------------------
(* The stream's methods, up to the native call.                            *)

\* read(), read(b, off, len) and read(b, off, len, t), with a new array; read(b) is
\* read(b, 0, b.length).  The test of threshold is the first of two accesses to it.
Read(kind, off, len) ==
  /\ at = "idle"
  /\ off + len <= BufferLength
  /\ kind = "readByte" => off = 0 /\ len = 1
  /\ call' = [kind |-> kind, off |-> off, len |-> len, Minimum |-> len, available |-> 0,
              first |-> taken]
  /\ IF len = 0
     THEN Return(0)
     ELSE /\ at' = IF kind = "readByte" THEN "native"
                   ELSE IF threshold = 0 THEN "available" ELSE "threshold"
          /\ UNCHANGED result
  /\ UNCHANGED <<deviceVars, taken, portVars, nativeVars, elapsed, body>>

\* The threshold is disabled: as many bytes as nativeavailable() tells, at least one.
AvailableMinimum ==
  /\ at = "available"
  /\ \/ /\ device = "ok"
        /\ call' = [call EXCEPT
                      !.available = Available,
                      !.Minimum = IF Available = 0 THEN 1 ELSE Least(call.len, Available)]
        /\ at' = "interrupted"
        /\ UNCHANGED result
     \/ device = "gone" /\ Throw /\ UNCHANGED call
  /\ UNCHANGED <<deviceVars, taken, portVars, nativeVars, elapsed, body>>

\* The second access to threshold: it may be 0 by now.
ThresholdMinimum ==
  /\ at = "threshold"
  /\ call' = [call EXCEPT !.Minimum = Least(call.len, threshold)]
  /\ at' = "interrupted"
  /\ UNCHANGED <<deviceVars, taken, portVars, nativeVars, elapsed, body, result>>

\* if ( monThreadisInterrupted == true ) return(0): the one access to a field that other
\* threads set at any time.
InterruptedCheck ==
  /\ at = "interrupted"
  /\ \/ Return(0)
     \/ at' = "native" /\ UNCHANGED result
  /\ UNCHANGED <<deviceVars, taken, portVars, call, nativeVars, elapsed, body>>

-----------------------------------------------------------------------------
(* The native methods.                                                     *)

\* readByte, readArray and readTerminatedArray get the timeout, and call
\* read_byte_array, which gets the time.
Native ==
  /\ at = "native"
  /\ limit' = timeout
  /\ at' = "loop"
  /\ UNCHANGED <<deviceVars, taken, portVars, call, total, bytes, count, elapsed, body, result>>

\* The length read_byte_array is called with.
Wanted == IF call.kind = "readArray" THEN call.Minimum ELSE 1

TimedOut == limit >= 0 /\ elapsed >= limit

\* while( bytes < length && count++ < 20 ), and the test of the timeout.
Loop ==
  /\ at = "loop"
  /\ IF bytes < Wanted /\ count < Rounds
     THEN count' = count + 1 /\ at' = IF TimedOut THEN "bytes" ELSE "select"
     ELSE at' = "bytes" /\ UNCHANGED count
  /\ UNCHANGED <<deviceVars, taken, portVars, call, limit, total, bytes, elapsed, body,
                 result>>

\* Mutant: select without a time limit.
SelectForever ==
  /\ at = "select"
  /\ Available > 0 \/ device = "gone"
  /\ at' = "read"
  /\ UNCHANGED <<deviceVars, taken, portVars, call, nativeVars, elapsed, body, result>>

\* select(): the descriptor is readable, or the rest of the timeout is over.
Select ==
  /\ at = "select"
  /\ \/ (Available > 0 \/ device = "gone") /\ at' = "read"
     \/ TimedOut /\ at' = "loop"
  /\ UNCHANGED <<deviceVars, taken, portVars, call, nativeVars, elapsed, body, result>>

\* select() fails, for instance with EINTR: what has been read is dropped.
SelectFails ==
  /\ at = "select"
  /\ Throw
  /\ UNCHANGED <<deviceVars, taken, portVars, call, nativeVars, elapsed, body>>

\* The n bytes of a read(2) are stored from buffer + bytes on, behind the array if they
\* do not fit.
Stored(start, n) ==
  [i \in DOMAIN body \cup start .. start + n - 1 |->
     IF i - start \in 0 .. n - 1 THEN taken + (i - start) + 1 ELSE body[i]]

\* Mutant: each read(2) stores from the start of the buffer.
ReadToStart ==
  /\ at = "read"
  /\ \E n \in 1 .. Least(Wanted - bytes, Available) :
       /\ body' = Stored(call.off + total, n)
       /\ bytes' = bytes + n
       /\ taken' = taken + n
  /\ at' = "loop"
  /\ UNCHANGED <<deviceVars, portVars, call, limit, total, count, elapsed, result>>

\* Mutant: what the first read(2) returns is enough.
ReadOnce ==
  /\ at = "read"
  /\ \E n \in 1 .. Least(Wanted - bytes, Available) :
       /\ body' = Stored(call.off + total + bytes, n)
       /\ bytes' = bytes + n
       /\ taken' = taken + n
  /\ at' = "bytes"
  /\ UNCHANGED <<deviceVars, portVars, call, limit, total, count, elapsed, result>>

\* read(2) of the bytes left.  It returns some of those that are there, and, when the
\* device is gone, 0 or an error.
ReadBytes ==
  /\ at = "read"
  /\ \E n \in 1 .. Least(Wanted - bytes, Available) :
       /\ body' = Stored(call.off + total + bytes, n)
       /\ bytes' = bytes + n
       /\ taken' = taken + n
  /\ at' = "loop"
  /\ UNCHANGED <<deviceVars, portVars, call, limit, total, count, elapsed, result>>

ReadGone ==
  /\ at = "read"
  /\ device = "gone"
  /\ \/ at' = "loop" /\ UNCHANGED result
     \/ Throw
  /\ UNCHANGED <<deviceVars, taken, portVars, call, nativeVars, elapsed, body>>

Value(i) == IF body[i] = 0 THEN 0 ELSE stream[body[i]]

\* readArray returns what read_byte_array returns, readByte the byte itself or, without
\* one, -1.
ReturnBytes ==
  /\ at = "bytes"
  /\ \/ call.kind = "readArray" /\ Return(bytes)
     \/ call.kind = "readByte" /\ Return(IF bytes > 0 THEN Value(0) ELSE -1)
  /\ UNCHANGED <<deviceVars, taken, portVars, call, nativeVars, elapsed, body>>

\* The last two bytes of the array's first n, not of those stored from off on.
AtTerminator(n) ==
  n > 1 /\ Value(n - 1) = Terminator[1] /\ Value(n - 2) = Terminator[0]

\* readTerminatedArray reads one byte at a time, each with the whole timeout, and
\* returns what the last read_byte_array has returned.
NextByte ==
  /\ at = "bytes"
  /\ call.kind = "readTerminatedArray"
  /\ total' = total + bytes
  /\ IF ~AtTerminator(total') /\ bytes > 0 /\ total' < call.Minimum
     THEN at' = "loop" /\ elapsed' = 0 /\ count' = 0 /\ UNCHANGED result
     ELSE Return(bytes) /\ UNCHANGED <<elapsed, count>>
  /\ bytes' = 0
  /\ UNCHANGED <<deviceVars, taken, portVars, call, limit, body>>

Reader ==
  \/ AvailableMinimum \/ ThresholdMinimum \/ InterruptedCheck \/ Native \/ Loop \/ Select
  \/ ReadBytes \/ ReadGone \/ ReturnBytes \/ NextByte

\* The caller takes the result; the read's variables are gone.
Take ==
  /\ at \in {"returned", "thrown"}
  /\ at' = "idle"
  /\ call' = NoCall
  /\ limit' = -1 /\ total' = 0 /\ bytes' = 0 /\ count' = 0
  /\ elapsed' = 0
  /\ body' = Empty
  /\ result' = 0
  /\ UNCHANGED <<deviceVars, taken, portVars>>

-----------------------------------------------------------------------------
(* The port's configuration, by one other thread: each method stores a     *)
(* field and then makes the native call, without a lock.                   *)

\* NativeEnableReceiveTimeoutThreshold: c_cc[VTIME], an unsigned char.
VTimeOf(vtime) ==
  LET ms == IF vtime < 0 THEN 0 ELSE IF vtime = 0 THEN 1 ELSE vtime
  IN (ms \div 100) % 256

\* tcsetattr, which throws when the device is gone.
SetVTIME(vtime) ==
  VTIME' = IF device = "ok" THEN VTimeOf(vtime) ELSE VTIME

\* enableReceiveTimeout, and disableReceiveTimeout for -1.
EnableReceiveTimeout(time) ==
  /\ timeout' = time
  /\ SetVTIME(time)
  /\ UNCHANGED <<deviceVars, taken, threshold, at, call, nativeVars,
                 elapsed, body, result>>

\* Mutant: the threshold is passed for the timeout.
EnableReceiveThresholdSwapped(thresh) ==
  /\ threshold' = thresh
  /\ SetVTIME(100 * thresh)
  /\ UNCHANGED <<deviceVars, taken, timeout, at, call, nativeVars,
                 elapsed, body, result>>

\* enableReceiveThreshold, and disableReceiveThreshold for 0.
EnableReceiveThreshold(thresh) ==
  /\ threshold' = thresh
  /\ SetVTIME(timeout)
  /\ UNCHANGED <<deviceVars, taken, timeout, at, call, nativeVars,
                 elapsed, body, result>>

NativegetReceiveTimeout == VTIME * 100
NativeisReceiveTimeoutEnabled == VTIME > 0

-----------------------------------------------------------------------------
(* The device and the time.                                                *)

Arrive(byte) ==
  /\ device = "ok"
  /\ arrived < MaxBytes
  /\ arrived' = arrived + 1
  /\ stream' = [stream EXCEPT ![arrived + 1] = byte]
  /\ UNCHANGED <<device, taken, portVars, at, call, nativeVars, elapsed, body, result>>

Unplug ==
  /\ device = "ok"
  /\ device' = "gone"
  /\ UNCHANGED <<stream, arrived, taken, portVars, at, call, nativeVars, elapsed, body, result>>

\* Time passes, to one of the moments a timeout names.  A read without a timeout never
\* asks for it.
Tick ==
  /\ at \in {"loop", "select", "read"}
  /\ limit >= 0
  /\ \E t \in Timeouts : t > elapsed /\ elapsed' = t
  /\ UNCHANGED <<deviceVars, taken, portVars, at, call, nativeVars, body, result>>

Next ==
  \/ \E kind \in Kind, off \in Index, len \in 0 .. BufferLength : Read(kind, off, len)
  \/ Reader
  \/ SelectFails
  \/ Take
  \/ \E time \in Timeouts : EnableReceiveTimeout(time)
  \/ \E thresh \in Thresholds : EnableReceiveThreshold(thresh)
  \/ \E byte \in Byte : Arrive(byte)
  \/ Unplug
  \/ Tick

Spec == Init /\ [][Next]_vars

\* A read goes on, and so does the time.  Nothing has to arrive.
FairSpec == Spec /\ WF_vars(Reader) /\ WF_vars(Tick)

-----------------------------------------------------------------------------
(* Properties.                                                             *)

\* How many bytes this read has taken from the device.
Got == total + bytes

\* The bytes of a read are those that follow the last read's, in the order of their
\* arrival, from off on, and nothing else in the array is written: read_byte_array and
\* readTerminatedArray keep buffer, bytes, left and total together over any number of
\* rounds, and within the length of the read.  (A read that throws drops its bytes.)
BytesInOrder ==
  at # "idle" =>
    /\ taken = call.first + Got /\ Got <= call.len
    /\ \A i \in DOMAIN body :
         body[i] = IF i - call.off \in 0 .. Got - 1 THEN call.first + (i - call.off) + 1
                   ELSE 0

Returned(kind) == at = "returned" /\ call.kind = kind

\* "@return int number of bytes read", of read(b) and read(b, off, len), also when the
\* timeout ends it half way; read() returns the byte it has taken, or -1 for none.
ReturnsRead ==
  /\ Returned("readArray") => result = taken - call.first
  /\ Returned("readByte") => result = IF taken = call.first THEN -1 ELSE stream[taken]

\* The table in the comment of read(b, off, len): the read ends with the bytes it has
\* asked for, or at its timeout.  What the table leaves out: a listener has been
\* removed, or read_byte_array has been through its 20 rounds.  What it asks for is at
\* least one byte, unless the threshold was disabled between its two accesses.
ReadTable ==
  Returned("readArray") =>
    \/ result = call.Minimum
    \/ limit >= 0 /\ elapsed >= limit
    \/ count = Rounds
    \/ result = 0 /\ count = 0

\* "If threshold is disabled, read should return as soon as data are available (up to
\* the amount of available bytes in order to avoid blocking)": no select() of such a
\* read waits when there were bytes at its start.
NoNeedlessWait ==
  call.available > 0 /\ at = "select" => Available > 0

\* "If the read encounters the two bytes, it will return": for a read to the start of
\* the array, no byte behind the terminator is taken.
StopsAtTerminator ==
  at # "idle" /\ call.kind = "readTerminatedArray" /\ call.off = 0 =>
    \A i \in Index :
      i > 0 /\ i < Got - 1 => ~(Value(i) = Terminator[1] /\ Value(i - 1) = Terminator[0])

\* getReceiveTimeout and isReceiveTimeoutEnabled tell the timeout that reads use, to the
\* 100 ms of VTIME and up to 25.5 s: whatever order it and the threshold are set in, by
\* one thread.
TimeoutTold ==
  device = "ok" /\ timeout < 25600 =>
    IF timeout < 0 THEN ~NativeisReceiveTimeoutEnabled
    ELSE timeout - NativegetReceiveTimeout \in 0 .. 99

\* A read with a timeout returns, data or not, 0 bytes or not.
ReadReturns ==
  at \in {"loop", "select", "read", "bytes"} /\ limit >= 0 ~> at \in {"returned", "thrown"}
=============================================================================
