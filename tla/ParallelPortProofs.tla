-------------------------- MODULE ParallelPortProofs --------------------------
(***************************************************************************)
(* The parallel port, proved for any threads of the application, event     *)
(* loops, lengths and bounds.                                              *)
(***************************************************************************)
EXTENDS ParallelPort, TLAPS

CallType == [op : Ops, native : BOOLEAN, fd : {0, 1}, left : Nat, bytes : Nat,
             want : Nat, timed : BOOLEAN, ready : BOOLEAN, errors : 0 .. Tries]

\* The types, part by part.
PortOK ==
  /\ win \in BOOLEAN /\ fd \in {0, 1} /\ device \in {"open", "closed", "failed"}
  /\ lock \in Agent \cup {None} /\ closing \in BOOLEAN
  /\ listener \in BOOLEAN /\ monThread \in Mon \cup {None} /\ notify \in BOOLEAN
LoopOK ==
  /\ loop \in [Mon -> Loops] /\ loopFd \in [Mon -> {0, 1}]
  /\ events \in [Mon -> 0 .. MaxFlags]
IoOK ==
  /\ threshold \in Nat \ {0} /\ timeout \in BOOLEAN
  /\ call \in [App -> CallType]
  /\ input \in 0 .. MaxInput /\ dropped \in Nat /\ crossed \in BOOLEAN
CountOK ==
  /\ again \in BOOLEAN /\ calls \in 0 .. MaxCalls

TInv == PortOK /\ LoopOK /\ IoOK /\ CountOK

LEMMA Types == TInv => TypeOK
BY DEF TInv, PortOK, LoopOK, IoOK, CountOK, TypeOK, CallType

LEMMA Bounds ==
  /\ MaxCalls \in Nat /\ MaxInput \in Nat /\ MaxFlags \in Nat /\ Tries \in Nat
  /\ \A n \in Lengths : n \in Nat \ {0}
BY BoundAssumption

LEMMA NoCallOK == NoCall \in CallType /\ NoCall.op = "none" /\ ~NoCall.native /\ NoCall.bytes = 0
BY Bounds DEF NoCall, CallType, Ops

LEMMA TypeInit == Init => TInv
<1> SUFFICES ASSUME Init PROVE TInv
  OBVIOUS
<1>1. PortOK
  BY DEF Init, PortOK
<1>5. CountOK
  <2>1. again = FALSE /\ calls = 0
    BY DEF Init
  <2>2. 0 \in 0 .. MaxCalls
    BY Bounds
  <2>3. QED
    BY Zenon, <2>1, <2>2 DEF CountOK
<1>2. LoopOK
  BY Bounds DEF Init, LoopOK, Loops
<1>3. IoOK
  <2>1. call \in [App -> CallType]
    BY NoCallOK DEF Init
  <2>2. threshold = 1 /\ timeout = FALSE /\ input = 0 /\ dropped = 0 /\ crossed = FALSE
    BY DEF Init
  <2>3. 1 \in Nat \ {0} /\ 0 \in 0 .. MaxInput /\ 0 \in Nat
    BY Bounds
  <2>4. QED
    BY Zenon, <2>1, <2>2, <2>3 DEF IoOK
<1>4. QED
  BY <1>1, <1>2, <1>3, <1>5 DEF TInv

-----------------------------------------------------------------------------
(* Types.                                                                  *)

\* The synchronized methods.
LEMMA MethodType ==
  ASSUME TInv, NEW t \in Agent, UNCHANGED win,
         \/ (\E m \in Mon : addEventListener(t, m)) /\ calls' = calls + 1 /\ calls < MaxCalls
         \/ removeEventListener(t) /\ calls' = calls + 1 /\ calls < MaxCalls
         \/ (\E on \in BOOLEAN : notifyOnError(t, on)) /\ calls' = calls + 1 /\ calls < MaxCalls
         \/ close(t) /\ calls' = calls + 1 /\ calls < MaxCalls
         \/ CloseDone(t) /\ calls' = calls
  PROVE  TInv'
<1>0. ASSUME UNCHANGED again, calls' = calls + 1, calls < MaxCalls PROVE CountOK'
  BY <1>0, Bounds DEF TInv, CountOK
<1>1. CASE (\E m \in Mon : addEventListener(t, m)) /\ calls' = calls + 1 /\ calls < MaxCalls
  <2>1. CountOK' /\ IoOK'
    BY <1>0, <1>1 DEF addEventListener, io, TInv, IoOK
  <2>2. PICK m \in Mon : addEventListener(t, m)
    BY <1>1
  <2>3. loop' \in [Mon -> Loops] /\ loopFd' \in [Mon -> {0, 1}] /\ UNCHANGED events
    BY <2>2 DEF addEventListener, TInv, PortOK, LoopOK, Loops
  <2>4. PortOK'
    BY <2>2 DEF addEventListener, TInv, PortOK
  <2>5. QED
    BY <2>1, <2>3, <2>4 DEF TInv, LoopOK
<1>2. CASE removeEventListener(t) /\ calls' = calls + 1 /\ calls < MaxCalls
  <2>1. CountOK' /\ IoOK' /\ LoopOK'
    BY <1>0, <1>2 DEF removeEventListener, io, loops, TInv, IoOK, LoopOK
  <2>2. PortOK'
    BY <1>2 DEF removeEventListener, TInv, PortOK
  <2>3. QED
    BY <2>1, <2>2 DEF TInv
<1>3. CASE (\E on \in BOOLEAN : notifyOnError(t, on)) /\ calls' = calls + 1 /\ calls < MaxCalls
  BY <1>3, Bounds DEF notifyOnError, TInv, PortOK, LoopOK, IoOK, CountOK, io, loops
<1>4. CASE close(t) /\ calls' = calls + 1 /\ calls < MaxCalls
  <2>1. again' \in BOOLEAN
    BY Zenon, <1>4 DEF close, nativeClose
  <2>2. QED
    BY <1>4, <2>1, Bounds DEF close, nativeClose, TInv, PortOK, LoopOK, IoOK, CountOK, io, loops
<1>5. CASE CloseDone(t) /\ calls' = calls
  BY <1>5, Bounds DEF CloseDone, TInv, PortOK, LoopOK, IoOK, CountOK, io, loops
<1>6. QED
  BY <1>1, <1>2, <1>3, <1>4, <1>5

LEMMA FinalizeType ==
  ASSUME TInv, NEW t \in App, finalize(t)
  PROVE  TInv'
<1>1. again' \in BOOLEAN
  BY Zenon DEF finalize, nativeClose
<1>2. QED
  BY <1>1, Bounds DEF finalize, nativeClose, TInv, PortOK, LoopOK, IoOK, CountOK, io, loops, Agent

\* The event loop.
LEMMA LoopType ==
  ASSUME TInv, NEW m \in Mon, EventLoop(m), win' = win, calls' = calls
  PROVE  TInv'
<1>1. UNCHANGED <<io, again>>
  BY DEF EventLoop, Check, Checked, Select, SendEvent, Callback
<1>2. IoOK' /\ CountOK'
  BY <1>1 DEF TInv, IoOK, CountOK, io
<1>3. CASE Check(m)
  BY <1>2, <1>3 DEF Check, Move, TInv, PortOK, LoopOK, port, Loops
<1>4. CASE Checked(m)
  <2>1. UNCHANGED <<port, loopFd>> /\ \E to \in Loops : Move(m, to)
    BY <1>4 DEF Checked, Loops
  <2>2. UNCHANGED events \/ \E n \in 0 .. MaxFlags : events' = [events EXCEPT ![m] = n]
    BY <1>4, Bounds DEF Checked
  <2>3. QED
    BY <1>2, <2>1, <2>2 DEF Move, TInv, PortOK, LoopOK, port
<1>5. CASE Select(m)
  BY <1>2, <1>5 DEF Select, Move, TInv, PortOK, LoopOK, port, Loops
<1>6. CASE SendEvent(m)
  <2>1. UNCHANGED <<win, fd, device, closing, listener, monThread, notify, loopFd>>
        /\ (UNCHANGED lock \/ lock' = m)
        /\ (UNCHANGED loop \/ \E to \in Loops : Move(m, to))
    BY <1>6 DEF SendEvent, TakesPort, Loops
  <2>2. UNCHANGED events \/ (events[m] > 0 /\ events' = [events EXCEPT ![m] = @ - 1])
    BY <1>6 DEF SendEvent
  <2>3. events' \in [Mon -> 0 .. MaxFlags]
    BY <2>2, Bounds DEF TInv, LoopOK
  <2>4. QED
    BY <1>2, <2>1, <2>3 DEF Move, TInv, PortOK, LoopOK, Agent
<1>7. CASE Callback(m)
  BY <1>2, <1>7 DEF Callback, Move, TInv, PortOK, LoopOK, Loops
<1>8. QED
  BY <1>3, <1>4, <1>5, <1>6, <1>7 DEF EventLoop

\* A step that changes reads, writes and what they work on.
LEMMA IoType ==
  ASSUME TInv, IoOK', win' = win, UNCHANGED <<port, loops, again>>,
         calls' = calls \/ (calls' = calls + 1 /\ calls < MaxCalls)
  PROVE  TInv'
BY Bounds DEF TInv, PortOK, LoopOK, CountOK, port, loops

\* One thread's read or write goes on, and nothing is dropped.
LEMMA GoesType ==
  ASSUME TInv, NEW t \in App, NEW c \in CallType, Goes(t, c)
  PROVE  call' \in [App -> CallType]
BY DEF Goes, TInv, IoOK

LEMMA EndsType ==
  ASSUME TInv, NEW t \in App
  PROVE  /\ Ends(t) => call' \in [App -> CallType]
         /\ Fails(t) => call' \in [App -> CallType] /\ dropped' \in Nat
         /\ TimeOver(t) => call' \in [App -> CallType] /\ dropped' \in Nat
<1>1. Ends(t) => call' \in [App -> CallType]
  BY NoCallOK, GoesType DEF Ends
<1>2. call[t].bytes \in Nat /\ dropped \in Nat
  BY DEF TInv, IoOK, CallType
<1>3. QED
  BY <1>1, <1>2 DEF Fails, TimeOver

\* The records calls go on to.
LEMMA RecordOK ==
  ASSUME NEW c \in CallType, NEW l \in Nat, NEW b \in Nat
  PROVE  /\ \A e \in 0 .. Tries : [c EXCEPT !.left = l, !.errors = e] \in CallType
         /\ [c EXCEPT !.bytes = b, !.left = l, !.ready = FALSE] \in CallType
BY DEF CallType

\* Steps of reads and writes.
LEMMA CallType1 ==
  ASSUME TInv, NEW t \in App, Native(t) \/ SelectRead(t) \/ nativeavailable(t) \/ WriteStep(t),
         win' = win, calls' = calls
  PROVE  TInv'
<1>. DEFINE c == call[t]
<1>0. c \in CallType /\ fd \in {0, 1} /\ threshold \in Nat
  BY DEF TInv, IoOK, PortOK
<1>1. CASE Native(t)
  <2>. DEFINE d == [c EXCEPT !.native = TRUE, !.fd = fd,
                       !.want = IF c.op = "readByte" THEN 1 ELSE Smaller(threshold, c.left),
                       !.timed = c.op = "readArray" \/ timeout]
  <2>1. (c.op = "readArray" \/ timeout) \in BOOLEAN
    BY Zenon
  <2>2. Smaller(threshold, c.left) \in Nat
    BY <1>0 DEF Smaller, CallType
  <2>3. d \in CallType
    BY <1>0, <2>1, <2>2 DEF CallType
  <2>4. Goes(t, d)
    BY <1>1 DEF Native
  <2>. HIDE DEF d
  <2>5. call' \in [App -> CallType]
    BY <2>3, <2>4, GoesType
  <2>6. QED
    BY <1>1, <2>5, IoType DEF Native, Same, TInv, IoOK
<1>2. CASE SelectRead(t)
  <2>1. [c EXCEPT !.ready = TRUE] \in CallType
    BY <1>0 DEF CallType
  <2>2. call' \in [App -> CallType] /\ dropped' \in Nat
    BY <1>2, <2>1, GoesType, EndsType DEF SelectRead, TInv, IoOK
  <2>3. QED
    BY <1>2, <2>2, IoType DEF SelectRead, Same, TInv, IoOK
<1>3. CASE nativeavailable(t)
  BY <1>3, EndsType, IoType DEF nativeavailable, Same, TInv, IoOK
<1>4. CASE WriteStep(t)
  <2>1. \A n \in 1 .. c.left : [c EXCEPT !.left = @ - n, !.errors = 0] \in CallType
    <3>1. SUFFICES ASSUME NEW n \in 1 .. c.left
                   PROVE  [c EXCEPT !.left = @ - n, !.errors = 0] \in CallType
      OBVIOUS
    <3>2. c.left - n \in Nat /\ 0 \in 0 .. Tries
      BY <1>0, Bounds DEF CallType
    <3>3. QED
      BY <1>0, <3>2, RecordOK
  <2>2. c.errors < Tries => [c EXCEPT !.errors = @ + 1] \in CallType
    BY <1>0, Bounds DEF CallType
  <2>3. call' \in [App -> CallType]
    BY <1>4, <2>1, <2>2, GoesType, EndsType DEF WriteStep
  <2>4. QED
    BY <1>4, <2>3, IoType DEF WriteStep, Same, TInv, IoOK
<1>5. QED
  BY <1>1, <1>2, <1>3, <1>4

LEMMA ReadType ==
  ASSUME TInv, NEW t \in App, read_byte_array(t), win' = win, calls' = calls
  PROVE  TInv'
<1>. DEFINE c == call[t]
<1>0. c \in CallType
  BY DEF TInv, IoOK
<1>1. UNCHANGED <<threshold, timeout, port, loops, again>>
  BY DEF read_byte_array, Same
<1>2. ASSUME NEW n \in 1 .. MaxInput, Takes(t, n) PROVE TInv'
  <2>1. n <= c.left /\ n <= input /\ input' = input - n /\ UNCHANGED dropped
    BY <1>2 DEF Takes
  <2>2. crossed' \in BOOLEAN
    BY Zenon, <1>2 DEF Takes
  <2>3. [c EXCEPT !.bytes = @ + n, !.left = @ - n, !.ready = FALSE] \in CallType
    <3>1. c.left - n \in Nat /\ c.bytes + n \in Nat
      BY <1>0, <2>1, Bounds DEF CallType
    <3>2. QED
      BY <1>0, <3>1, RecordOK
  <2>4. call' \in [App -> CallType]
    BY <1>2, <2>3, GoesType, EndsType DEF Takes
  <2>5. input' \in 0 .. MaxInput
    BY <2>1, Bounds DEF TInv, IoOK
  <2>6. IoOK'
    BY <1>1, <2>1, <2>2, <2>4, <2>5 DEF TInv, IoOK
  <2>7. QED
    BY <1>1, <2>6, IoType
<1>3. ASSUME Fails(t) \/ (Ends(t) /\ dropped' = dropped), input' = input, crossed' = crossed PROVE TInv'
  <2>1. IoOK'
    BY <1>1, <1>3, EndsType DEF TInv, IoOK
  <2>2. QED
    BY <1>1, <2>1, IoType
<1>4. QED
  <2>1. \/ \E n \in 1 .. MaxInput : Takes(t, n)
        \/ Fails(t) /\ UNCHANGED <<input, crossed>>
        \/ Ends(t) /\ UNCHANGED <<input, crossed, dropped>>
    BY DEF read_byte_array
  <2>2. CASE \E n \in 1 .. MaxInput : Takes(t, n)
    BY <1>2, <2>2
  <2>3. CASE \/ Fails(t) /\ UNCHANGED <<input, crossed>>
             \/ Ends(t) /\ UNCHANGED <<input, crossed, dropped>>
    BY <1>3, <2>3
  <2>4. QED
    BY <2>1, <2>2, <2>3

LEMMA CallsType ==
  ASSUME TInv, NEW t \in App, UNCHANGED win, calls' = calls + 1, calls < MaxCalls,
         \/ \E n \in Lengths, op \in Ops \ {"none"} : Begin(t, op, n)
         \/ \E n \in Lengths : enableReceiveThreshold(t, n)
         \/ \E on \in BOOLEAN : enableReceiveTimeout(t, on)
  PROVE  TInv'
<1>1. ASSUME NEW n \in Lengths, NEW op \in Ops \ {"none"}, Begin(t, op, n) PROVE TInv'
  <2>1. [NoCall EXCEPT !.op = op, !.left = n] \in CallType
    BY NoCallOK, Bounds DEF CallType
  <2>2. call' \in [App -> CallType]
    BY <1>1, <2>1, GoesType DEF Begin
  <2>3. QED
    BY <1>1, <2>2, IoType DEF Begin, Same, TInv, IoOK
<1>2. ASSUME NEW n \in Lengths, enableReceiveThreshold(t, n) PROVE TInv'
  BY <1>2, IoType, Bounds DEF enableReceiveThreshold, Same, TInv, IoOK
<1>3. ASSUME NEW on \in BOOLEAN, enableReceiveTimeout(t, on) PROVE TInv'
  BY <1>3, IoType DEF enableReceiveTimeout, Same, TInv, IoOK
<1>4. QED
  BY <1>1, <1>2, <1>3

LEMMA DeviceType ==
  ASSUME TInv, Device, win' = win, calls' = calls
  PROVE  TInv'
BY Bounds DEF Device, TInv, PortOK, LoopOK, IoOK, CountOK, loops

LEMMA TypeStep == TInv /\ [Next]_vars => TInv'
<1> SUFFICES ASSUME TInv, [Next]_vars PROVE TInv'
  OBVIOUS
<1>1. ASSUME calls < MaxCalls, Calls, calls' = calls + 1, win' = win PROVE TInv'
  <2>1. CASE \E t \in Agent : \E m \in Mon : addEventListener(t, m)
    BY <1>1, <2>1, MethodType
  <2>2. CASE \E t \in Agent : removeEventListener(t) \/ close(t)
    BY <1>1, <2>2, MethodType
  <2>3. CASE \E t \in Agent : \E on \in BOOLEAN : notifyOnError(t, on)
    BY <1>1, <2>3, MethodType
  <2>4. CASE \E t \in App : \E n \in Lengths, op \in Ops \ {"none"} : Begin(t, op, n)
    BY <1>1, <2>4, CallsType
  <2>5. CASE \E t \in App : \E n \in Lengths : enableReceiveThreshold(t, n)
    BY <1>1, <2>5, CallsType
  <2>6. CASE \E t \in App : \E on \in BOOLEAN : enableReceiveTimeout(t, on)
    BY <1>1, <2>6, CallsType
  <2>7. QED
    BY <1>1, <2>1, <2>2, <2>3, <2>4, <2>5, <2>6 DEF Calls
<1>2. ASSUME NEW t \in App, finalize(t) PROVE TInv'
  BY <1>2, FinalizeType
<1>3. ASSUME NEW t \in Agent, CloseDone(t), win' = win, calls' = calls PROVE TInv'
  BY <1>3, MethodType
<1>4. ASSUME NEW t \in App, CallSteps(t), win' = win, calls' = calls PROVE TInv'
  BY <1>4, CallType1, ReadType DEF CallSteps
<1>5. ASSUME NEW m \in Mon, EventLoop(m), win' = win, calls' = calls PROVE TInv'
  BY <1>5, LoopType
<1>6. CASE UNCHANGED vars
  BY <1>6 DEF vars, port, loops, io, TInv, PortOK, LoopOK, IoOK, CountOK
<1>7. QED
  BY <1>1, <1>2, <1>3, <1>4, <1>5, <1>6, DeviceType DEF Next

(* Every variable holds a value of its type, whatever the bounds: a read   *)
(* never counts below nothing left, nor takes more than the device has.    *)
THEOREM TypeCorrect == Spec => []TypeOK
<1>1. Spec => []TInv
  BY TypeInit, TypeStep, PTL DEF Spec
<1>2. QED
  BY <1>1, Types, PTL

-----------------------------------------------------------------------------
(* Who has the port's monitor.                                             *)

\* A listener is called with the monitor taken for it.
CallbackInv == \A m \in Mon : loop[m] = "callback" => lock = m

LEMMA CallbackStep == TInv /\ CallbackInv /\ [Next]_vars => CallbackInv'
<1> SUFFICES ASSUME TInv, CallbackInv, [Next]_vars PROVE CallbackInv'
  OBVIOUS
<1>0. None \notin Agent /\ App \cap Mon = {} /\ loop \in [Mon -> Loops]
  BY ThreadAssumption DEF Agent, TInv, LoopOK
<1>1. ASSUME UNCHANGED <<loop, lock>> PROVE CallbackInv'
  BY <1>1 DEF CallbackInv
<1>2. ASSUME NEW t \in Agent, NEW m \in Mon, addEventListener(t, m) PROVE CallbackInv'
  BY <1>0, <1>2 DEF addEventListener, CallbackInv
<1>3. ASSUME NEW t \in Agent, Enters(t), nativeClose(t) PROVE CallbackInv'
  <2>1. lock' = t /\ UNCHANGED loop /\ lock \in {None, t}
    BY <1>3 DEF nativeClose, Enters, loops
  <2>2. QED
    BY <1>0, <2>1 DEF CallbackInv, Agent
<1>4. ASSUME NEW t \in Agent, CloseDone(t) PROVE CallbackInv'
  <2>1. lock = t /\ lock' = (IF t \in Mon THEN t ELSE None) /\ UNCHANGED loop
    BY <1>4 DEF CloseDone, loops
  <2>2. QED
    BY <1>0, <2>1 DEF CallbackInv
<1>5. ASSUME NEW m \in Mon, EventLoop(m) PROVE CallbackInv'
  <2>1. CASE Check(m) \/ Checked(m) \/ Select(m)
    BY <1>0, <2>1 DEF Check, Checked, Select, Move, port, CallbackInv
  <2>2. CASE SendEvent(m)
    BY <1>0, <2>2 DEF SendEvent, TakesPort, Move, CallbackInv, Agent
  <2>3. CASE Callback(m)
    BY <1>0, <2>3 DEF Callback, Move, CallbackInv
  <2>4. QED
    BY <1>5, <2>1, <2>2, <2>3 DEF EventLoop
<1>6. CASE Calls
  BY <1>1, <1>2, <1>3, <1>6
     DEF Calls, removeEventListener, notifyOnError, close, Begin, enableReceiveThreshold,
         enableReceiveTimeout, Same, port, loops
<1>7. ASSUME NEW t \in App, finalize(t) PROVE CallbackInv'
  BY <1>3, <1>7 DEF finalize, Agent
<1>8. ASSUME NEW t \in App, CallSteps(t) PROVE CallbackInv'
  BY <1>1, <1>8 DEF CallSteps, Native, SelectRead, read_byte_array, WriteStep, nativeavailable,
                    Same, port, loops
<1>9. CASE Device \/ UNCHANGED vars
  BY <1>1, <1>9 DEF Device, vars, port, loops
<1>10. QED
  BY <1>4, <1>5, <1>6, <1>7, <1>8, <1>9 DEF Next

(* removeEventListener and close never end while an event is on its way to *)
(* the listener, except one that the listener itself is called with: both  *)
(* sendEvent and they are synchronized on the port, for any threads,       *)
(* loops, and order of adding and removing.                                *)
THEOREM NoLateEvent == Spec => QuietAfterRemove
<1>1. Init => CallbackInv
  BY DEF Init, CallbackInv
<1>2. CallbackInv /\ [Next]_vars
      => [listener /\ ~listener' => \A m \in Mon : loop[m] = "callback" => lock = m]_vars
  BY DEF CallbackInv
<1>3. QED
  BY <1>1, <1>2, CallbackStep, TypeInit, TypeStep, PTL DEF Spec, QuietAfterRemove

-----------------------------------------------------------------------------
(* One close of the device.                                                *)

\* Between close(2) and fd = 0 the thread that closes has the port's monitor.
CloseInv ==
  /\ device = "closed" /\ fd = 1 => closing
  /\ ~again

LEMMA CloseStep == CloseInv /\ [Next]_vars => CloseInv'
<1> SUFFICES ASSUME CloseInv, [Next]_vars PROVE CloseInv'
  OBVIOUS
<1>1. ASSUME UNCHANGED <<fd, closing, again>>, device' = "closed" => device = "closed"
      PROVE  CloseInv'
  BY <1>1 DEF CloseInv
<1>2. ASSUME NEW t \in Agent, Enters(t), nativeClose(t) PROVE CloseInv'
  <2>1. closing' /\ ~(fd = 1 /\ device = "closed")
    BY <1>2 DEF CloseInv, Enters, nativeClose
  <2>2. ~again'
    BY <1>2, <2>1 DEF CloseInv, nativeClose
  <2>3. QED
    BY <2>1, <2>2 DEF CloseInv
<1>3. ASSUME NEW t \in App, finalize(t) PROVE CloseInv'
  BY <1>2, <1>3 DEF finalize, Agent
<1>4. ASSUME NEW t \in Agent, CloseDone(t) PROVE CloseInv'
  BY <1>4 DEF CloseDone, CloseInv
<1>5. ASSUME Calls PROVE CloseInv'
  BY <1>1, <1>2, <1>5
     DEF Calls, close, addEventListener, removeEventListener, notifyOnError, Begin,
         enableReceiveThreshold, enableReceiveTimeout, Same, port
<1>6. ASSUME NEW t \in App, CallSteps(t) PROVE CloseInv'
  BY <1>1, <1>6 DEF CallSteps, Native, SelectRead, read_byte_array, WriteStep, nativeavailable,
                    Same, port
<1>7. ASSUME NEW m \in Mon, EventLoop(m) PROVE CloseInv'
  BY <1>1, <1>7 DEF EventLoop, Check, Checked, Select, SendEvent, Callback, port
<1>8. ASSUME Device PROVE CloseInv'
  BY <1>1, <1>8 DEF Device
<1>9. CASE UNCHANGED vars
  BY <1>1, <1>9 DEF vars, port
<1>10. QED
  BY <1>3, <1>4, <1>5, <1>6, <1>7, <1>8, <1>9 DEF Next

(* The device's descriptor is closed once, by whichever of the threads,    *)
(* listeners and the finalizer comes first.                                *)
THEOREM ClosedOnce == Spec => []ClosesOnce
<1>1. Init => CloseInv
  BY DEF Init, CloseInv
<1>2. CloseInv => ClosesOnce
  BY DEF CloseInv, ClosesOnce
<1>3. QED
  BY <1>1, <1>2, CloseStep, PTL DEF Spec

-----------------------------------------------------------------------------
(* The bytes a read has taken.                                             *)

\* Only a read in several rounds counts bytes, and it looks before each round
CallOK(c) ==
  /\ c.bytes > 0 => c.fd = 1 /\ c.timed /\ c.native /\ c.op = "readArray"
  /\ c.native /\ c.op = "readByte" => c.want = 1
  /\ c.native /\ c.op = "readArray" => c.timed
  /\ c.ready => c.native
\* ... and what it saw is there
Sees(c) == c.native /\ c.op \in {"readByte", "readArray"} /\ c.ready /\ c.fd = 1
ReadInv ==
  \A t \in App : CallOK(call[t]) /\ (Sees(call[t]) /\ device = "open" /\ ~crossed => input > 0)
BytesInv == ReadInv /\ KeepsBytes

LEMMA NoCallGood == CallOK(NoCall) /\ ~Sees(NoCall)
BY DEF CallOK, Sees, NoCall

\* A step of anything but a read or write.
LEMMA OtherStep ==
  ASSUME TInv, BytesInv, call' = call, dropped' = dropped, crossed' = crossed,
         device' = "open" => device = "open", input' \in Nat, input' >= input
  PROVE  BytesInv'
<1>1. input \in Nat
  BY Bounds DEF TInv, IoOK
<1>2. ReadInv'
  BY <1>1 DEF BytesInv, ReadInv
<1>3. QED
  BY <1>2 DEF BytesInv, KeepsBytes

\* A step of one thread's read or write.
LEMMA ThreadStep ==
  ASSUME TInv, BytesInv, NEW t \in App, NEW c \in CallType, Goes(t, c), CallOK(c),
         device' = device, crossed => crossed',
         Sees(c) /\ device = "open" /\ ~crossed' => input' > 0,
         ~crossed' => input' = input \/ \A u \in App \ {t} : ~Reading(u),
         dropped' > 0 => crossed' \/ device # "open"
  PROVE  BytesInv'
<1>1. call' = [call EXCEPT ![t] = c] /\ call \in [App -> CallType]
  BY DEF Goes, TInv, IoOK
<1>2. ASSUME NEW u \in App, u # t
      PROVE  CallOK(call'[u]) /\ (Sees(call'[u]) /\ device' = "open" /\ ~crossed' => input' > 0)
  <2>1. call'[u] = call[u]
    BY <1>1, <1>2
  <2>2. Sees(call[u]) => Reading(u)
    BY DEF Sees, Reading
  <2>3. QED
    BY <1>2, <2>1, <2>2 DEF BytesInv, ReadInv
<1>3. call'[t] = c
  BY <1>1
<1>4. ReadInv'
  BY <1>2, <1>3 DEF ReadInv
<1>5. QED
  BY <1>4 DEF BytesInv, KeepsBytes

\* A read or write that ends without failing, or fails and had taken nothing.
LEMMA EndStep ==
  ASSUME TInv, BytesInv, NEW t \in App, Ends(t), device' = device, crossed' = crossed,
         input' = input, dropped' > 0 => crossed \/ device # "open"
  PROVE  BytesInv'
BY NoCallOK, NoCallGood, ThreadStep DEF Ends

LEMMA FailStep ==
  ASSUME TInv, BytesInv, NEW t \in App, Fails(t), device' = device, crossed' = crossed,
         input' = input, call[t].bytes > 0 => crossed \/ device # "open"
  PROVE  BytesInv'
<1>1. dropped' = dropped + call[t].bytes /\ Ends(t) /\ dropped \in Nat /\ call[t].bytes \in Nat
  BY DEF Fails, TInv, IoOK, CallType
<1>2. dropped' > 0 => crossed \/ device # "open"
  BY <1>1 DEF BytesInv, KeepsBytes
<1>3. QED
  BY <1>1, <1>2, EndStep

LEMMA NativeStep ==
  ASSUME TInv, BytesInv, NEW t \in App, Native(t)
  PROVE  BytesInv'
<1>. DEFINE c == call[t]
<1>0. c \in CallType /\ CallOK(c) /\ fd \in {0, 1} /\ threshold \in Nat
  BY DEF TInv, IoOK, PortOK, BytesInv, ReadInv
<1>1. PICK w \in Nat, b \in BOOLEAN :
        /\ Goes(t, [c EXCEPT !.native = TRUE, !.fd = fd, !.want = w, !.timed = b])
        /\ c.op = "readByte" => w = 1
        /\ c.op = "readArray" => b
  <2>1. (c.op = "readArray" \/ timeout) \in BOOLEAN
    BY Zenon
  <2>2. (IF c.op = "readByte" THEN 1 ELSE Smaller(threshold, c.left)) \in Nat
    BY <1>0 DEF Smaller, CallType
  <2>3. Goes(t, [c EXCEPT !.native = TRUE, !.fd = fd,
                          !.want = IF c.op = "readByte" THEN 1 ELSE Smaller(threshold, c.left),
                          !.timed = c.op = "readArray" \/ timeout])
    BY DEF Native
  <2>4. QED
    BY Zenon, <2>1, <2>2, <2>3
<1>. DEFINE d == [c EXCEPT !.native = TRUE, !.fd = fd, !.want = w, !.timed = b]
<1>2. ~c.native
  BY DEF Native
<1>3. d \in CallType /\ CallOK(d) /\ ~Sees(d)
  BY <1>0, <1>1, <1>2 DEF CallOK, Sees, CallType
<1>4. device' = device /\ crossed' = crossed /\ input' = input /\ dropped' = dropped
  BY DEF Native, Same, port
<1>5. Goes(t, d)
  BY <1>1
<1>6. dropped' > 0 => crossed' \/ device # "open"
  BY <1>4 DEF BytesInv, KeepsBytes
<1>. HIDE DEF d
<1>7. QED
  BY <1>3, <1>4, <1>5, <1>6, ThreadStep

LEMMA SelectStep ==
  ASSUME TInv, BytesInv, NEW t \in App, SelectRead(t)
  PROVE  BytesInv'
<1>. DEFINE c == call[t]
<1>0. c \in CallType /\ CallOK(c) /\ input \in Nat
  BY Bounds DEF TInv, IoOK, BytesInv, ReadInv
<1>1. Reading(t) /\ device' = device /\ crossed' = crossed /\ input' = input
  BY DEF SelectRead, Same, port
<1>2. CASE (c.fd = 0 \/ input > 0 \/ device = "failed")
           /\ Goes(t, [c EXCEPT !.ready = TRUE]) /\ dropped' = dropped
  <2>. DEFINE d == [c EXCEPT !.ready = TRUE]
  <2>1. d \in CallType /\ CallOK(d) /\ d.fd = c.fd
    BY <1>0, <1>1 DEF CallOK, CallType, Reading
  <2>2. Sees(d) /\ device = "open" => input > 0
    BY <2>1, <1>2 DEF Sees
  <2>. HIDE DEF d
  <2>3. QED
    BY <1>1, <1>2, <2>1, <2>2, ThreadStep DEF BytesInv, KeepsBytes, d
<1>3. CASE TimeOver(t)
  BY <1>1, <1>3, EndStep DEF TimeOver, BytesInv, KeepsBytes
<1>4. CASE (c.fd = 0 \/ device = "closed") /\ Fails(t)
  BY <1>0, <1>1, <1>4, FailStep DEF CallOK
<1>5. QED
  BY <1>2, <1>3, <1>4 DEF SelectRead

LEMMA ReadStep ==
  ASSUME TInv, BytesInv, NEW t \in App, read_byte_array(t)
  PROVE  BytesInv'
<1>. DEFINE c == call[t]
<1>0. c \in CallType /\ CallOK(c) /\ input \in Nat /\ MaxInput \in Nat
  BY Bounds DEF TInv, IoOK, BytesInv, ReadInv
<1>1. Reading(t) /\ device' = device /\ (c.timed => c.ready)
  BY DEF read_byte_array, Same, port
<1>2. ASSUME NEW n \in 1 .. MaxInput, c.fd = 1, Takes(t, n) PROVE BytesInv'
  <2>. DEFINE d == [c EXCEPT !.bytes = @ + n, !.left = @ - n, !.ready = FALSE]
  <2>1. n <= c.left /\ dropped' = dropped /\ crossed' = (crossed \/ \E u \in App \ {t} : Reading(u))
    BY <1>2 DEF Takes
  <2>2. dropped' > 0 => crossed' \/ device # "open"
    BY <2>1 DEF BytesInv, KeepsBytes
  <2>3. ~crossed' => \A u \in App \ {t} : ~Reading(u)
    BY <2>1
  <2>4. CASE c.bytes + n < c.want /\ Goes(t, d)
    <3>1. c.left - n \in Nat /\ c.bytes + n \in Nat /\ c.bytes + n >= 1
      BY <1>0, <2>1 DEF CallType
    <3>2. d \in CallType
      BY <1>0, <3>1, RecordOK
    <3>3. c.op = "readArray" /\ c.timed /\ c.native
      BY <1>0, <1>1, <2>4, <3>1 DEF CallOK, Reading
    <3>4. CallOK(d) /\ ~Sees(d)
      BY <1>0, <1>2, <3>1, <3>3 DEF CallOK, Sees, CallType
    <3>. HIDE DEF d
    <3>5. QED
      BY <1>1, <2>1, <2>2, <2>3, <2>4, <3>2, <3>4, ThreadStep
  <2>5. CASE Ends(t)
    BY <1>1, <2>1, <2>2, <2>3, <2>5, NoCallOK, NoCallGood, ThreadStep DEF Ends
  <2>6. QED
    BY <1>2, <2>4, <2>5 DEF Takes
<1>3. ASSUME c.fd = 0 \/ device # "open" \/ input = 0, Fails(t), input' = input, crossed' = crossed
      PROVE  BytesInv'
  <2>1. c.bytes > 0 /\ device = "open" /\ ~crossed => input > 0 /\ c.fd = 1
    BY <1>0, <1>1 DEF CallOK, BytesInv, ReadInv, Sees
  <2>2. QED
    BY <1>0, <1>1, <1>3, <2>1, FailStep
<1>4. ASSUME Ends(t), input' = input, crossed' = crossed, dropped' = dropped PROVE BytesInv'
  BY <1>1, <1>4, EndStep DEF BytesInv, KeepsBytes
<1>5. QED
  BY <1>2, <1>3, <1>4 DEF read_byte_array

LEMMA WriteAndAsk ==
  ASSUME TInv, BytesInv, NEW t \in App, WriteStep(t) \/ nativeavailable(t)
  PROVE  BytesInv'
<1>. DEFINE c == call[t]
<1>0. c \in CallType /\ CallOK(c) /\ device' = device /\ crossed' = crossed /\ input' = input
      /\ dropped' = dropped
  BY DEF TInv, IoOK, BytesInv, ReadInv, WriteStep, nativeavailable, Same, port
<1>1. ASSUME NEW d \in CallType, Goes(t, d), CallOK(d), ~Sees(d) PROVE BytesInv'
  BY <1>0, <1>1, ThreadStep DEF BytesInv, KeepsBytes
<1>2. CASE Ends(t)
  BY <1>0, <1>2, EndStep DEF BytesInv, KeepsBytes
<1>3. ASSUME c.op = "writeArray", NEW n \in 1 .. c.left, Goes(t, [c EXCEPT !.left = @ - n, !.errors = 0])
      PROVE  BytesInv'
  <2>. DEFINE d == [c EXCEPT !.left = @ - n, !.errors = 0]
  <2>1. c.left - n \in Nat /\ 0 \in 0 .. Tries
    BY <1>0, Bounds DEF CallType
  <2>2. d \in CallType
    BY <1>0, <2>1, RecordOK
  <2>3. CallOK(d) /\ ~Sees(d)
    BY <1>0, <1>3 DEF CallOK, Sees, CallType
  <2>. HIDE DEF d
  <2>4. QED
    BY <1>1, <1>3, <2>2, <2>3 DEF d
<1>4. ASSUME c.op = "writeArray", c.errors < Tries, Goes(t, [c EXCEPT !.errors = @ + 1])
      PROVE  BytesInv'
  <2>. DEFINE d == [c EXCEPT !.errors = @ + 1]
  <2>1. d \in CallType
    BY <1>0, <1>4, Bounds DEF CallType
  <2>2. CallOK(d) /\ ~Sees(d)
    BY <1>0, <1>4 DEF CallOK, Sees, CallType
  <2>. HIDE DEF d
  <2>3. QED
    BY <1>1, <1>4, <2>1, <2>2 DEF d
<1>5. QED
  BY <1>2, <1>3, <1>4 DEF WriteStep, nativeavailable

LEMMA BytesStep == TInv /\ BytesInv /\ [Next]_vars => BytesInv'
<1> SUFFICES ASSUME TInv, BytesInv, [Next]_vars PROVE BytesInv'
  OBVIOUS
<1>0. input \in Nat
  BY Bounds DEF TInv, IoOK
<1>1. ASSUME UNCHANGED io, device' = "open" => device = "open" PROVE BytesInv'
  BY <1>0, <1>1, OtherStep DEF io
<1>2. ASSUME NEW t \in App, NEW n \in Lengths, NEW op \in Ops \ {"none"}, Begin(t, op, n)
      PROVE  BytesInv'
  <2>. DEFINE d == [NoCall EXCEPT !.op = op, !.left = n]
  <2>1. d \in CallType
    BY NoCallOK, Bounds DEF CallType
  <2>2. CallOK(d) /\ ~Sees(d)
    BY DEF CallOK, Sees, NoCall
  <2>3. Goes(t, d) /\ device' = device /\ crossed' = crossed /\ input' = input /\ dropped' = dropped
    BY <1>2 DEF Begin, Same, port
  <2>. HIDE DEF d
  <2>4. QED
    BY <2>1, <2>2, <2>3, ThreadStep DEF BytesInv, KeepsBytes
<1>3. ASSUME NEW t \in App, \/ \E n \in Lengths : enableReceiveThreshold(t, n)
                            \/ \E on \in BOOLEAN : enableReceiveTimeout(t, on)
      PROVE  BytesInv'
  BY <1>0, <1>3, OtherStep DEF enableReceiveThreshold, enableReceiveTimeout, Same, port
<1>4. ASSUME NEW t \in Agent, nativeClose(t) PROVE BytesInv'
  BY <1>1, <1>4 DEF nativeClose
<1>5. CASE Calls
  BY <1>1, <1>2, <1>3, <1>4, <1>5 DEF Calls, addEventListener, removeEventListener, notifyOnError, close
<1>6. ASSUME NEW t \in App, CallSteps(t) PROVE BytesInv'
  BY <1>6, NativeStep, SelectStep, ReadStep, WriteAndAsk DEF CallSteps
<1>7. ASSUME NEW m \in Mon, EventLoop(m) PROVE BytesInv'
  BY <1>1, <1>7 DEF EventLoop, Check, Checked, Select, SendEvent, Callback, port, io
<1>8. CASE Device
  BY <1>0, <1>8, OtherStep DEF Device
<1>9. ASSUME NEW t \in Agent, CloseDone(t) PROVE BytesInv'
  BY <1>1, <1>9 DEF CloseDone
<1>10. CASE UNCHANGED vars
  BY <1>1, <1>10 DEF vars, port
<1>11. ASSUME NEW t \in App, finalize(t) PROVE BytesInv'
  BY <1>4, <1>11 DEF finalize, Agent
<1>12. QED
  BY <1>5, <1>6, <1>7, <1>8, <1>9, <1>10, <1>11 DEF Next

(* What a read has taken from the device is not lost when a later round    *)
(* fails, unless the device went away or two reads met: select makes sure  *)
(* of one byte, and only another read can take it first.  For any number   *)
(* of readers, lengths, thresholds and closes.                             *)
THEOREM LosesNothing == Spec => []KeepsBytes
<1>1. Init => BytesInv
  BY NoCallGood DEF Init, BytesInv, ReadInv, KeepsBytes
<1>2. BytesInv => KeepsBytes
  BY DEF BytesInv
<1>3. QED
  BY <1>1, <1>2, BytesStep, TypeInit, TypeStep, PTL DEF Spec
==============================================================================
