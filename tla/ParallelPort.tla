----------------------------- MODULE ParallelPort -----------------------------
(***************************************************************************)
(* LPRPort.java and ParallelImp.c: a parallel port, its event loop and its *)
(* native reads and writes.  addEventListener, removeEventListener, close, *)
(* notifyOnError and sendEvent are synchronized on the port, the last also *)
(* while it runs the listener; reads and writes are not, and nothing waits *)
(* for them or for an event loop that is to end.                           *)
(***************************************************************************)
EXTENDS Integers, FiniteSets

CONSTANTS
  App, Mon,   \* threads of the application; event loops, each started once
  None,
  Lengths,    \* lengths of reads and writes
  Tries,      \* failed WriteFile calls of a Windows write that are repeated
  MaxInput,   \* bound: bytes waiting in the device
  MaxFlags,   \* bound: status flags raised at the same time
  MaxCalls    \* bound: calls the application makes

ASSUME ThreadAssumption == None \notin App \cup Mon /\ App \cap Mon = {}
ASSUME BoundAssumption ==
  /\ Lengths \subseteq Nat \ {0}
  /\ {Tries, MaxInput, MaxFlags, MaxCalls} \subseteq Nat

VARIABLES
  win,        \* whether this is the Windows build
  fd,         \* the field fd: 1 the device's descriptor, 0 after close
  device,     \* "open", "closed", or "failed"
  lock,       \* who is in a synchronized method that takes more than a step
  closing,    \* whether that is close
  listener, monThread, notify,   \* PPEventListener, monThread, its monError
  threshold, timeout,            \* the fields; timeout: whether it is set
  loop, loopFd, events,          \* of each event loop: place, fd, events to send
  call,       \* the read or write of each thread
  input,      \* bytes waiting in the device
  dropped,    \* history: bytes a failing read had taken
  crossed,    \* history: a read took bytes while another had some
  again,      \* history: the device's descriptor was closed after it had been closed
  calls       \* calls so far, at most MaxCalls

port == <<fd, device, lock, closing, listener, monThread, notify>>
loops == <<loop, loopFd, events>>
io == <<call, input, dropped, crossed, threshold, timeout>>
vars == <<win, port, loops, io, again, calls>>

Agent == App \cup Mon
NoCall == [op |-> "none", native |-> FALSE, fd |-> 0, left |-> 0, bytes |-> 0, want |-> 0, timed |-> FALSE,
           ready |-> FALSE, errors |-> 0]
Ops == {"none", "readByte", "readArray", "writeArray", "available"}
Loops == {"none", "check", "checked", "select", "recheck", "rechecked", "send", "callback", "dead"}

(* Every variable holds a value of its type: no read counts more than it   *)
(* was asked for.                                                          *)
TypeOK ==
  /\ win \in BOOLEAN /\ fd \in {0, 1} /\ device \in {"open", "closed", "failed"}
  /\ lock \in Agent \cup {None} /\ closing \in BOOLEAN
  /\ listener \in BOOLEAN /\ monThread \in Mon \cup {None} /\ notify \in BOOLEAN
  /\ threshold \in Nat \ {0} /\ timeout \in BOOLEAN
  /\ loop \in [Mon -> Loops] /\ loopFd \in [Mon -> {0, 1}]
  /\ events \in [Mon -> 0 .. MaxFlags]
  /\ call \in [App -> [op : Ops, native : BOOLEAN, fd : {0, 1}, left : Nat, bytes : Nat,
                       want : Nat, timed : BOOLEAN, ready : BOOLEAN, errors : 0 .. Tries]]
  /\ input \in 0 .. MaxInput /\ dropped \in Nat
  /\ crossed \in BOOLEAN /\ again \in BOOLEAN
  /\ calls \in 0 .. MaxCalls

Init ==
  /\ win \in BOOLEAN /\ fd = 1 /\ device = "open" /\ lock = None /\ closing = FALSE
  /\ listener = FALSE /\ monThread = None /\ notify = FALSE
  /\ threshold = 1 /\ timeout = FALSE
  /\ loop = [m \in Mon |-> "none"] /\ loopFd = [m \in Mon |-> 0]
  /\ events = [m \in Mon |-> 0]
  /\ call = [t \in App |-> NoCall]
  /\ input = 0 /\ dropped = 0 /\ crossed = FALSE
  /\ again = FALSE /\ calls = 0

Alive(m) == loop[m] \notin {"none", "dead"}

-----------------------------------------------------------------------------
(* The synchronized methods, of the application or from the listener.      *)

\* Mutant: the methods are not synchronized.
EntersAnyTime(t) == IF t \in Mon THEN loop[t] = "callback" ELSE call[t].op = "none"
\* t runs and may enter the port's monitor
Enters(t) ==
  /\ lock \in {None, t} /\ ~closing
  /\ IF t \in Mon THEN loop[t] = "callback" ELSE call[t].op = "none"

addEventListener(t, m) ==
  /\ Enters(t)
  /\ ~listener
  /\ loop[m] = "none"
  /\ listener' = TRUE /\ monThread' = m /\ notify' = FALSE
  /\ loop' = [loop EXCEPT ![m] = "check"] /\ loopFd' = [loopFd EXCEPT ![m] = fd]
  /\ UNCHANGED <<fd, device, lock, closing, events, io, again>>

removeEventListener(t) ==
  /\ Enters(t)
  /\ listener' = FALSE /\ monThread' = None
  /\ UNCHANGED <<fd, device, lock, closing, notify, loops, io, again>>

\* throws without a monitor thread
notifyOnError(t, on) ==
  /\ Enters(t)
  /\ monThread # None
  /\ notify' = on
  /\ UNCHANGED <<fd, device, lock, closing, listener, monThread, loops, io, again>>

\* fd is tested for < 0 only: on a closed port it is 0, and descriptor 0 is closed
nativeClose(t) ==
  /\ lock' = t /\ closing' = TRUE
  /\ device' = IF fd = 1 THEN "closed" ELSE device
  /\ again' = (again \/ (fd = 1 /\ device = "closed"))
  /\ UNCHANGED <<fd, listener, monThread, notify, loops, io>>
close(t) == Enters(t) /\ nativeClose(t)

CloseDone(t) ==
  /\ lock = t /\ closing
  /\ closing' = FALSE /\ fd' = 0
  /\ listener' = FALSE /\ monThread' = None
  /\ lock' = IF t \in Mon THEN t ELSE None
  /\ UNCHANGED <<device, notify, loops, io, again>>

\* The last thread without the port's monitor or a call in it lets go of it
finalize(t) ==
  /\ Enters(t) /\ t \in App
  /\ \A u \in App : call[u].op = "none"
  /\ \A m \in Mon : ~Alive(m)
  /\ fd > 0
  /\ nativeClose(t)
  /\ calls' = MaxCalls /\ UNCHANGED win

-----------------------------------------------------------------------------
(* eventLoop.                                                              *)

Move(m, to) == loop' = [loop EXCEPT ![m] = to]

\* Mutant: a port without a monitor thread is taken for one not interrupted.
NullIsRunning(m) == TRUE
\* monThread != null; a port has a new one, or none, when its old is interrupted
CheckMonitorThread(m) == monThread # None
Check(m) ==
  /\ loop[m] \in {"check", "recheck"}
  /\ Move(m, IF ~CheckMonitorThread(m) THEN "dead"
             ELSE IF loop[m] = "check" THEN "checked" ELSE "rechecked")
  /\ UNCHANGED <<port, loopFd, events, io>>

\* monThread.isInterrupted(), of the new thread; for null it throws, and the
\* native code goes on with 0.  LPGETSTATUS is read from a device that is open
Checked(m) ==
  \/ /\ loop[m] = "checked"
     /\ Move(m, "select")
     /\ UNCHANGED <<port, loopFd, events, io>>
  \/ /\ loop[m] = "rechecked"
     /\ Move(m, "send")
     /\ IF loopFd[m] = 1 /\ device = "open"
        THEN \E n \in 0 .. MaxFlags : events' = [events EXCEPT ![m] = n]
        ELSE events' = [events EXCEPT ![m] = 0]
     /\ UNCHANGED <<port, loopFd, io>>

\* A second, data, or a closed descriptor
Select(m) ==
  /\ loop[m] = "select"
  /\ Move(m, IF loopFd[m] = 1 /\ device = "closed" THEN "dead" ELSE "recheck")
  /\ UNCHANGED <<port, loopFd, events, io>>

\* Mutant: sendEvent does not take the port's monitor.
TakesNothing(m) == UNCHANGED lock
TakesPort(m) == lock = None /\ lock' = m

\* One event for each flag raised, whatever it is; the result is not looked at
SendEvent(m) ==
  /\ loop[m] = "send"
  /\ \/ /\ events[m] = 0
        /\ Move(m, "select") /\ UNCHANGED <<lock, events>>
     \/ /\ events[m] > 0
        /\ events' = [events EXCEPT ![m] = @ - 1]
        /\ IF fd # 0 /\ listener /\ monThread # None /\ notify
           THEN TakesPort(m) /\ Move(m, "callback")
           ELSE lock = None /\ UNCHANGED <<lock, loop>>
  /\ UNCHANGED <<fd, device, closing, listener, monThread, notify, loopFd, io>>

Callback(m) ==
  /\ loop[m] = "callback" /\ ~(closing /\ lock = m)
  /\ lock' = IF lock = m THEN None ELSE lock
  /\ Move(m, "send")
  /\ UNCHANGED <<fd, device, closing, listener, monThread, notify, loopFd, events, io>>

EventLoop(m) ==
  /\ Check(m) \/ Checked(m) \/ Select(m) \/ SendEvent(m) \/ Callback(m)
  /\ UNCHANGED again

-----------------------------------------------------------------------------
(* Reads and writes: the field fd is tested, then read again by the native *)
(* function, with the threshold and the timeout.                           *)

Same == UNCHANGED <<port, loops, again>>
Goes(t, c) == call' = [call EXCEPT ![t] = c]
Ends(t) == Goes(t, NoCall)

Begin(t, op, n) ==
  /\ call[t].op = "none" /\ lock # t
  /\ fd # 0
  /\ op \in {"readByte", "available"} => n = 1
  /\ op = "writeArray" => \A u \in App : call[u].op # "writeArray"    \* synchronized
  /\ Goes(t, [NoCall EXCEPT !.op = op, !.left = n])
  /\ UNCHANGED <<input, dropped, crossed, threshold, timeout>> /\ Same

Smaller(a, b) == IF a < b THEN a ELSE b

\* readArray takes the field threshold for its timeout, so that it always has one
Native(t) ==
  LET c == call[t] IN
  /\ c.op # "none" /\ ~c.native
  /\ Goes(t, [c EXCEPT !.native = TRUE, !.fd = fd,
                       !.want = IF c.op = "readByte" THEN 1 ELSE Smaller(threshold, c.left),
                       !.timed = c.op = "readArray" \/ timeout])
  /\ UNCHANGED <<input, dropped, crossed, threshold, timeout>> /\ Same

Reading(t) == call[t].native /\ call[t].op \in {"readByte", "readArray"}
Fails(t) == Ends(t) /\ dropped' = dropped + call[t].bytes

\* Mutant: a time limit that has passed counts as an error.
TimeIsError(t) == Fails(t)
\* The time is over: what has been read is returned
TimeOver(t) == Ends(t) /\ UNCHANGED dropped

\* read_byte_array: select(), for the descriptor 0 with any result
SelectRead(t) ==
  LET c == call[t] IN
  /\ Reading(t) /\ c.timed /\ ~c.ready
  /\ \/ /\ c.fd = 0 \/ input > 0 \/ device = "failed"
        /\ Goes(t, [c EXCEPT !.ready = TRUE]) /\ UNCHANGED dropped
     \/ /\ c.fd = 0 \/ (input = 0 /\ device = "open")
        /\ TimeOver(t)
     \/ (c.fd = 0 \/ device = "closed") /\ Fails(t)
  /\ UNCHANGED <<input, crossed, threshold, timeout>> /\ Same

Takes(t, n) ==
  LET c == call[t] IN
  /\ n <= c.left /\ n <= input
  /\ input' = input - n
  /\ crossed' = (crossed \/ \E u \in App \ {t} : Reading(u))
  /\ IF c.bytes + n < c.want
     THEN Goes(t, [c EXCEPT !.bytes = @ + n, !.left = @ - n, !.ready = FALSE])
     ELSE Ends(t)
  /\ UNCHANGED dropped

\* read(2) of a descriptor opened with O_NONBLOCK
read_byte_array(t) ==
  LET c == call[t] IN
  /\ Reading(t) /\ (c.timed => c.ready)
  /\ \/ c.fd = 1 /\ device = "open" /\ \E n \in 1 .. MaxInput : Takes(t, n)
     \/ /\ c.fd = 0 \/ device # "open" \/ input = 0
        /\ Fails(t)
        /\ UNCHANGED <<input, crossed>>
     \/ /\ c.fd = 0 \/ device = "failed"
        /\ Ends(t)    \* end of file
        /\ UNCHANGED <<input, crossed, dropped>>
  /\ UNCHANGED <<threshold, timeout>> /\ Same

\* Windows: until all is written or WriteFile has failed too often; else once
WriteStep(t) ==
  LET c == call[t]  works == c.fd = 1 /\ device = "open" IN
  /\ c.op = "writeArray" /\ c.native
  /\ \/ \E n \in 1 .. c.left :
          /\ works \/ (c.fd = 0 /\ ~win)
          /\ IF win /\ n < c.left
             THEN Goes(t, [c EXCEPT !.left = @ - n, !.errors = 0])
             ELSE Ends(t)
     \/ /\ win
        /\ IF c.errors < Tries
           THEN Goes(t, [c EXCEPT !.errors = @ + 1])
           ELSE Ends(t)
     \/ ~win /\ Ends(t)
  /\ UNCHANGED <<input, dropped, crossed, threshold, timeout>> /\ Same

\* FIONREAD: a number of bytes or an exception, and nothing changes
nativeavailable(t) ==
  /\ call[t].op = "available" /\ call[t].native
  /\ Ends(t)
  /\ UNCHANGED <<input, dropped, crossed, threshold, timeout>> /\ Same

enableReceiveThreshold(t, n) ==
  /\ call[t].op = "none" /\ lock # t
  /\ threshold' = n
  /\ UNCHANGED <<call, input, dropped, crossed, timeout>> /\ Same
enableReceiveTimeout(t, on) ==
  /\ call[t].op = "none" /\ lock # t
  /\ timeout' = on
  /\ UNCHANGED <<call, input, dropped, crossed, threshold>> /\ Same

Device ==
  /\ \/ input < MaxInput /\ device = "open" /\ input' = input + 1 /\ UNCHANGED device
     \/ device = "open" /\ device' = "failed" /\ UNCHANGED input
  /\ UNCHANGED <<fd, lock, closing, listener, monThread, notify, loops, call, dropped, crossed,
                 threshold, timeout, again>>

-----------------------------------------------------------------------------
Calls ==
  \/ \E t \in Agent :
       \/ \E m \in Mon : addEventListener(t, m)
       \/ removeEventListener(t) \/ close(t)
       \/ \E on \in BOOLEAN : notifyOnError(t, on)
  \/ \E t \in App :
       \/ \E n \in Lengths, op \in Ops \ {"none"} : Begin(t, op, n)
       \/ \E n \in Lengths : enableReceiveThreshold(t, n)
       \/ \E on \in BOOLEAN : enableReceiveTimeout(t, on)

CallSteps(t) == Native(t) \/ SelectRead(t) \/ read_byte_array(t) \/ WriteStep(t) \/ nativeavailable(t)

Next ==
  \/ calls < MaxCalls /\ Calls /\ calls' = calls + 1 /\ UNCHANGED win
  \/ \E t \in App : finalize(t)
  \/ /\ \/ \E t \in Agent : CloseDone(t)
        \/ \E t \in App : CallSteps(t)
        \/ \E m \in Mon : EventLoop(m)
        \/ Device
     /\ UNCHANGED <<win, calls>>

Spec == Init /\ [][Next]_vars

\* The threads run on; the listener returns
FairSpec ==
  /\ Spec
  /\ \A m \in Mon : WF_vars(EventLoop(m) /\ UNCHANGED <<win, calls>>)
  /\ \A t \in Agent : WF_vars(CloseDone(t) /\ UNCHANGED <<win, calls>>)

-----------------------------------------------------------------------------
(* Bytes taken from the device are not dropped by a read that fails later, *)
(* unless the device went away or another read took bytes at the same time *)
(* (between its select and its read, which then finds none).               *)
KeepsBytes == dropped > 0 => crossed \/ device # "open"

(* The device's descriptor is given to close(2) once, although nativeClose   *)
(* leaves fd as it is: another thread, the listener or the finalizer gets   *)
(* to its test only when close has put 0 there.                             *)
ClosesOnce == ~again

(* removeEventListener and close end with no event on its way to the       *)
(* listener, except one that the listener itself is called with.           *)
QuietAfterRemove ==
  [][listener /\ ~listener' => \A m \in Mon : loop[m] = "callback" => lock = m]_vars

(* An event loop whose port has no listener any more ends, although it     *)
(* asks for the thread it is only through the port, unless a new listener  *)
(* comes first (whose thread it then takes for itself, and goes on).       *)
LoopEnds ==
  \A m \in Mon : Alive(m) /\ monThread = None ~> ~Alive(m) \/ monThread # None
==============================================================================
