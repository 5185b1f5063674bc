----------------------------- MODULE SerialPort -----------------------------
(***************************************************************************)
(* One open RXTXPort: its Java fields, the threads of the application that *)
(* call it, its monitor threads with their native event loops, and the     *)
(* device.  RXTXPort.java synchronizes almost none of this: the fields are *)
(* plain booleans and counters that every thread reads and writes, so each *)
(* method is split here at its accesses to them.                           *)
(*                                                                         *)
(* The native half is the build with TIOCSERGETLSR (Linux): there is no    *)
(* drain thread and interruptEventLoop sets closing itself.  Data arriving *)
(* is the one serial event.                                                *)
(***************************************************************************)
EXTENDS Integers, Sequences, FiniteSets

CONSTANTS App,           \* application threads
          Mon,           \* MonitorThread objects that can be created
          None,          \* a null reference
          Creator,       \* the application thread that constructs the port
          Can,           \* the methods each thread calls (a monitor: from serialEvent)
          MaxCalls,      \* bound on the calls a thread makes, for each
          MaxInput,      \* bound on the bytes waiting in the device
          SlowListener,  \* serialEvent may run for longer than the join(3000)
          ReceiveTimeout \* a read without data ends (enableReceiveTimeout)

Agent == App \cup Mon

Op == {"add", "remove", "notifyOn", "notifyOff", "close",
       "read", "available", "write", "writeArray"}

Notify == {"notifyOn", "notifyOff"}
Input == {"read", "available"}        \* SerialInputStream: synchronized on the stream
Io == Input \cup {"write", "writeArray"}

ASSUME ThreadAssumption ==
  /\ Creator \in App
  /\ App \cap Mon = {}
  /\ None \notin Mon
  /\ Can \in [Agent -> SUBSET Op]

ASSUME BoundAssumption ==
  /\ MaxCalls \in [Agent -> Nat]
  /\ MaxInput \in Nat
  /\ SlowListener \in BOOLEAN
  /\ ReceiveTimeout \in BOOLEAN

VARIABLES port,      \* the fields of the RXTXPort object
          device,    \* whether the device's file descriptor is open
          input,     \* bytes waiting in the device
          index,     \* master_index: the event_info_structs of the process, in order
          eis,       \* the event_info_struct of each monitor thread
          loop,      \* where each monitor thread is in run(), eventLoop or sendEvent
          Data,      \* MonitorThread.Data of each
          pc, op,    \* where each thread is in a method, and in which
          reg,       \* the value of IOLocked a thread has loaded
          ref,       \* the monitor thread it joins, or whose eis it reads through
          saved,     \* the event flag read_byte_array has put aside
          calls,     \* how many calls each thread has made
          lost,      \* history: a store of IOLocked has undone another thread's
          hidden,    \* history: interruptEventLoop has found an older structure first
          undone     \* history: structures where a read has undone a notifyOn

portVars == <<port, device, input>>
loopVars == <<index, eis, loop, Data>>
callVars == <<op, calls>>
localVars == <<reg, ref, saved>>
ghosts == <<lost, hidden, undone>>
vars == <<portVars, loopVars, pc, callVars, ghosts, localVars>>

AddLoc == {"addCheck", "addSet", "addAlive", "startMonitor", "startWait"}
RemoveLoc == {"removeWait", "removeCheck", "removeInterrupt", "interruptLoop",
              "join", "joining", "removeReset"}
NotifyLoc == {"notifyWait", "notifyLock", "notifySet", "notifyJava"}
CloseLoc == {"closeWait", "closeFd", "closeInterrupted", "nativeClose", "closeReset"}
IoLoc == {"ioCheck", "incLoad", "incStore", "ioWait", "ioNative", "readWait",
          "decLoad", "decStore"}

\* Where a thread may stay for longer than a join waits.
Waiting == {"startWait", "removeWait", "interruptLoop", "joining", "notifyWait",
            "closeWait", "ioCheck", "ioWait", "readWait"}

LoopLoc == {"new", "run", "initEis", "initThreads", "unlockMonitor", "poll",
            "send", "sendFlag", "sendCall", "callback", "dead"}

PortType ==
  [fd : 0 .. 1,                         \* 1 stands for the descriptor of the device
   IOLocked : Int,
   MonitorThreadLock : BOOLEAN,
   MonitorThreadAlive : BOOLEAN,
   monThreadisInterrupted : BOOLEAN,
   SPEventListener : BOOLEAN,           \* set or null
   monThread : Mon \cup {None},
   closeLock : BOOLEAN,
   eis : Mon \cup {None}]               \* the native pointer kept in a long

EisType == [fd : 0 .. 1, closing : BOOLEAN, flag : BOOLEAN]

TypeOK ==
  /\ port \in PortType
  /\ device \in {"open", "closed"}
  /\ input \in 0 .. MaxInput
  /\ index \in Seq(Mon)
  /\ eis \in [Mon -> EisType]
  /\ loop \in [Mon -> LoopLoc]
  /\ Data \in [Mon -> BOOLEAN]
  /\ pc \in [Agent -> {"idle", "unborn"} \cup AddLoc \cup RemoveLoc \cup NotifyLoc
                        \cup CloseLoc \cup IoLoc]
  /\ op \in [Agent -> Op \cup {"none", "open"}]
  /\ reg \in [Agent -> Int]
  /\ ref \in [Agent -> Mon \cup {None}]
  /\ saved \in [Agent -> BOOLEAN]
  /\ calls \in [Agent -> Nat]
  /\ lost \in BOOLEAN /\ hidden \in BOOLEAN /\ undone \subseteq Mon

\* The constructor has opened the device; the other threads cannot have the port yet.
Init ==
  /\ port = [fd |-> 1, IOLocked |-> 0, MonitorThreadLock |-> TRUE,
             MonitorThreadAlive |-> FALSE, monThreadisInterrupted |-> TRUE,
             SPEventListener |-> FALSE, monThread |-> None, closeLock |-> FALSE,
             eis |-> None]
  /\ device = "open"
  /\ input = 0
  /\ index = <<>>
  /\ eis = [m \in Mon |-> [fd |-> 0, closing |-> FALSE, flag |-> FALSE]]
  /\ loop = [m \in Mon |-> "new"]
  /\ Data = [m \in Mon |-> FALSE]
  /\ pc = [a \in Agent |-> IF a = Creator THEN "startMonitor"
                           ELSE IF a \in App THEN "unborn" ELSE "idle"]
  /\ op = [a \in Agent |-> IF a = Creator THEN "open" ELSE "none"]
  /\ reg = [a \in Agent |-> 0]
  /\ ref = [a \in Agent |-> None]
  /\ saved = [a \in Agent |-> FALSE]
  /\ calls = [a \in Agent |-> 0]
  /\ lost = FALSE /\ hidden = FALSE /\ undone = {}

Goto(a, l) == pc' = [pc EXCEPT ![a] = l]
Monitor(m, l) == loop' = [loop EXCEPT ![m] = l]

\* Thread.isAlive()
IsAlive(m) == loop[m] \notin {"new", "dead"}

\* The walk along master_index for a file descriptor, as nativeSetEventFlag and
\* interruptEventLoop make it: the first structure that has it, as a set.
WithFd(f) ==
  {index[i] : i \in {j \in 1 .. Len(index) :
     eis[index[j]].fd = f /\ \A k \in 1 .. j - 1 : eis[index[k]].fd # f}}

-----------------------------------------------------------------------------
(* Calls.                                                                  *)

Entry(o) ==
  CASE o = "add"       -> "addCheck"
    [] o = "remove"    -> "removeWait"
    [] o \in Notify    -> "notifyWait"
    [] o = "close"     -> "closeWait"
    [] o \in Io        -> "ioCheck"

\* An application thread, or a listener called back by a monitor thread, calls o.
Call(a, o) ==
  /\ pc[a] = "idle"
  /\ a \in Mon => loop[a] = "callback"
  /\ o \in Can[a]
  /\ calls[a] < MaxCalls[a]
  /\ calls' = [calls EXCEPT ![a] = @ + 1]
  /\ op' = [op EXCEPT ![a] = o]
  /\ Goto(a, Entry(o))
  /\ UNCHANGED <<portVars, loopVars, ghosts, localVars>>

-----------------------------------------------------------------------------
(* RXTXPort(String) after open(), and addEventListener.                    *)

\* The test that throws TooManyListenersException.
AddCheck(a) ==
  /\ pc[a] = "addCheck"
  /\ Goto(a, IF port.SPEventListener THEN "idle" ELSE "addSet")
  /\ UNCHANGED <<portVars, loopVars, callVars, ghosts, localVars>>

AddSet(a) ==
  /\ pc[a] = "addSet"
  /\ port' = [port EXCEPT !.SPEventListener = TRUE]
  /\ Goto(a, "addAlive")
  /\ UNCHANGED <<device, input, loopVars, callVars, ghosts, localVars>>

\* Mutant: a new monitor thread for every listener.
AddAliveIgnored(a) ==
  /\ pc[a] = "addAlive"
  /\ Goto(a, "startMonitor")
  /\ UNCHANGED <<portVars, loopVars, callVars, ghosts, localVars>>

AddAlive(a) ==
  /\ pc[a] = "addAlive"
  /\ Goto(a, IF port.MonitorThreadAlive THEN "idle" ELSE "startMonitor")
  /\ UNCHANGED <<portVars, loopVars, callVars, ghosts, localVars>>

\* MonitorThreadLock = true; monThread = new MonitorThread(); monThread.start().
StartMonitor(a) ==
  /\ pc[a] = "startMonitor"
  /\ \E m \in Mon :
       /\ loop[m] = "new"
       /\ port' = [port EXCEPT !.MonitorThreadLock = TRUE, !.monThread = m]
       /\ Monitor(m, "run")
  /\ Goto(a, "startWait")
  /\ UNCHANGED <<device, input, index, eis, Data, callVars, ghosts, localVars>>

\* waitForTheNativeCodeSilly(); MonitorThreadAlive = true.  The constructor then
\* returns and the other threads of the application get the port.
StartWait(a) ==
  /\ pc[a] = "startWait"
  /\ ~port.MonitorThreadLock
  /\ port' = [port EXCEPT !.MonitorThreadAlive = TRUE]
  /\ pc' = [b \in Agent |-> IF b = a \/ pc[b] = "unborn" THEN "idle" ELSE pc[b]]
  /\ UNCHANGED <<device, input, loopVars, callVars, ghosts, localVars>>

Add(a) == AddCheck(a) \/ AddSet(a) \/ AddAlive(a) \/ StartMonitor(a) \/ StartWait(a)

-----------------------------------------------------------------------------
(* removeEventListener, called by the application or by close.             *)

\* Where removeEventListener returns to.
Return(a) == Goto(a, IF op[a] = "close" THEN "nativeClose" ELSE "idle")

RemoveWait(a) ==
  /\ pc[a] = "removeWait"
  /\ ~port.MonitorThreadLock
  /\ Goto(a, "removeCheck")
  /\ UNCHANGED <<portVars, loopVars, callVars, ghosts, localVars>>

\* Already interrupted; a living monitor thread to stop; or nothing to stop.
RemoveCheck(a) ==
  /\ pc[a] = "removeCheck"
  /\ \/ /\ port.monThreadisInterrupted
        /\ port' = [port EXCEPT !.monThread = None, !.SPEventListener = FALSE]
        /\ Return(a)
     \/ /\ ~port.monThreadisInterrupted
        /\ Goto(a, IF port.monThread # None /\ IsAlive(port.monThread)
                   THEN "removeInterrupt" ELSE "removeReset")
        /\ UNCHANGED port
  /\ UNCHANGED <<device, input, loopVars, callVars, ghosts, localVars>>

RemoveInterrupt(a) ==
  /\ pc[a] = "removeInterrupt"
  /\ port' = [port EXCEPT !.monThreadisInterrupted = TRUE]
  /\ Goto(a, "interruptLoop")
  /\ UNCHANGED <<device, input, loopVars, callVars, ghosts, localVars>>

\* interruptEventLoop searches until an event_info_struct has the port's descriptor: that
\* of a thread told before, as long as it is in the list.
InterruptEventLoop(a) ==
  /\ pc[a] = "interruptLoop"
  /\ \E m \in WithFd(port.fd) :
       /\ eis' = [eis EXCEPT ![m].closing = TRUE]
       /\ hidden' = (hidden \/ (m # port.monThread /\ eis[m].closing))
  /\ Goto(a, "join")
  /\ UNCHANGED <<portVars, index, loop, Data, callVars, lost, undone, localVars>>

\* monThread.join(3000): throws when another thread has cleared monThread.
Join(a) ==
  /\ pc[a] = "join"
  /\ ref' = [ref EXCEPT ![a] = port.monThread]
  /\ Goto(a, IF port.monThread = None THEN "idle" ELSE "joining")
  /\ UNCHANGED <<portVars, loopVars, callVars, ghosts, reg, saved>>

\* Mutant: the result of the wait is not waited for.
JoinedAtOnce(a) ==
  /\ pc[a] = "joining"
  /\ Goto(a, "removeReset")
  /\ UNCHANGED <<portVars, loopVars, callVars, ghosts, localVars>>

\* Mutant: join() without a time limit.
JoinedWithoutTimeout(a) ==
  /\ pc[a] = "joining"
  /\ ~IsAlive(ref[a])
  /\ Goto(a, "removeReset")
  /\ UNCHANGED <<portVars, loopVars, callVars, ghosts, localVars>>

\* The join ends with the thread, or after 3 s: when the thread has not been told to
\* end, when its listener waits in a call (such as this one), or takes that long.
Joined(a) ==
  /\ pc[a] = "joining"
  /\ \/ ~IsAlive(ref[a])
     \/ ~eis[ref[a]].closing
     \/ loop[ref[a]] = "callback" /\ (SlowListener \/ pc[ref[a]] \in Waiting)
  /\ Goto(a, "removeReset")
  /\ UNCHANGED <<portVars, loopVars, callVars, ghosts, localVars>>

RemoveReset(a) ==
  /\ pc[a] = "removeReset"
  /\ port' = [port EXCEPT !.monThread = None, !.SPEventListener = FALSE,
                          !.MonitorThreadLock = FALSE, !.MonitorThreadAlive = FALSE,
                          !.monThreadisInterrupted = TRUE]
  /\ Return(a)
  /\ UNCHANGED <<device, input, loopVars, callVars, ghosts, localVars>>

Remove(a) ==
  \/ RemoveWait(a) \/ RemoveCheck(a) \/ RemoveInterrupt(a) \/ InterruptEventLoop(a)
  \/ Join(a) \/ Joined(a) \/ RemoveReset(a)

-----------------------------------------------------------------------------
(* notifyOnDataAvailable.                                                  *)

NotifyWait(a) ==
  /\ pc[a] = "notifyWait"
  /\ ~port.MonitorThreadLock
  /\ Goto(a, "notifyLock")
  /\ UNCHANGED <<portVars, loopVars, callVars, ghosts, localVars>>

NotifyLock(a) ==
  /\ pc[a] = "notifyLock"
  /\ port' = [port EXCEPT !.MonitorThreadLock = TRUE]
  /\ Goto(a, "notifySet")
  /\ UNCHANGED <<device, input, loopVars, callVars, ghosts, localVars>>

\* nativeSetEventFlag: nothing when no structure has the descriptor.
NativeSetEventFlag(a) ==
  /\ pc[a] = "notifySet"
  /\ \/ WithFd(port.fd) = {} /\ UNCHANGED <<eis, undone>>
     \/ \E m \in WithFd(port.fd) :
          /\ eis' = [eis EXCEPT ![m].flag = (op[a] = "notifyOn")]
          /\ undone' = undone \ {m}
  /\ Goto(a, "notifyJava")
  /\ UNCHANGED <<portVars, index, loop, Data, callVars, lost, hidden, localVars>>

\* Mutant: MonitorThreadLock is not given back.
NotifyJavaKeepsLock(a) ==
  /\ pc[a] = "notifyJava"
  /\ Data' = IF port.monThread = None THEN Data
             ELSE [Data EXCEPT ![port.monThread] = (op[a] = "notifyOn")]
  /\ Goto(a, "idle")
  /\ UNCHANGED <<portVars, index, eis, loop, callVars, ghosts, localVars>>

\* monThread.Data = enable; MonitorThreadLock = false.  A null monThread throws
\* before the lock is given back.
NotifyJava(a) ==
  /\ pc[a] = "notifyJava"
  /\ \/ /\ port.monThread = None
        /\ UNCHANGED <<port, Data>>
     \/ /\ port.monThread # None
        /\ Data' = [Data EXCEPT ![port.monThread] = (op[a] = "notifyOn")]
        /\ port' = [port EXCEPT !.MonitorThreadLock = FALSE]
  /\ Goto(a, "idle")
  /\ UNCHANGED <<device, input, index, eis, loop, callVars, ghosts, localVars>>

NotifyOnDataAvailable(a) ==
  NotifyWait(a) \/ NotifyLock(a) \/ NativeSetEventFlag(a) \/ NotifyJava(a)

-----------------------------------------------------------------------------
(* close.                                                                  *)

\* Mutant: two threads may close at the same time.
CloseWaitWithoutLock(a) ==
  /\ pc[a] = "closeWait"
  /\ port.IOLocked <= 0
  /\ port' = [port EXCEPT !.closeLock = TRUE]
  /\ Goto(a, "closeFd")
  /\ UNCHANGED <<device, input, loopVars, callVars, ghosts, localVars>>

\* Mutant: a close that does not wait.
CloseWaitSkipped(a) ==
  /\ pc[a] = "closeWait"
  /\ port' = [port EXCEPT !.closeLock = TRUE]
  /\ Goto(a, IF port.closeLock THEN "idle" ELSE "closeFd")
  /\ UNCHANGED <<device, input, loopVars, callVars, ghosts, localVars>>

\* The synchronized block: wait until nothing is in progress, then one thread goes on.
CloseWait(a) ==
  /\ pc[a] = "closeWait"
  /\ port.IOLocked <= 0
  /\ port' = [port EXCEPT !.closeLock = TRUE]
  /\ Goto(a, IF port.closeLock THEN "idle" ELSE "closeFd")
  /\ UNCHANGED <<device, input, loopVars, callVars, ghosts, localVars>>

\* A port that is closed already: returns, and closeLock stays set.
CloseFd(a) ==
  /\ pc[a] = "closeFd"
  /\ Goto(a, IF port.fd <= 0 THEN "idle" ELSE "closeInterrupted")
  /\ UNCHANGED <<portVars, loopVars, callVars, ghosts, localVars>>

CloseInterrupted(a) ==
  /\ pc[a] = "closeInterrupted"
  /\ Goto(a, IF port.monThreadisInterrupted THEN "nativeClose" ELSE "removeWait")
  /\ UNCHANGED <<portVars, loopVars, callVars, ghosts, localVars>>

\* Discards what is in the device, closes it and takes the lock file away.
NativeClose(a) ==
  /\ pc[a] = "nativeClose"
  /\ device' = IF port.fd > 0 THEN "closed" ELSE device
  /\ input' = IF port.fd > 0 THEN 0 ELSE input
  /\ Goto(a, "closeReset")
  /\ UNCHANGED <<port, loopVars, callVars, ghosts, localVars>>

CloseReset(a) ==
  /\ pc[a] = "closeReset"
  /\ port' = [port EXCEPT !.fd = 0, !.closeLock = FALSE]
  /\ Goto(a, "idle")
  /\ UNCHANGED <<device, input, loopVars, callVars, ghosts, localVars>>

Close(a) ==
  CloseWait(a) \/ CloseFd(a) \/ CloseInterrupted(a) \/ NativeClose(a) \/ CloseReset(a)

-----------------------------------------------------------------------------
(* write(int), write(byte[]), read() and available().                      *)

\* The methods of the input stream exclude each other, waits included.
StreamFree(a) ==
  op[a] \in Input => \A b \in Agent \ {a} : op[b] \in Input => pc[b] \in {"idle", "ioCheck"}

\* Writes and available() do nothing when the monitor thread is interrupted; write(byte[])
\* and read() throw when the port is closed; read() goes on when interrupted.
IoCheck(a) ==
  /\ pc[a] = "ioCheck"
  /\ StreamFree(a)
  /\ Goto(a, IF \/ op[a] # "read" /\ port.monThreadisInterrupted
                \/ op[a] \in {"read", "writeArray"} /\ port.fd = 0
             THEN "idle" ELSE "incLoad")
  /\ UNCHANGED <<portVars, loopVars, callVars, ghosts, localVars>>

\* IOLocked++ and IOLocked-- are a load and a store.
LoadIOLocked(a) ==
  /\ \/ pc[a] = "incLoad" /\ Goto(a, "incStore")
     \/ pc[a] = "decLoad" /\ Goto(a, "decStore")
  /\ reg' = [reg EXCEPT ![a] = port.IOLocked]
  /\ UNCHANGED <<portVars, loopVars, callVars, ghosts, ref, saved>>

StoreIOLocked(a) ==
  /\ \/ /\ pc[a] = "incStore"
        /\ port' = [port EXCEPT !.IOLocked = reg[a] + 1]
        /\ Goto(a, IF op[a] = "available" THEN "ioNative" ELSE "ioWait")
     \/ /\ pc[a] = "decStore"
        /\ port' = [port EXCEPT !.IOLocked = reg[a] - 1]
        /\ Goto(a, "idle")
  /\ lost' = (lost \/ reg[a] # port.IOLocked)
  /\ UNCHANGED <<device, input, loopVars, callVars, hidden, undone, localVars>>

\* Mutant: the exception leaves IOLocked as it is.
IoWaitThrows(a) ==
  /\ pc[a] = "ioWait"
  /\ ~port.MonitorThreadLock
  /\ Goto(a, IF op[a] = "write" /\ port.fd = 0 THEN "idle" ELSE "ioNative")
  /\ UNCHANGED <<portVars, loopVars, callVars, ghosts, localVars>>

\* waitForTheNativeCodeSilly(); write(int) then throws when the port is closed.
IoWait(a) ==
  /\ pc[a] = "ioWait"
  /\ ~port.MonitorThreadLock
  /\ Goto(a, IF op[a] = "write" /\ port.fd = 0 THEN "decLoad" ELSE "ioNative")
  /\ UNCHANGED <<portVars, loopVars, callVars, ghosts, localVars>>

\* writeByte, writeArray and nativeavailable: one access to the descriptor.
NativeAccess(a) ==
  /\ pc[a] = "ioNative"
  /\ op[a] # "read"
  /\ Goto(a, "decLoad")
  /\ UNCHANGED <<portVars, loopVars, callVars, ghosts, localVars>>

\* read_byte_array, to its first select: finds the structure through the field eis of
\* the port and puts its DATA_AVAILABLE flag aside.
ReadBegin(a) ==
  /\ pc[a] = "ioNative"
  /\ op[a] = "read"
  /\ port.eis # None
  /\ ref' = [ref EXCEPT ![a] = port.eis]
  /\ saved' = [saved EXCEPT ![a] = eis[port.eis].flag]
  /\ eis' = [eis EXCEPT ![port.eis].flag = FALSE]
  /\ Goto(a, "readWait")
  /\ UNCHANGED <<portVars, index, loop, Data, callVars, ghosts, reg>>

\* Mutant: a return that does not put the flag back.
ReadEndKeepsFlagDown(a) ==
  /\ pc[a] = "readWait"
  /\ input > 0 \/ ReceiveTimeout
  /\ input' = IF input > 0 THEN input - 1 ELSE input
  /\ Goto(a, "decLoad")
  /\ UNCHANGED <<port, device, loopVars, callVars, ghosts, localVars>>

\* A byte, a timeout or an error ends the read, and the flag is put back, whatever
\* nativeSetEventFlag has made of it meanwhile.
ReadEnd(a) ==
  /\ pc[a] = "readWait"
  /\ input > 0 \/ ReceiveTimeout
  /\ input' = IF input > 0 THEN input - 1 ELSE input
  /\ eis' = [eis EXCEPT ![ref[a]].flag = saved[a]]
  /\ undone' = IF eis[ref[a]].flag /\ ~saved[a] THEN undone \cup {ref[a]} ELSE undone
  /\ Goto(a, "decLoad")
  /\ UNCHANGED <<port, device, index, loop, Data, callVars, lost, hidden, localVars>>

InputOutput(a) ==
  \/ IoCheck(a) \/ LoadIOLocked(a) \/ StoreIOLocked(a) \/ IoWait(a)
  \/ NativeAccess(a) \/ ReadBegin(a) \/ ReadEnd(a)

-----------------------------------------------------------------------------
(* The monitor thread: MonitorThread.run, eventLoop, sendEvent.            *)

Run(m) ==
  /\ loop[m] = "run"
  /\ port' = [port EXCEPT !.monThreadisInterrupted = FALSE]
  /\ Monitor(m, "initEis")
  /\ UNCHANGED <<device, input, index, eis, Data>>

\* Mutant: the structure is not linked into the list.
InitEisUnlisted(m) ==
  /\ loop[m] = "initEis"
  /\ eis' = [eis EXCEPT ![m] = [fd |-> port.fd, closing |-> FALSE, flag |-> FALSE]]
  /\ Monitor(m, "initThreads")
  /\ UNCHANGED <<portVars, index, Data>>

\* initialise_event_info_struct: appends the structure to master_index.
InitEis(m) ==
  /\ loop[m] = "initEis"
  /\ index' = Append(index, m)
  /\ eis' = [eis EXCEPT ![m] = [fd |-> port.fd, closing |-> FALSE, flag |-> FALSE]]
  /\ Monitor(m, "initThreads")
  /\ UNCHANGED <<portVars, Data>>

\* init_threads: leaves the pointer to the structure in the port's field eis.
InitThreads(m) ==
  /\ loop[m] = "initThreads"
  /\ port' = [port EXCEPT !.eis = m]
  /\ Monitor(m, "unlockMonitor")
  /\ UNCHANGED <<device, input, index, eis, Data>>

UnlockMonitorThread(m) ==
  /\ loop[m] = "unlockMonitor"
  /\ port' = [port EXCEPT !.MonitorThreadLock = FALSE]
  /\ Monitor(m, "poll")
  /\ UNCHANGED <<device, input, index, eis, Data>>

\* An iteration that finds closing set: the structure leaves master_index and the
\* thread ends.
LoopExit(m) ==
  /\ loop[m] = "poll"
  /\ eis[m].closing
  /\ \E i \in 1 .. Len(index) :
       /\ index[i] = m
       /\ index' = SubSeq(index, 1, i - 1) \o SubSeq(index, i + 1, Len(index))
  /\ Monitor(m, "dead")
  /\ UNCHANGED <<portVars, eis, Data>>

\* An iteration whose FIONREAD finds data, with the event flag set.  Other iterations
\* of the polling loop change nothing.
ReportDataAvailable(m) ==
  /\ loop[m] = "poll"
  /\ ~eis[m].closing
  /\ eis[m].flag /\ eis[m].fd = 1 /\ device = "open" /\ input > 0
  /\ Monitor(m, "send")
  /\ UNCHANGED <<portVars, index, eis, Data>>

\* sendEvent: gone already?  The event loop does not use the result.
SendCheck(m) ==
  /\ loop[m] = "send"
  /\ Monitor(m, IF port.fd = 0 \/ ~port.SPEventListener \/ port.monThread = None
                THEN "poll" ELSE "sendFlag")
  /\ UNCHANGED <<portVars, index, eis, Data>>

\* if( monThread.Data ): throws, out of sendEvent, when monThread is null by now.
SendFlag(m) ==
  /\ loop[m] = "sendFlag"
  /\ Monitor(m, IF port.monThread # None /\ Data[port.monThread] THEN "sendCall" ELSE "poll")
  /\ UNCHANGED <<portVars, index, eis, Data>>

\* The last tests, and the call of serialEvent.
SendCall(m) ==
  /\ loop[m] = "sendCall"
  /\ Monitor(m, IF port.monThreadisInterrupted \/ ~port.SPEventListener
                THEN "poll" ELSE "callback")
  /\ UNCHANGED <<portVars, index, eis, Data>>

\* serialEvent returns.
CallbackReturn(m) ==
  /\ loop[m] = "callback"
  /\ pc[m] = "idle"
  /\ Monitor(m, "poll")
  /\ UNCHANGED <<portVars, index, eis, Data>>

EventLoop(m) ==
  /\ \/ Run(m) \/ InitEis(m) \/ InitThreads(m) \/ UnlockMonitorThread(m) \/ LoopExit(m)
     \/ ReportDataAvailable(m) \/ SendCheck(m) \/ SendFlag(m) \/ SendCall(m)
     \/ CallbackReturn(m)
  /\ UNCHANGED <<pc, callVars, ghosts, localVars>>

-----------------------------------------------------------------------------
\* A byte arrives from the line.
Arrive ==
  /\ device = "open"
  /\ input < MaxInput
  /\ input' = input + 1
  /\ UNCHANGED <<port, device, loopVars, pc, callVars, ghosts, localVars>>

\* What a thread does inside the method it is in.
Step(a) ==
  Add(a) \/ Remove(a) \/ NotifyOnDataAvailable(a) \/ Close(a) \/ InputOutput(a)

Next ==
  \/ \E a \in Agent : Step(a) \/ \E o \in Op : Call(a, o)
  \/ \E m \in Mon : EventLoop(m)
  \/ Arrive

Spec == Init /\ [][Next]_vars

\* Every thread goes on with the method it is in, and every monitor thread with its
\* loop (a listener returns); no thread has to call anything.  The waits are sleeps
\* of 5 ms and polls, which a condition that comes and goes may miss for ever: weak
\* fairness is all they justify.
Fairness ==
  /\ \A a \in Agent : WF_vars(Step(a))
  /\ \A m \in Mon : WF_vars(EventLoop(m))

FairSpec == Spec /\ Fairness

-----------------------------------------------------------------------------
(* Properties.                                                             *)

\* Inside a method between the increment of IOLocked and its decrement.
InIo(a) == pc[a] \in {"ioWait", "ioNative", "readWait", "decLoad", "decStore"}

\* Past the synchronized block of close, and not out of it.
InClose(a) ==
  op[a] = "close" /\ pc[a] \in (CloseLoc \cup RemoveLoc) \ {"closeWait"}

\* The descriptor is given to close(2) once: a second close of a number that may by
\* then be another file is what closeLock and fd = 0 are there to prevent, for any
\* threads calling close, the listener included.
NeverClosesTwice ==
  \A a \in Agent : pc[a] = "nativeClose" /\ port.fd > 0 => device = "open"

\* The uses of the port in which one thread adds, removes, notifies and closes.  Any other
\* may do I/O, the listener included, and a listener may outlast the join of its removal.
OneManager == \E a \in App : \A b \in Agent \ {a} : Can[b] \subseteq Io

\* The uses in which a monitor thread ends with its port only: nobody removes a listener, and
\* one thread adds them.  Any thread may close and notify, the listener included, and
\* listeners may be slow.
OneListener ==
  /\ \A a \in Agent : "remove" \notin Can[a]
  /\ \E a \in App : \A b \in Agent \ {a} : "add" \notin Can[b]

\* "dont close the file while accessing the fd", the half of it that IOLocked gives: a close
\* goes past its wait only when no call that has incremented IOLocked is still in progress,
\* in whatever order readers and writers begin and end, as long as no store of it has
\* undone another.
CloseWaitsForIo ==
  [][\A a \in Agent : pc[a] = "closeWait" /\ pc'[a] = "closeFd"
                      => lost \/ \A b \in Agent : ~InIo(b)]_vars

\* IOLocked counts the calls in progress, until a store of it has undone another.
CountsIo == lost \/ port.IOLocked = Cardinality({a \in Agent : InIo(a)})

\* A living monitor thread is the port's, or has been told to end, or a thread is in
\* removeEventListener on the way to tell it: none goes on unknown to the port, where no
\* close and no removeEventListener would ever stop it.  That holds when a serialEvent
\* outlasts the join of its removal, and when listeners are added then, up to a removal
\* that tells the older thread in the newer one's place.
NoOrphanLoop ==
  ~hidden =>
    \A m \in Mon :
      IsAlive(m) /\ port.monThread # m
        => \/ eis[m].closing
           \/ \E a \in Agent : pc[a] \in {"removeInterrupt", "interruptLoop"}

\* A loop that was told to end calls serialEvent no more, nor does one that is not the
\* port's: not even where the join of removeEventListener has given up on it and another
\* listener was added since.
QuietAfterRemove ==
  [][\A m \in Mon : loop[m] = "sendCall" /\ loop'[m] = "callback"
                     => hidden \/ (port.monThread = m /\ ~eis[m].closing)]_vars

\* MonitorThreadLock is taken and there is no monitor thread: notifyOnDataAvailable throws
\* without giving it back, and whatever waits for it waits on.
LockLost == port.MonitorThreadLock /\ port.monThread = None

\* A thread that has called close gets out of it, unless the lock is lost, where a read in
\* progress, which close waits for, does not end.
CloseReturns == \A a \in Agent : pc[a] = "closeWait" ~> (pc[a] = "idle" \/ LockLost)

\* A thread that has called removeEventListener gets out of it, unless the lock is lost.
RemoveReturns == \A a \in Agent : pc[a] = "removeWait" ~> (pc[a] \notin RemoveLoc \/ LockLost)

\* waitForTheNativeCodeSilly "in worst case test cases ... loops once or twice every
\* time": what it waits for happens, unless the listener was removed meanwhile, where
\* notifyOnDataAvailable throws with the lock taken.
MonitorLockReleased ==
  port.MonitorThreadLock ~> (~port.MonitorThreadLock \/ LockLost)

\* Data in the device reaches the listener, for as long as it is there, listened for
\* and notified, however reads put the flag aside and back; but not where a read that
\* began before notifyOnDataAvailable(true) ends after it and puts the flag down.
Awaited(m) ==
  /\ m \notin undone
  /\ input > 0 /\ port.fd = 1 /\ device = "open"
  /\ port.monThread = m /\ Data[m] /\ port.SPEventListener
  /\ ~port.monThreadisInterrupted

DataDelivered == \A m \in Mon : Awaited(m) ~> (loop[m] = "callback" \/ ~Awaited(m))
=============================================================================
