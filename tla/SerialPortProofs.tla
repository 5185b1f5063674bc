-------------------------- MODULE SerialPortProofs --------------------------
(***************************************************************************)
(* Properties of SerialPort proved for any application threads, monitor    *)
(* threads, methods called and bounds.                                     *)
(***************************************************************************)
EXTENDS SerialPort, FiniteSetTheorems, SequenceTheorems, TLAPS

Location == {"idle", "unborn"} \cup AddLoc \cup RemoveLoc \cup NotifyLoc \cup CloseLoc
              \cup IoLoc

\* Updating one field of a structure keeps its type.
LEMMA EisUpdate ==
  ASSUME TypeOK, NEW m, NEW b \in BOOLEAN
  PROVE  /\ [eis EXCEPT ![m].flag = b] \in [Mon -> EisType]
         /\ [eis EXCEPT ![m].closing = b] \in [Mon -> EisType]
<1>1. CASE m \in Mon
  <2>1. [eis[m] EXCEPT !.flag = b] \in EisType /\ [eis[m] EXCEPT !.closing = b] \in EisType
    <3>1. eis[m] \in EisType
      BY <1>1 DEF TypeOK
    <3>2. QED
      BY <3>1 DEF EisType
  <2>2. QED
    BY <1>1, <2>1 DEF TypeOK
<1>2. CASE m \notin Mon
  <2>1. /\ [eis EXCEPT ![m].flag = b] = eis
        /\ [eis EXCEPT ![m].closing = b] = eis
    BY <1>2 DEF TypeOK
  <2>2. QED
    BY <2>1 DEF TypeOK
<1>3. QED
  BY <1>1, <1>2

\* So does updating the fields of the port that hold numbers.
LEMMA PortUpdate ==
  ASSUME port \in PortType, NEW i \in Int
  PROVE  [port EXCEPT !.IOLocked = i] \in PortType
  BY DEF PortType

LEMMA PortClosed ==
  ASSUME port \in PortType
  PROVE  [port EXCEPT !.fd = 0, !.closeLock = FALSE] \in PortType
<1>1. [port EXCEPT !.fd = 0] \in PortType
  BY DEF PortType
<1>2. \A p \in PortType : [p EXCEPT !.closeLock = FALSE] \in PortType
  BY DEF PortType
<1>3. QED
  BY <1>1, <1>2

LEMMA TypeInit == Init => TypeOK
<1> SUFFICES ASSUME Init PROVE TypeOK
  OBVIOUS
<1> USE ThreadAssumption, BoundAssumption DEF Init
<1>1. port \in PortType
  BY DEF PortType
<1>2. device \in {"open", "closed"} /\ input \in 0 .. MaxInput /\ index \in Seq(Mon)
  OBVIOUS
<1>3. eis \in [Mon -> EisType]
  BY DEF EisType
<1>4. loop \in [Mon -> LoopLoc] /\ Data \in [Mon -> BOOLEAN]
  BY DEF LoopLoc
<1>5. pc \in [Agent -> Location]
  BY DEF Location, AddLoc
<1>6. /\ op \in [Agent -> Op \cup {"none", "open"}] /\ reg \in [Agent -> Int]
      /\ ref \in [Agent -> Mon \cup {None}] /\ saved \in [Agent -> BOOLEAN]
      /\ calls \in [Agent -> Nat]
  OBVIOUS
<1>7. QED
  BY <1>1, <1>2, <1>3, <1>4, <1>5, <1>6 DEF TypeOK, Location

LEMMA AddType ==
  ASSUME TypeOK, NEW a \in Agent, Add(a)
  PROVE  TypeOK'
<1> USE DEF TypeOK, PortType, AddLoc, LoopLoc, Goto, Monitor,
            portVars, loopVars, callVars, ghosts, localVars
<1>1. CASE AddCheck(a)
  BY <1>1 DEF AddCheck
<1>2. CASE AddSet(a)
  BY <1>2 DEF AddSet
<1>3. CASE AddAlive(a)
  BY <1>3 DEF AddAlive
<1>4. CASE StartMonitor(a)
  <2>1. PICK m \in Mon : /\ loop' = [loop EXCEPT ![m] = "run"]
                         /\ port' = [port EXCEPT !.MonitorThreadLock = TRUE, !.monThread = m]
    BY <1>4 DEF StartMonitor
  <2>2. port' \in PortType
    BY <2>1
  <2>3. loop' \in [Mon -> LoopLoc]
    BY <2>1
  <2>4. pc' = [pc EXCEPT ![a] = "startWait"]
    BY <1>4 DEF StartMonitor
  <2>5. QED
    BY <1>4, <2>2, <2>3, <2>4 DEF StartMonitor
<1>5. CASE StartWait(a)
  BY <1>5 DEF StartWait
<1>6. QED
  BY <1>1, <1>2, <1>3, <1>4, <1>5 DEF Add

\* The steps of removeEventListener keep the types.
LEMMA RemoveType ==
  ASSUME TypeOK, NEW a \in Agent, Remove(a)
  PROVE  TypeOK'
<1> USE DEF TypeOK, PortType, EisType, RemoveLoc, CloseLoc, Return, Goto, Monitor,
            portVars, loopVars, callVars, ghosts, localVars
<1>1. CASE RemoveWait(a)
  BY <1>1 DEF RemoveWait
<1>2. CASE RemoveCheck(a)
  <2>1. /\ \/ port' = [port EXCEPT !.monThread = None, !.SPEventListener = FALSE]
           \/ port' = port
        /\ UNCHANGED <<device, input, loopVars, callVars, ghosts, localVars>>
    BY <1>2 DEF RemoveCheck
  <2>2. port' \in PortType
    BY <2>1
  <2>3. \/ pc' = [pc EXCEPT ![a] = "nativeClose"] \/ pc' = [pc EXCEPT ![a] = "idle"]
        \/ pc' = [pc EXCEPT ![a] = "removeInterrupt"]
        \/ pc' = [pc EXCEPT ![a] = "removeReset"]
    BY <1>2 DEF RemoveCheck
  <2>4. pc' \in [Agent -> Location]
    BY <2>3 DEF Location
  <2>5. QED
    BY <2>1, <2>2, <2>4 DEF Location
<1>3. CASE RemoveInterrupt(a)
  BY <1>3 DEF RemoveInterrupt
<1>4. CASE InterruptEventLoop(a)
  <2>1. \E m : eis' = [eis EXCEPT ![m].closing = TRUE]
    BY <1>4 DEF InterruptEventLoop
  <2>2. eis' \in [Mon -> EisType]
    <3>1. \A m : [eis EXCEPT ![m].closing = TRUE] \in [Mon -> EisType]
      BY EisUpdate
    <3> HIDE DEF EisType, TypeOK
    <3>2. QED
      BY <2>1, <3>1
  <2>3. QED
    BY <1>4, <2>2 DEF InterruptEventLoop
<1>5. CASE Join(a)
  BY <1>5 DEF Join
<1>6. CASE Joined(a)
  BY <1>6 DEF Joined
<1>7. CASE RemoveReset(a)
  BY <1>7 DEF RemoveReset
<1>8. QED
  BY <1>1, <1>2, <1>3, <1>4, <1>5, <1>6, <1>7 DEF Remove

\* nativeSetEventFlag keeps the type of the structures, whichever it finds.
LEMMA SetEventFlagType ==
  ASSUME TypeOK, NEW a \in Agent, NativeSetEventFlag(a)
  PROVE  eis' \in [Mon -> EisType]
<1> DEFINE on == op[a] = "notifyOn"
<1>1. eis' = eis \/ \E m : eis' = [eis EXCEPT ![m].flag = on]
  BY DEF NativeSetEventFlag
<1>2. on \in BOOLEAN
  OBVIOUS
<1> HIDE DEF on
<1>3. \A m : [eis EXCEPT ![m].flag = on] \in [Mon -> EisType]
  BY <1>2, EisUpdate
<1>4. eis \in [Mon -> EisType]
  BY DEF TypeOK
<1>5. QED
  BY <1>1, <1>3, <1>4

\* So do those of notifyOnDataAvailable.
LEMMA NotifyType ==
  ASSUME TypeOK, NEW a \in Agent, NotifyOnDataAvailable(a)
  PROVE  TypeOK'
<1> USE DEF TypeOK, PortType, EisType, NotifyLoc, Goto, Monitor,
            portVars, loopVars, callVars, ghosts, localVars
<1>1. CASE NotifyWait(a)
  BY <1>1 DEF NotifyWait
<1>2. CASE NotifyLock(a)
  BY <1>2 DEF NotifyLock
<1>3. CASE NativeSetEventFlag(a)
  <2>2. eis' \in [Mon -> EisType]
    BY <1>3, SetEventFlagType
  <2>3. QED
    BY <1>3, <2>2 DEF NativeSetEventFlag
<1>4. CASE NotifyJava(a)
  BY <1>4 DEF NotifyJava
<1>5. QED
  BY <1>1, <1>2, <1>3, <1>4 DEF NotifyOnDataAvailable

\* And those of close.
LEMMA CloseType ==
  ASSUME TypeOK, NEW a \in Agent, Close(a)
  PROVE  TypeOK'
<1> USE DEF TypeOK, PortType, EisType, CloseLoc, RemoveLoc, Goto, Monitor,
            portVars, loopVars, callVars, ghosts, localVars
<1>1. CASE CloseWait(a)
  BY <1>1 DEF CloseWait
<1>2. CASE CloseFd(a)
  BY <1>2 DEF CloseFd
<1>3. CASE CloseInterrupted(a)
  BY <1>3 DEF CloseInterrupted
<1>4. CASE NativeClose(a)
  BY <1>4, BoundAssumption DEF NativeClose
<1>5. CASE CloseReset(a)
  <2>1. port' \in PortType
    <3>1. port' = [port EXCEPT !.fd = 0, !.closeLock = FALSE] /\ port \in PortType
      BY <1>5 DEF CloseReset
    <3> HIDE DEF TypeOK, PortType
    <3>2. QED
      BY <3>1, PortClosed
  <2>2. QED
    BY <1>5, <2>1 DEF CloseReset
<1>6. QED
  BY <1>1, <1>2, <1>3, <1>4, <1>5 DEF Close

\* And those of the stream methods.
LEMMA IoType ==
  ASSUME TypeOK, NEW a \in Agent, InputOutput(a)
  PROVE  TypeOK'
<1> USE DEF TypeOK, PortType, EisType, IoLoc, Goto, Monitor,
            portVars, loopVars, callVars, ghosts, localVars
<1>1. CASE IoCheck(a)
  BY <1>1 DEF IoCheck
<1>2. CASE LoadIOLocked(a)
  <2>1. pc' \in [Agent -> {"idle", "unborn"} \cup AddLoc \cup RemoveLoc \cup NotifyLoc
                            \cup CloseLoc \cup IoLoc]
    <3>1. pc' = [pc EXCEPT ![a] = "incStore"] \/ pc' = [pc EXCEPT ![a] = "decStore"]
      BY <1>2 DEF LoadIOLocked
    <3>2. QED
      BY <3>1
  <2>2. reg' \in [Agent -> Int]
    BY <1>2 DEF LoadIOLocked
  <2>3. UNCHANGED <<portVars, loopVars, callVars, ghosts, ref, saved>>
    BY <1>2 DEF LoadIOLocked
  <2>4. QED
    BY <2>1, <2>2, <2>3
<1>3. CASE StoreIOLocked(a)
  <2>1. port' \in PortType
    <3>1. PICK i \in Int : port' = [port EXCEPT !.IOLocked = i]
      BY <1>3 DEF StoreIOLocked
    <3>2. QED
      BY <3>1, PortUpdate DEF TypeOK
  <2>2. pc' \in [Agent -> {"idle", "unborn"} \cup AddLoc \cup RemoveLoc \cup NotifyLoc
                            \cup CloseLoc \cup IoLoc]
    <3>1. \/ pc' = [pc EXCEPT ![a] = "ioNative"] \/ pc' = [pc EXCEPT ![a] = "ioWait"]
          \/ pc' = [pc EXCEPT ![a] = "idle"]
      BY <1>3 DEF StoreIOLocked
    <3>2. QED
      BY <3>1
  <2>3. QED
    BY <1>3, <2>1, <2>2 DEF StoreIOLocked
<1>4. CASE IoWait(a)
  BY <1>4 DEF IoWait
<1>5. CASE NativeAccess(a)
  BY <1>5 DEF NativeAccess
<1>6. CASE ReadBegin(a)
  <2>1. /\ eis' = [eis EXCEPT ![port.eis].flag = FALSE]
        /\ ref' = [ref EXCEPT ![a] = port.eis] /\ port.eis \in Mon \cup {None}
        /\ saved' = [saved EXCEPT ![a] = eis[port.eis].flag] /\ port.eis \in Mon
    BY <1>6 DEF ReadBegin
  <2>2. eis' \in [Mon -> EisType]
    BY <2>1, EisUpdate
  <2>3. eis[port.eis].flag \in BOOLEAN
    BY <2>1
  <2>4. saved' \in [Agent -> BOOLEAN] /\ ref' \in [Agent -> Mon \cup {None}]
    BY <2>1, <2>3
  <2>5. pc' \in [Agent -> {"idle", "unborn"} \cup AddLoc \cup RemoveLoc \cup NotifyLoc
                            \cup CloseLoc \cup IoLoc]
    BY <1>6 DEF ReadBegin
  <2>6. QED
    BY <1>6, <2>2, <2>4, <2>5 DEF ReadBegin
<1>7. CASE ReadEnd(a)
  <2>1. eis' = [eis EXCEPT ![ref[a]].flag = saved[a]] /\ saved[a] \in BOOLEAN
    BY <1>7 DEF ReadEnd, TypeOK
  <2>4. eis' \in [Mon -> EisType]
    BY <2>1, EisUpdate
  <2>2. input' \in 0 .. MaxInput
    BY <1>7, BoundAssumption DEF ReadEnd
  <2>3. QED
    BY <1>7, <2>2, <2>4 DEF ReadEnd
<1>8. QED
  BY <1>1, <1>2, <1>3, <1>4, <1>5, <1>6, <1>7 DEF InputOutput

\* The monitor threads keep the types.
LEMMA LoopType ==
  ASSUME TypeOK, NEW m \in Mon, EventLoop(m)
  PROVE  TypeOK'
<1> USE DEF TypeOK, PortType, EisType, LoopLoc, Monitor, portVars, callVars, ghosts, localVars
<1>1. CASE Run(m)
  BY <1>1 DEF EventLoop, Run
<1>2. CASE InitEis(m)
  BY <1>2 DEF EventLoop, InitEis
<1>3. CASE InitThreads(m)
  BY <1>3 DEF EventLoop, InitThreads
<1>4. CASE UnlockMonitorThread(m)
  BY <1>4 DEF EventLoop, UnlockMonitorThread
<1>5. CASE LoopExit(m)
  BY <1>5 DEF EventLoop, LoopExit
<1>6. CASE ReportDataAvailable(m)
  BY <1>6 DEF EventLoop, ReportDataAvailable
<1>7. CASE SendCheck(m)
  BY <1>7 DEF EventLoop, SendCheck
<1>8. CASE SendFlag(m)
  BY <1>8 DEF EventLoop, SendFlag
<1>9. CASE SendCall(m)
  BY <1>9 DEF EventLoop, SendCall
<1>10. CASE CallbackReturn(m)
  BY <1>10 DEF EventLoop, CallbackReturn
<1>11. QED
  BY <1>1, <1>2, <1>3, <1>4, <1>5, <1>6, <1>7, <1>8, <1>9, <1>10 DEF EventLoop

\* A call only chooses a method the thread may call.
LEMMA CallType ==
  ASSUME TypeOK, NEW a \in Agent, NEW o \in Op, Call(a, o)
  PROVE  TypeOK'
<1>1. Entry(o) \in AddLoc \cup RemoveLoc \cup NotifyLoc \cup CloseLoc \cup IoLoc
  BY DEF Entry, Op, Notify, Io, Input, AddLoc, RemoveLoc, NotifyLoc, CloseLoc, IoLoc
<1>2. QED
  BY <1>1 DEF Call, Goto, TypeOK, portVars, loopVars, ghosts, localVars

LEMMA TypeStep == TypeOK /\ [Next]_vars => TypeOK'
<1> SUFFICES ASSUME TypeOK, [Next]_vars PROVE TypeOK'
  OBVIOUS
<1>1. CASE \E a \in Agent : Step(a)
  BY <1>1, AddType, RemoveType, NotifyType, CloseType, IoType DEF Step
<1>2. CASE \E a \in Agent : \E o \in Op : Call(a, o)
  BY <1>2, CallType
<1>3. CASE \E m \in Mon : EventLoop(m)
  BY <1>3, LoopType
<1>4. CASE Arrive
  BY <1>4, BoundAssumption DEF Arrive, TypeOK, loopVars, callVars, ghosts, localVars
<1>5. CASE UNCHANGED vars
  BY <1>5 DEF TypeOK, vars, portVars, loopVars, callVars, ghosts, localVars
<1>6. QED
  BY <1>1, <1>2, <1>3, <1>4, <1>5 DEF Next

\* The fields of the port, the structures of its loops and the threads keep their types.
THEOREM TypeCorrect == Spec => []TypeOK
  BY TypeInit, TypeStep, PTL DEF Spec

-----------------------------------------------------------------------------
(* The device is closed once.                                              *)

\* A thread past the wait of close holds closeLock, alone; the descriptor it closed
\* stays in the field fd only until it leaves.
CloseInv ==
  /\ \A a \in Agent : pc[a] \in CloseLoc => op[a] = "close"
  /\ \A a \in Agent : InClose(a) => port.closeLock
  /\ \A a, b \in Agent : InClose(a) /\ InClose(b) => a = b
  /\ device = "closed" => \/ port.fd = 0
                          \/ \E a \in Agent : op[a] = "close" /\ pc[a] = "closeReset"

LEMMA CloseInvInit == Init => CloseInv
  BY DEF Init, CloseInv, InClose, CloseLoc, RemoveLoc

\* A step that leaves the device, fd and closeLock alone, and takes no thread into or out
\* of the body of close, keeps the invariant.
LEMMA CloseInvQuiet ==
  ASSUME CloseInv, op' = op, device' = device, port'.fd = port.fd,
         port'.closeLock = port.closeLock,
         \A b \in Agent : \/ pc'[b] = pc[b]
                          \/ /\ pc[b] \notin CloseLoc /\ pc'[b] \notin CloseLoc
                             /\ pc'[b] \notin RemoveLoc
  PROVE  CloseInv'
  BY DEF CloseInv, InClose, CloseLoc

LEMMA CloseInvAdd ==
  ASSUME TypeOK, CloseInv, NEW a \in Agent, Add(a)
  PROVE  CloseInv'
<1> USE DEF TypeOK, PortType, CloseInv, InClose, CloseLoc, RemoveLoc, Goto, Monitor, portVars,
            loopVars, callVars, ghosts, localVars, AddLoc
<1>1. CASE AddCheck(a)
  BY <1>1 DEF AddCheck
<1>2. CASE AddSet(a)
  BY <1>2 DEF AddSet
<1>3. CASE AddAlive(a)
  BY <1>3 DEF AddAlive
<1>4. CASE StartMonitor(a)
  BY <1>4 DEF StartMonitor
<1>5. CASE StartWait(a)
  <2>1. /\ op' = op /\ device' = device
        /\ port'.fd = port.fd /\ port'.closeLock = port.closeLock
    BY <1>5 DEF StartWait
  <2>2. \A b \in Agent : \/ pc'[b] = pc[b]
                         \/ /\ pc[b] \notin CloseLoc /\ pc'[b] \notin CloseLoc
                            /\ pc'[b] \notin RemoveLoc
    BY <1>5 DEF StartWait
  <2> HIDE DEF CloseInv, CloseLoc, RemoveLoc
  <2>3. QED
    BY <2>1, <2>2, CloseInvQuiet
<1>6. QED
  BY <1>1, <1>2, <1>3, <1>4, <1>5 DEF Add

LEMMA CloseInvRemove ==
  ASSUME TypeOK, CloseInv, NEW a \in Agent, Remove(a)
  PROVE  CloseInv'
<1> USE DEF TypeOK, PortType, CloseInv, InClose, CloseLoc, RemoveLoc, Goto, Monitor, portVars,
            loopVars, callVars, ghosts, localVars, Return
<1>1. CASE RemoveWait(a)
  BY <1>1 DEF RemoveWait
<1>2. CASE RemoveCheck(a)
  <2>1. /\ op' = op /\ device' = device
        /\ port'.fd = port.fd /\ port'.closeLock = port.closeLock
    BY <1>2 DEF RemoveCheck
  <2>2. /\ pc[a] = "removeCheck"
        /\ \A b \in Agent \ {a} : pc'[b] = pc[b]
        /\ pc'[a] \in CloseLoc => pc'[a] = "nativeClose" /\ op[a] = "close"
    BY <1>2 DEF RemoveCheck
  <2>3. \A b \in Agent : InClose(b)' => InClose(b)
    BY <2>1, <2>2
  <2>4. \A b \in Agent : pc'[b] \in CloseLoc => op'[b] = "close"
    BY <2>1, <2>2
  <2>5. \A b \in Agent : pc[b] = "closeReset" => pc'[b] = "closeReset"
    BY <2>2
  <2> HIDE DEF InClose, CloseLoc, RemoveLoc
  <2>6. QED
    BY <2>1, <2>3, <2>4, <2>5
<1>3. CASE RemoveInterrupt(a)
  BY <1>3 DEF RemoveInterrupt
<1>4. CASE InterruptEventLoop(a)
  BY <1>4 DEF InterruptEventLoop
<1>5. CASE Join(a)
  BY <1>5 DEF Join
<1>6. CASE Joined(a)
  BY <1>6 DEF Joined
<1>7. CASE RemoveReset(a)
  BY <1>7 DEF RemoveReset
<1>8. QED
  BY <1>1, <1>2, <1>3, <1>4, <1>5, <1>6, <1>7 DEF Remove

LEMMA CloseInvNotify ==
  ASSUME TypeOK, CloseInv, NEW a \in Agent, NotifyOnDataAvailable(a)
  PROVE  CloseInv'
<1> USE DEF TypeOK, PortType, CloseInv, InClose, CloseLoc, RemoveLoc, Goto, Monitor, portVars,
            loopVars, callVars, ghosts, localVars, NotifyLoc
<1>1. CASE NotifyWait(a)
  BY <1>1 DEF NotifyWait
<1>2. CASE NotifyLock(a)
  BY <1>2 DEF NotifyLock
<1>3. CASE NativeSetEventFlag(a)
  BY <1>3 DEF NativeSetEventFlag
<1>4. CASE NotifyJava(a)
  <2>1. /\ op' = op /\ device' = device
        /\ port'.fd = port.fd /\ port'.closeLock = port.closeLock
    BY <1>4 DEF NotifyJava
  <2>2. \A b \in Agent : \/ pc'[b] = pc[b]
                         \/ /\ pc[b] \notin CloseLoc /\ pc'[b] \notin CloseLoc
                            /\ pc'[b] \notin RemoveLoc
    BY <1>4 DEF NotifyJava
  <2> HIDE DEF CloseInv, CloseLoc, RemoveLoc
  <2>3. QED
    BY <2>1, <2>2, CloseInvQuiet
<1>5. QED
  BY <1>1, <1>2, <1>3, <1>4 DEF NotifyOnDataAvailable

LEMMA CloseInvClose ==
  ASSUME TypeOK, CloseInv, NEW a \in Agent, Close(a)
  PROVE  CloseInv'
<1> USE DEF TypeOK, PortType, CloseInv, InClose, CloseLoc, RemoveLoc, Goto, Monitor, portVars,
            loopVars, callVars, ghosts, localVars
<1>1. CASE CloseWait(a)
  BY <1>1 DEF CloseWait
<1>2. CASE CloseFd(a)
  BY <1>2 DEF CloseFd
<1>3. CASE CloseInterrupted(a)
  BY <1>3 DEF CloseInterrupted
<1>4. CASE NativeClose(a)
  BY <1>4 DEF NativeClose
<1>5. CASE CloseReset(a)
  BY <1>5 DEF CloseReset
<1>6. QED
  BY <1>1, <1>2, <1>3, <1>4, <1>5 DEF Close

LEMMA CloseInvIo ==
  ASSUME TypeOK, CloseInv, NEW a \in Agent, InputOutput(a)
  PROVE  CloseInv'
<1> USE DEF TypeOK, PortType, CloseInv, InClose, CloseLoc, RemoveLoc, Goto, Monitor, portVars,
            loopVars, callVars, ghosts, localVars, IoLoc
<1>1. CASE IoCheck(a)
  BY <1>1 DEF IoCheck
<1>2. CASE LoadIOLocked(a)
  <2>1. /\ op' = op /\ device' = device
        /\ port'.fd = port.fd /\ port'.closeLock = port.closeLock
    BY <1>2 DEF LoadIOLocked
  <2>2. \A b \in Agent : \/ pc'[b] = pc[b]
                         \/ /\ pc[b] \notin CloseLoc /\ pc'[b] \notin CloseLoc
                            /\ pc'[b] \notin RemoveLoc
    BY <1>2 DEF LoadIOLocked
  <2> HIDE DEF CloseInv, CloseLoc, RemoveLoc
  <2>3. QED
    BY <2>1, <2>2, CloseInvQuiet
<1>3. CASE StoreIOLocked(a)
  <2>1. /\ op' = op /\ device' = device
        /\ port'.fd = port.fd /\ port'.closeLock = port.closeLock
    BY <1>3 DEF StoreIOLocked
  <2>2. \A b \in Agent : \/ pc'[b] = pc[b]
                         \/ /\ pc[b] \notin CloseLoc /\ pc'[b] \notin CloseLoc
                            /\ pc'[b] \notin RemoveLoc
    BY <1>3 DEF StoreIOLocked
  <2> HIDE DEF CloseInv, CloseLoc, RemoveLoc
  <2>3. QED
    BY <2>1, <2>2, CloseInvQuiet
<1>4. CASE IoWait(a)
  BY <1>4 DEF IoWait
<1>5. CASE NativeAccess(a)
  BY <1>5 DEF NativeAccess
<1>6. CASE ReadBegin(a)
  BY <1>6 DEF ReadBegin
<1>7. CASE ReadEnd(a)
  BY <1>7 DEF ReadEnd
<1>8. QED
  BY <1>1, <1>2, <1>3, <1>4, <1>5, <1>6, <1>7 DEF InputOutput

LEMMA CloseInvLoop ==
  ASSUME TypeOK, CloseInv, NEW m \in Mon, EventLoop(m)
  PROVE  CloseInv'
<1> USE DEF TypeOK, PortType, CloseInv, InClose, Goto, Monitor, portVars,
            loopVars, callVars, ghosts, localVars
<1>1. CASE Run(m)
  BY <1>1 DEF EventLoop, Run
<1>2. CASE InitEis(m)
  BY <1>2 DEF EventLoop, InitEis
<1>3. CASE InitThreads(m)
  BY <1>3 DEF EventLoop, InitThreads
<1>4. CASE UnlockMonitorThread(m)
  BY <1>4 DEF EventLoop, UnlockMonitorThread
<1>5. CASE LoopExit(m)
  BY <1>5 DEF EventLoop, LoopExit
<1>6. CASE ReportDataAvailable(m)
  BY <1>6 DEF EventLoop, ReportDataAvailable
<1>7. CASE SendCheck(m)
  BY <1>7 DEF EventLoop, SendCheck
<1>8. CASE SendFlag(m)
  BY <1>8 DEF EventLoop, SendFlag
<1>9. CASE SendCall(m)
  BY <1>9 DEF EventLoop, SendCall
<1>10. CASE CallbackReturn(m)
  BY <1>10 DEF EventLoop, CallbackReturn
<1>11. QED
  BY <1>1, <1>2, <1>3, <1>4, <1>5, <1>6, <1>7, <1>8, <1>9, <1>10 DEF EventLoop

LEMMA CloseInvStep == TypeOK /\ CloseInv /\ [Next]_vars => CloseInv'
<1> SUFFICES ASSUME TypeOK, CloseInv, [Next]_vars PROVE CloseInv'
  OBVIOUS
<1>1. CASE \E a \in Agent : Step(a)
  BY <1>1, CloseInvAdd, CloseInvRemove, CloseInvNotify, CloseInvClose, CloseInvIo DEF Step
<1>2. CASE \E a \in Agent : \E o \in Op : Call(a, o)
  <2>1. PICK a \in Agent, o \in Op : Call(a, o)
    BY <1>2
  <2>2. ~InClose(a)' /\ (pc'[a] \in CloseLoc => op'[a] = "close")
    BY <2>1 DEF Call, Goto, Entry, Op, Notify, Io, Input, InClose, CloseLoc, RemoveLoc, TypeOK
  <2>3. QED
    BY <2>1, <2>2 DEF Call, Goto, TypeOK, CloseInv, InClose, portVars, CloseLoc, RemoveLoc
<1>3. CASE \E m \in Mon : EventLoop(m)
  BY <1>3, CloseInvLoop
<1>4. CASE Arrive
  BY <1>4 DEF Arrive, CloseInv, InClose, callVars, ghosts
<1>5. CASE UNCHANGED vars
  BY <1>5 DEF CloseInv, InClose, vars, portVars, callVars, ghosts
<1>6. QED
  BY <1>1, <1>2, <1>3, <1>4, <1>5 DEF Next

\* Whatever threads call close, together or one after the other, from a listener too,
\* and whatever else they call meanwhile: the descriptor is closed once.
THEOREM DeviceClosedOnce == Spec => []NeverClosesTwice
<1>1. TypeOK /\ CloseInv => NeverClosesTwice
  <2> SUFFICES ASSUME TypeOK, CloseInv, NEW a \in Agent, pc[a] = "nativeClose",
                      port.fd > 0, device = "closed"
               PROVE  FALSE
    BY DEF TypeOK, NeverClosesTwice
  <2>1. InClose(a)
    BY DEF CloseInv, InClose, CloseLoc
  <2>2. PICK b \in Agent : op[b] = "close" /\ pc[b] = "closeReset"
    BY DEF CloseInv, TypeOK, PortType
  <2>3. InClose(b)
    BY <2>2 DEF InClose, CloseLoc, RemoveLoc
  <2>4. QED
    BY <2>1, <2>2, <2>3 DEF CloseInv
<1>2. Spec => []CloseInv
  BY CloseInvInit, CloseInvStep, TypeCorrect, PTL DEF Spec
<1>3. QED
  BY <1>1, <1>2, TypeCorrect, PTL

-----------------------------------------------------------------------------
(* Closing waits for the calls in progress.                                *)

Busy == {a \in Agent : InIo(a)}

\* While no store of it was lost, IOLocked is the number of calls in progress.
IoInv == ~lost => IsFiniteSet(Busy) /\ port.IOLocked = Cardinality(Busy)

\* What a step that does not store IOLocked leaves alone.
SameIo ==
  /\ lost' = lost /\ port'.IOLocked = port.IOLocked
  /\ \A b \in Agent : InIo(b)' = InIo(b)

LEMMA SameIoKeepsIoInv ==
  ASSUME IoInv, SameIo
  PROVE  IoInv'
<1>1. Busy' = Busy
  BY DEF Busy, SameIo
<1>2. QED
  BY <1>1 DEF IoInv, SameIo

LEMMA IoInvInit == Init => IoInv
<1> SUFFICES ASSUME Init PROVE IoInv
  OBVIOUS
<1>1. Busy = {} /\ port.IOLocked = 0
  BY DEF Init, Busy, InIo
<1>2. QED
  BY <1>1, FS_EmptySet DEF IoInv

LEMMA AddSameIo ==
  ASSUME TypeOK, NEW a \in Agent, Add(a)
  PROVE  SameIo
<1> USE DEF TypeOK, PortType, SameIo, InIo, Goto, Monitor, portVars, loopVars,
            callVars, ghosts, localVars
<1>1. CASE AddCheck(a)
  BY <1>1 DEF AddCheck
<1>2. CASE AddSet(a)
  BY <1>2 DEF AddSet
<1>3. CASE AddAlive(a)
  BY <1>3 DEF AddAlive
<1>4. CASE StartMonitor(a)
  BY <1>4 DEF StartMonitor
<1>5. CASE StartWait(a)
  BY <1>5 DEF StartWait
<1>6. QED
  BY <1>1, <1>2, <1>3, <1>4, <1>5 DEF Add

LEMMA RemoveSameIo ==
  ASSUME TypeOK, NEW a \in Agent, Remove(a)
  PROVE  SameIo
<1> USE DEF TypeOK, PortType, SameIo, InIo, Return, Goto, Monitor, portVars, loopVars,
            callVars, ghosts, localVars
<1>1. CASE RemoveWait(a)
  BY <1>1 DEF RemoveWait
<1>2. CASE RemoveCheck(a)
  <2>1. lost' = lost /\ pc[a] = "removeCheck"
    BY <1>2 DEF RemoveCheck
  <2>2. port'.IOLocked = port.IOLocked
    BY <1>2 DEF RemoveCheck
  <2>3. \E l \in {"nativeClose", "idle", "removeInterrupt", "removeReset"} :
          pc' = [pc EXCEPT ![a] = l]
    BY <1>2 DEF RemoveCheck
  <2>4. QED
    BY <2>1, <2>2, <2>3
<1>3. CASE RemoveInterrupt(a)
  BY <1>3 DEF RemoveInterrupt
<1>4. CASE InterruptEventLoop(a)
  BY <1>4 DEF InterruptEventLoop
<1>5. CASE Join(a)
  BY <1>5 DEF Join
<1>6. CASE Joined(a)
  BY <1>6 DEF Joined
<1>7. CASE RemoveReset(a)
  BY <1>7 DEF RemoveReset
<1>8. QED
  BY <1>1, <1>2, <1>3, <1>4, <1>5, <1>6, <1>7 DEF Remove

LEMMA NotifySameIo ==
  ASSUME TypeOK, NEW a \in Agent, NotifyOnDataAvailable(a)
  PROVE  SameIo
<1> USE DEF TypeOK, PortType, SameIo, InIo, Goto, Monitor, portVars, loopVars,
            callVars, ghosts, localVars
<1>1. CASE NotifyWait(a)
  BY <1>1 DEF NotifyWait
<1>2. CASE NotifyLock(a)
  BY <1>2 DEF NotifyLock
<1>3. CASE NativeSetEventFlag(a)
  BY <1>3 DEF NativeSetEventFlag
<1>4. CASE NotifyJava(a)
  BY <1>4 DEF NotifyJava
<1>5. QED
  BY <1>1, <1>2, <1>3, <1>4 DEF NotifyOnDataAvailable

LEMMA CloseSameIo ==
  ASSUME TypeOK, NEW a \in Agent, Close(a)
  PROVE  SameIo
<1> USE DEF TypeOK, PortType, SameIo, InIo, Goto, Monitor, portVars, loopVars,
            callVars, ghosts, localVars
<1>1. CASE CloseWait(a)
  BY <1>1 DEF CloseWait
<1>2. CASE CloseFd(a)
  BY <1>2 DEF CloseFd
<1>3. CASE CloseInterrupted(a)
  BY <1>3 DEF CloseInterrupted
<1>4. CASE NativeClose(a)
  BY <1>4 DEF NativeClose
<1>5. CASE CloseReset(a)
  BY <1>5 DEF CloseReset
<1>6. QED
  BY <1>1, <1>2, <1>3, <1>4, <1>5 DEF Close

LEMMA LoopSameIo ==
  ASSUME TypeOK, NEW m \in Mon, EventLoop(m)
  PROVE  SameIo
<1> USE DEF TypeOK, PortType, SameIo, InIo, Monitor, portVars, callVars, ghosts, localVars
<1>1. CASE Run(m)
  BY <1>1 DEF EventLoop, Run
<1>2. CASE InitEis(m)
  BY <1>2 DEF EventLoop, InitEis
<1>3. CASE InitThreads(m)
  BY <1>3 DEF EventLoop, InitThreads
<1>4. CASE UnlockMonitorThread(m)
  BY <1>4 DEF EventLoop, UnlockMonitorThread
<1>5. CASE LoopExit(m)
  BY <1>5 DEF EventLoop, LoopExit
<1>6. CASE ReportDataAvailable(m)
  BY <1>6 DEF EventLoop, ReportDataAvailable
<1>7. CASE SendCheck(m)
  BY <1>7 DEF EventLoop, SendCheck
<1>8. CASE SendFlag(m)
  BY <1>8 DEF EventLoop, SendFlag
<1>9. CASE SendCall(m)
  BY <1>9 DEF EventLoop, SendCall
<1>10. CASE CallbackReturn(m)
  BY <1>10 DEF EventLoop, CallbackReturn
<1>11. QED
  BY <1>1, <1>2, <1>3, <1>4, <1>5, <1>6, <1>7, <1>8, <1>9, <1>10 DEF EventLoop

\* A store that undoes no other counts its own thread in or out.
LEMMA StoreKeepsIoInv ==
  ASSUME TypeOK, IoInv, NEW a \in Agent, StoreIOLocked(a)
  PROVE  IoInv'
<1> SUFFICES ASSUME ~lost' PROVE IsFiniteSet(Busy') /\ port'.IOLocked = Cardinality(Busy')
  BY DEF IoInv
<1>1. ~lost /\ reg[a] = port.IOLocked
  BY DEF StoreIOLocked
<1>2. IsFiniteSet(Busy) /\ port.IOLocked = Cardinality(Busy) /\ Cardinality(Busy) \in Nat
  BY <1>1, FS_CardinalityType DEF IoInv
<1>3. CASE pc[a] = "incStore"
  <2>1. port'.IOLocked = port.IOLocked + 1
    BY <1>1, <1>3 DEF StoreIOLocked, TypeOK, PortType
  <2>2. \A b \in Agent : InIo(b)' <=> InIo(b) \/ b = a
    BY <1>3 DEF StoreIOLocked, Goto, TypeOK, InIo
  <2>3. Busy' = Busy \cup {a}
    BY <2>2 DEF Busy
  <2>4. a \notin Busy
    BY <1>3 DEF Busy, InIo
  <2>5. QED
    BY <1>2, <2>1, <2>3, <2>4, FS_AddElement
<1>4. CASE pc[a] = "decStore"
  <2>1. port'.IOLocked = port.IOLocked - 1
    BY <1>1, <1>4 DEF StoreIOLocked, TypeOK, PortType
  <2>2. \A b \in Agent : InIo(b)' <=> InIo(b) /\ b # a
    BY <1>4 DEF StoreIOLocked, Goto, TypeOK, InIo
  <2>3. Busy' = Busy \ {a}
    BY <2>2 DEF Busy
  <2>4. a \in Busy
    BY <1>4 DEF Busy, InIo
  <2>5. QED
    BY <1>2, <2>1, <2>3, <2>4, FS_RemoveElement
<1>5. QED
  BY <1>3, <1>4 DEF StoreIOLocked

LEMMA InputOutputKeepsIoInv ==
  ASSUME TypeOK, IoInv, NEW a \in Agent, InputOutput(a)
  PROVE  IoInv'
<1>1. StoreIOLocked(a) \/ SameIo
  <2> USE DEF TypeOK, PortType, SameIo, InIo, Goto, portVars, loopVars, callVars, ghosts,
              localVars
  <2>1. CASE IoCheck(a)
    BY <2>1 DEF IoCheck
  <2>2. CASE LoadIOLocked(a)
    BY <2>2 DEF LoadIOLocked
  <2>3. CASE IoWait(a)
    BY <2>3 DEF IoWait
  <2>4. CASE NativeAccess(a)
    BY <2>4 DEF NativeAccess
  <2>5. CASE ReadBegin(a)
    BY <2>5 DEF ReadBegin
  <2>6. CASE ReadEnd(a)
    BY <2>6 DEF ReadEnd
  <2>7. QED
    BY <2>1, <2>2, <2>3, <2>4, <2>5, <2>6 DEF InputOutput
<1>2. QED
  BY <1>1, StoreKeepsIoInv, SameIoKeepsIoInv

LEMMA CallSameIo ==
  ASSUME TypeOK, NEW a \in Agent, NEW o \in Op, Call(a, o)
  PROVE  SameIo
<1>1. pc[a] = "idle" /\ pc' = [pc EXCEPT ![a] = Entry(o)] /\ UNCHANGED <<port, lost>>
  BY DEF Call, Goto, portVars, ghosts
<1>2. Entry(o) \in {"addCheck", "removeWait", "notifyWait", "closeWait", "ioCheck"}
  BY DEF Entry, Op, Notify, Io, Input
<1>3. QED
  BY <1>1, <1>2 DEF SameIo, InIo, TypeOK

LEMMA IoInvStep == TypeOK /\ IoInv /\ [Next]_vars => IoInv'
<1> SUFFICES ASSUME TypeOK, IoInv, [Next]_vars PROVE IoInv'
  OBVIOUS
<1>1. CASE \E a \in Agent : Step(a)
  BY <1>1, SameIoKeepsIoInv, AddSameIo, RemoveSameIo, NotifySameIo, CloseSameIo,
     InputOutputKeepsIoInv DEF Step
<1>2. CASE \E a \in Agent : \E o \in Op : Call(a, o)
  BY <1>2, SameIoKeepsIoInv, CallSameIo
<1>3. CASE \E m \in Mon : EventLoop(m)
  BY <1>3, SameIoKeepsIoInv, LoopSameIo
<1>4. CASE Arrive
  <2>1. SameIo
    BY <1>4 DEF Arrive, SameIo, InIo, ghosts
  <2>2. QED
    BY <2>1, SameIoKeepsIoInv
<1>5. CASE UNCHANGED vars
  <2>1. SameIo
    BY <1>5 DEF vars, SameIo, InIo, portVars, ghosts
  <2>2. QED
    BY <2>1, SameIoKeepsIoInv
<1>6. QED
  BY <1>1, <1>2, <1>3, <1>4, <1>5 DEF Next

\* A thread gets from the wait of close into its body by its own CloseWait only.
LEMMA OnlyCloseWaitPasses ==
  ASSUME TypeOK, NEW a \in Agent, pc[a] = "closeWait", pc'[a] = "closeFd",
         NEW x \in Agent, Step(x)
  PROVE  CloseWait(a)
<1>1. CASE Add(x)
  BY <1>1
  DEF Add, AddCheck, AddSet, AddAlive, StartMonitor, StartWait, TypeOK, Goto, Return
<1>2. CASE Remove(x)
  BY <1>2
  DEF Remove, RemoveWait, RemoveCheck, RemoveInterrupt, InterruptEventLoop, Join, Joined,
      RemoveReset, TypeOK, Goto, Return
<1>3. CASE NotifyOnDataAvailable(x)
  BY <1>3
  DEF NotifyOnDataAvailable, NotifyWait, NotifyLock, NativeSetEventFlag, NotifyJava,
      TypeOK, Goto, Return
<1>4. CASE Close(x)
  BY <1>4
  DEF Close, CloseFd, CloseInterrupted, NativeClose, CloseReset, CloseWait, TypeOK, Goto, Return
<1>5. CASE InputOutput(x)
  BY <1>5
  DEF InputOutput, IoCheck, LoadIOLocked, StoreIOLocked, IoWait, NativeAccess, ReadBegin,
      ReadEnd, TypeOK, Goto, Return
<1>6. QED
  BY <1>1, <1>2, <1>3, <1>4, <1>5 DEF Step

\* close goes past its wait only when no stream method is between its increment and its
\* decrement of IOLocked, whoever reads and writes, until a store of it has undone another.
THEOREM CloseWaits == Spec => CloseWaitsForIo
<1> DEFINE Waits == \A a \in Agent : pc[a] = "closeWait" /\ pc'[a] = "closeFd"
                                    => lost \/ \A b \in Agent : ~InIo(b)
<1>1. TypeOK /\ IoInv /\ [Next]_vars => IoInv'
  BY IoInvStep
<1>2. TypeOK /\ IoInv /\ [Next]_vars => [Waits]_vars
  <2> SUFFICES ASSUME TypeOK, IoInv, Next, NEW a \in Agent, ~lost,
                      pc[a] = "closeWait", pc'[a] = "closeFd",
                      NEW b \in Agent, InIo(b)
               PROVE  FALSE
    BY DEF vars
  <2>1. CloseWait(a)
    <3>1. CASE \E x \in Agent : Step(x)
      BY <3>1, OnlyCloseWaitPasses
    <3>2. CASE \E x \in Agent : \E o \in Op : Call(x, o)
      BY <3>2 DEF Call, Goto, TypeOK
    <3>3. CASE (\E m \in Mon : EventLoop(m)) \/ Arrive
      BY <3>3 DEF EventLoop, Arrive
    <3>4. QED
      BY <3>1, <3>2, <3>3 DEF Next
  <2>2. port.IOLocked <= 0
    BY <2>1 DEF CloseWait
  <2>3. IsFiniteSet(Busy) /\ Cardinality(Busy) = port.IOLocked /\ Cardinality(Busy) \in Nat
    BY FS_CardinalityType DEF IoInv
  <2>4. Busy = {}
    BY <2>2, <2>3, FS_EmptySet
  <2>5. QED
    BY <2>4 DEF Busy
<1>3. QED
  BY <1>1, <1>2, IoInvInit, TypeCorrect, PTL DEF Spec, CloseWaitsForIo

\* IOLocked is the number of calls between its increment and its decrement, for as long.
THEOREM IoCounted == Spec => []CountsIo
<1>1. IoInv => CountsIo
  BY DEF IoInv, CountsIo, Busy
<1>2. TypeOK /\ IoInv /\ [Next]_vars => IoInv'
  BY IoInvStep
<1>3. QED
  BY <1>1, <1>2, IoInvInit, TypeCorrect, PTL DEF Spec

-----------------------------------------------------------------------------
(* Monitor threads that are started and stopped by one thread, while any   *)
(* others do I/O, whose listeners may outlast the join of their removal.   *)

ManageLoc == AddLoc \cup RemoveLoc \cup NotifyLoc \cup CloseLoc

\* Whether a thread is in the constructor, which no other thread overlaps.
Constructing(a) ==
  /\ op[a] = "open" /\ pc[a] \in {"startMonitor", "startWait"}
  /\ \A b \in App \ {a} : pc[b] = "unborn"

\* Who may be in a method that manages the port.
ManagerInv ==
  /\ \A m \in Mon : pc[m] \in IoLoc \cup {"idle"}
  /\ \A a \in App : pc[a] \in ManageLoc => op[a] \in Can[a] \ Io \/ Constructing(a)

Starting(m) == loop[m] \in {"run", "initEis", "initThreads", "unlockMonitor"}

\* Told to end, which it does when its listener returns
Told(m) == eis[m].closing /\ loop[m] \in {"callback", "poll"}

\* What a monitor thread may be while the managing thread is at l. One that is not the port's
\* is told to end; one that starts is waited for.
ThreadAt(m, l) ==
  /\ IsAlive(m) /\ port.monThread # m => Told(m)
  /\ loop[m] = "dead" => eis[m].closing
  /\ loop[m] \in {"new", "run", "initEis"} => ~eis[m].closing
  /\ Starting(m) => port.MonitorThreadLock /\ l = "startWait"

\* And what the port's own may be: one of an interrupted port is about to be told, has been
\* told when it is given up, and is given up before the device is closed.
OwnAt(m, l) ==
  /\ port.MonitorThreadAlive \/ l = "startWait"
  /\ eis[m].closing => port.monThreadisInterrupted
  /\ port.monThreadisInterrupted =>
       loop[m] = "run" \/ l \in {"interruptLoop", "join", "joining", "removeReset"}
  /\ l \in {"join", "joining"} => eis[m].closing
  /\ l = "removeReset" => Told(m)
  /\ l \notin {"nativeClose", "closeReset"}

\* Nothing in the list is older than its structure; r is the thread last joined.
LoopAt(l, r) ==
  /\ \A m \in Mon : ThreadAt(m, l)
  /\ \A m \in Mon : IsAlive(m) /\ port.monThread = m => OwnAt(m, l)
  /\ \A i \in DOMAIN index : loop[index[i]] \notin {"new", "run", "initEis"}
  /\ l = "startMonitor" => ~port.MonitorThreadAlive
  /\ l \in {"interruptLoop", "join", "joining"} => port.monThreadisInterrupted
  /\ l = "joining" => r = port.monThread /\ r # None

LoopInv ==
  ~hidden => \E a \in App : /\ \A b \in App \ {a} : pc[b] \notin ManageLoc
                            /\ LoopAt(pc[a], ref[a])

LEMMA LoopInvInit == Init => ManagerInv /\ LoopInv
<1> SUFFICES ASSUME Init PROVE ManagerInv /\ LoopInv
  OBVIOUS
<1>1. \A m \in Mon : pc[m] = "idle" /\ loop[m] = "new" /\ ~eis[m].closing
  BY ThreadAssumption DEF Init, Agent
<1>2. /\ pc[Creator] = "startMonitor" /\ op[Creator] = "open"
      /\ \A b \in App \ {Creator} : pc[b] = "unborn"
  BY ThreadAssumption DEF Init, Agent
<1>3. ManagerInv
  BY <1>1, <1>2 DEF ManagerInv, Constructing, ManageLoc, AddLoc, RemoveLoc, NotifyLoc, CloseLoc
<1>4. index = <<>> /\ ~port.MonitorThreadAlive
  BY DEF Init
<1>5. LoopAt(pc[Creator], ref[Creator])
  BY <1>1, <1>2, <1>4 DEF LoopAt, ThreadAt, IsAlive, Starting
<1>6. \A b \in App \ {Creator} : pc[b] \notin ManageLoc
  BY <1>2 DEF ManageLoc, AddLoc, RemoveLoc, NotifyLoc, CloseLoc
<1>7. QED
  BY <1>3, <1>5, <1>6, ThreadAssumption DEF LoopInv

\* A step that leaves alone what LoopAt speaks of, whichever thread it is about after it.
LEMMA LoopAtKept ==
  ASSUME TypeOK, NEW a \in App, LoopAt(pc[a], ref[a]), UNCHANGED <<loop, index>>,
         port'.monThread = port.monThread, port'.MonitorThreadAlive = port.MonitorThreadAlive,
         \/ port'.MonitorThreadLock = port.MonitorThreadLock
         \/ \A m \in Mon : ~Starting(m),
         port'.monThreadisInterrupted = port.monThreadisInterrupted,
         \A m \in Mon : eis'[m].closing = eis[m].closing,
         NEW b \in App,
         \/ pc'[b] = pc[a] /\ ref'[b] = ref[a]
         \/ /\ pc'[b] \notin {"startWait", "interruptLoop", "join", "joining", "removeReset",
                              "nativeClose", "closeReset", "startMonitor"}
            /\ pc[a] \notin {"startWait", "interruptLoop", "join", "joining", "removeReset"}
  PROVE  LoopAt(pc[b], ref[b])'
<1>1. \A m \in Mon : /\ IsAlive(m)' = IsAlive(m) /\ Starting(m)' = Starting(m)
                     /\ Told(m)' = Told(m)
  BY DEF IsAlive, Starting, Told
<1>2. \A m \in Mon : ThreadAt(m, pc[b])'
  BY <1>1 DEF LoopAt, ThreadAt
<1>3. \A m \in Mon : IsAlive(m)' /\ port'.monThread = m => OwnAt(m, pc[b])'
  BY <1>1 DEF LoopAt, OwnAt
<1>4. QED
  BY <1>2, <1>3 DEF LoopAt

\* The flags that are put up and down are not what tells a loop to end.
LEMMA FlagOnly ==
  ASSUME TypeOK, NEW n, NEW b, eis' = [eis EXCEPT ![n].flag = b]
  PROVE  \A m \in Mon : eis'[m].fd = eis[m].fd /\ eis'[m].closing = eis[m].closing
BY DEF TypeOK, EisType

LEMMA AddKeepsLoops ==
  ASSUME TypeOK, NEW a \in App, LoopAt(pc[a], ref[a]), Add(a)
  PROVE  LoopAt(pc[a], ref[a])'
<1> USE DEF TypeOK, PortType, Goto, Monitor, portVars, loopVars, callVars, ghosts, localVars, Agent
<1>1. CASE AddCheck(a)
  <2>1. /\ pc[a] = "addCheck" /\ pc'[a] \in {"idle", "addSet"}
        /\ UNCHANGED <<loop, index, eis, port>>
    BY <1>1 DEF AddCheck
  <2>2. QED
    BY <2>1, LoopAtKept
<1>2. CASE AddSet(a)
  <2>1. /\ pc[a] = "addSet" /\ pc'[a] = "addAlive" /\ UNCHANGED <<loop, index, eis>>
        /\ port' = [port EXCEPT !.SPEventListener = TRUE]
    BY <1>2 DEF AddSet
  <2>2. /\ port'.monThread = port.monThread
        /\ port'.MonitorThreadAlive = port.MonitorThreadAlive
        /\ port'.MonitorThreadLock = port.MonitorThreadLock
        /\ port'.monThreadisInterrupted = port.monThreadisInterrupted
    BY <2>1
  <2>3. QED
    BY <2>1, <2>2, LoopAtKept
<1>3. CASE AddAlive(a)
  <2>1. /\ pc[a] = "addAlive" /\ UNCHANGED <<loop, index, eis, port>>
        /\ pc'[a] = IF port.MonitorThreadAlive THEN "idle" ELSE "startMonitor"
    BY <1>3 DEF AddAlive
  <2>2. CASE port.MonitorThreadAlive
    BY <2>1, <2>2, LoopAtKept
  <2>3. CASE ~port.MonitorThreadAlive
    <3>1. \A m \in Mon : ~(IsAlive(m) /\ port.monThread = m)
      BY <2>1, <2>3 DEF LoopAt, OwnAt
    <3>2. \A m \in Mon : ThreadAt(m, "startMonitor")'
      BY <2>1 DEF LoopAt, ThreadAt, IsAlive, Starting, Told
    <3>3. QED
      BY <2>1, <2>3, <3>1, <3>2 DEF LoopAt, IsAlive
  <2>4. QED
    BY <2>2, <2>3
<1>4. CASE StartMonitor(a)
  <2>1. PICK n \in Mon : /\ loop[n] = "new" /\ loop' = [loop EXCEPT ![n] = "run"]
                         /\ port' = [port EXCEPT !.MonitorThreadLock = TRUE, !.monThread = n]
    BY <1>4 DEF StartMonitor
  <2>2. /\ pc[a] = "startMonitor" /\ pc'[a] = "startWait" /\ UNCHANGED <<index, eis>>
        /\ ~port.MonitorThreadAlive
    BY <1>4 DEF StartMonitor, LoopAt
  <2>3. \A m \in Mon : /\ IsAlive(m) => Told(m)
                       /\ ~Starting(m)
    BY <2>2 DEF LoopAt, ThreadAt, OwnAt
  <2>4. port'.monThread = n /\ port'.MonitorThreadLock
    BY <2>1
  <2>5. ~eis[n].closing /\ loop'[n] = "run"
    BY <2>1 DEF LoopAt, ThreadAt
  <2>6. ASSUME NEW m \in Mon \ {n} PROVE ThreadAt(m, "startWait")'
    <3>1. loop'[m] = loop[m] /\ eis'[m] = eis[m]
      BY <2>1, <2>2, <2>6
    <3>2. QED
      BY <2>3, <2>4, <3>1 DEF LoopAt, ThreadAt, IsAlive, Starting, Told
  <2>7. ThreadAt(n, "startWait")' /\ OwnAt(n, "startWait")'
    BY <2>2, <2>4, <2>5 DEF ThreadAt, OwnAt, Starting
  <2>8. \A i \in DOMAIN index' : loop'[index'[i]] \notin {"new", "run", "initEis"}
    <3>1. \A i \in DOMAIN index : index[i] # n
      BY <2>1 DEF LoopAt
    <3>2. \A i \in DOMAIN index : index[i] \in Mon
      OBVIOUS
    <3>3. QED
      BY <2>1, <2>2, <3>1, <3>2 DEF LoopAt
  <2>9. QED
    BY <2>2, <2>4, <2>6, <2>7, <2>8 DEF LoopAt
<1>5. CASE StartWait(a)
  <2>1. /\ pc[a] = "startWait" /\ pc'[a] = "idle" /\ ~port.MonitorThreadLock
        /\ UNCHANGED <<loop, index, eis>>
        /\ port' = [port EXCEPT !.MonitorThreadAlive = TRUE]
    BY <1>5 DEF StartWait
  <2>2. /\ port'.MonitorThreadAlive /\ port'.monThread = port.monThread
        /\ port'.monThreadisInterrupted = port.monThreadisInterrupted
    BY <2>1
  <2>3. \A m \in Mon : ~Starting(m)
    BY <2>1 DEF LoopAt, ThreadAt
  <2>4. \A m \in Mon : ThreadAt(m, "idle")'
    BY <2>1, <2>2, <2>3 DEF LoopAt, ThreadAt, IsAlive, Starting, Told
  <2>5. \A m \in Mon : IsAlive(m)' /\ port'.monThread = m => OwnAt(m, "idle")'
    BY <2>1, <2>2, <2>3 DEF LoopAt, OwnAt, IsAlive, Starting, Told
  <2>6. QED
    BY <2>1, <2>4, <2>5 DEF LoopAt
<1>6. QED
  BY <1>1, <1>2, <1>3, <1>4, <1>5 DEF Add

LEMMA RemoveKeepsLoops ==
  ASSUME OneManager, TypeOK, NEW a \in App, LoopAt(pc[a], ref[a]), Remove(a), ~hidden'
  PROVE  LoopAt(pc[a], ref[a])'
<1> USE DEF TypeOK, PortType, Goto, Monitor, portVars, loopVars, callVars, localVars, Agent
<1>1. CASE RemoveWait(a)
  <2>1. /\ pc[a] = "removeWait" /\ pc'[a] = "removeCheck"
        /\ UNCHANGED <<loop, index, eis, port>>
    BY <1>1 DEF RemoveWait
  <2>2. QED
    BY <2>1, LoopAtKept
<1>2. CASE RemoveCheck(a)
  <2>1. pc[a] = "removeCheck" /\ UNCHANGED <<loop, index, eis>>
    BY <1>2 DEF RemoveCheck
  <2>2. \A m \in Mon : /\ IsAlive(m)' = IsAlive(m) /\ Starting(m)' = Starting(m)
                       /\ Told(m)' = Told(m) /\ ~Starting(m)
    BY <2>1 DEF IsAlive, Starting, Told, LoopAt, ThreadAt
  <2>3. CASE port.monThreadisInterrupted
    <3>1. \A m \in Mon : IsAlive(m) => port.monThread # m
      BY <2>1, <2>2, <2>3 DEF LoopAt, OwnAt, Starting
    <3>2. /\ pc'[a] \in {"nativeClose", "idle"}
          /\ port' = [port EXCEPT !.monThread = None, !.SPEventListener = FALSE]
      BY <1>2, <2>3 DEF RemoveCheck, Return
    <3>3. port'.monThread = None
      BY <3>2
    <3>4. \A m \in Mon : ThreadAt(m, pc[a])'
      BY <2>1, <2>2, <3>1, <3>2 DEF LoopAt, ThreadAt
    <3>5. QED
      BY <2>1, <3>2, <3>3, <3>4, ThreadAssumption DEF LoopAt
  <2>4. CASE ~port.monThreadisInterrupted
    <3>1. port' = port /\ pc'[a] = IF port.monThread # None /\ IsAlive(port.monThread)
                                  THEN "removeInterrupt" ELSE "removeReset"
      BY <1>2, <2>4 DEF RemoveCheck
    <3>2. CASE port.monThread # None /\ IsAlive(port.monThread)
      BY <2>1, <3>1, <3>2, LoopAtKept
    <3>3. CASE ~(port.monThread # None /\ IsAlive(port.monThread))
      <4>1. \A m \in Mon : IsAlive(m) => port.monThread # m
        BY <3>3, ThreadAssumption
      <4>2. \A m \in Mon : ThreadAt(m, "removeReset")'
        BY <2>1, <2>2, <3>1 DEF LoopAt, ThreadAt
      <4>3. QED
        BY <2>1, <2>2, <3>1, <3>3, <4>1, <4>2 DEF LoopAt
    <3>4. QED
      BY <3>2, <3>3
  <2>5. QED
    BY <2>3, <2>4
<1>3. CASE RemoveInterrupt(a)
  <2>1. /\ pc[a] = "removeInterrupt" /\ pc'[a] = "interruptLoop" /\ UNCHANGED <<loop, index, eis>>
        /\ port' = [port EXCEPT !.monThreadisInterrupted = TRUE]
    BY <1>3 DEF RemoveInterrupt
  <2>2. /\ port'.monThreadisInterrupted /\ port'.monThread = port.monThread
        /\ port'.MonitorThreadAlive = port.MonitorThreadAlive
        /\ port'.MonitorThreadLock = port.MonitorThreadLock
    BY <2>1
  <2>3. \A m \in Mon : ThreadAt(m, "interruptLoop")'
    BY <2>1, <2>2 DEF LoopAt, ThreadAt, IsAlive, Starting, Told
  <2>4. \A m \in Mon : IsAlive(m)' /\ port'.monThread = m => OwnAt(m, "interruptLoop")'
    BY <2>1, <2>2 DEF LoopAt, OwnAt, IsAlive
  <2>5. QED
    BY <2>1, <2>2, <2>3, <2>4 DEF LoopAt
<1>4. CASE InterruptEventLoop(a)
  <2>1. PICK n \in WithFd(port.fd) : /\ eis' = [eis EXCEPT ![n].closing = TRUE]
                                     /\ n = port.monThread \/ ~eis[n].closing
    BY <1>4 DEF InterruptEventLoop
  <2>2. pc[a] = "interruptLoop" /\ pc'[a] = "join" /\ UNCHANGED <<loop, index, port>>
    BY <1>4 DEF InterruptEventLoop
  <2>3. n \in Mon /\ loop[n] \notin {"new", "run", "initEis"}
    BY <2>1 DEF WithFd, LoopAt
  <2>4. n = port.monThread
    BY <2>1, <2>3 DEF LoopAt, ThreadAt, IsAlive, LoopLoc, Told
  <2>5. /\ \A m \in Mon \ {n} : eis'[m].closing = eis[m].closing
        /\ eis'[n].closing
    BY <2>1, <2>3 DEF EisType
  <2>6. \A m \in Mon : /\ IsAlive(m)' = IsAlive(m) /\ Starting(m)' = Starting(m)
                       /\ m # n => Told(m)' = Told(m)
    BY <2>2, <2>5 DEF IsAlive, Starting, Told
  <2>7. \A m \in Mon : ThreadAt(m, "join")'
    BY <2>2, <2>3, <2>4, <2>5, <2>6 DEF LoopAt, ThreadAt
  <2>8. OwnAt(n, "join")' \/ ~IsAlive(n)
    BY <2>2, <2>4, <2>5, <2>3 DEF LoopAt, OwnAt
  <2>9. QED
    BY <2>2, <2>4, <2>6, <2>7, <2>8 DEF LoopAt
<1>5. CASE Join(a)
  <2>1. /\ pc[a] = "join" /\ UNCHANGED <<loop, index, eis, port>>
        /\ ref'[a] = port.monThread
        /\ pc'[a] = IF port.monThread = None THEN "idle" ELSE "joining"
    BY <1>5 DEF Join
  <2>2. \A m \in Mon : ThreadAt(m, pc[a])'
    BY <2>1 DEF LoopAt, ThreadAt, IsAlive, Starting, Told
  <2>3. \A m \in Mon : IsAlive(m)' /\ port'.monThread = m => OwnAt(m, pc[a])'
    BY <2>1, ThreadAssumption DEF LoopAt, OwnAt, IsAlive
  <2>4. QED
    BY <2>1, <2>2, <2>3 DEF LoopAt
<1>6. CASE Joined(a)
  <2>1. /\ pc[a] = "joining" /\ pc'[a] = "removeReset" /\ UNCHANGED <<loop, index, eis, port>>
        /\ ref[a] = port.monThread /\ ref[a] # None
    BY <1>6 DEF Joined, LoopAt
  <2>2. \A m \in Mon : IsAlive(m) /\ port.monThread = m => Told(m)
    BY <1>6, <2>1 DEF Joined, LoopAt, OwnAt, Told
  <2>3. \A m \in Mon : ThreadAt(m, "removeReset")'
    BY <2>1 DEF LoopAt, ThreadAt, IsAlive, Starting, Told
  <2>4. \A m \in Mon : IsAlive(m)' /\ port'.monThread = m => OwnAt(m, "removeReset")'
    BY <2>1, <2>2 DEF LoopAt, OwnAt, IsAlive, Told
  <2>5. QED
    BY <2>1, <2>3, <2>4 DEF LoopAt
<1>7. CASE RemoveReset(a)
  <2>1. /\ pc[a] = "removeReset" /\ pc'[a] \in {"nativeClose", "idle"}
        /\ UNCHANGED <<loop, index, eis>>
        /\ port' = [port EXCEPT !.monThread = None, !.SPEventListener = FALSE,
                                !.MonitorThreadLock = FALSE, !.MonitorThreadAlive = FALSE,
                                !.monThreadisInterrupted = TRUE]
    BY <1>7 DEF RemoveReset, Return
  <2>2. port'.monThread = None
    BY <2>1
  <2>3. \A m \in Mon : (IsAlive(m) => Told(m)) /\ ~Starting(m)
    BY <2>1 DEF LoopAt, ThreadAt, OwnAt
  <2>4. \A m \in Mon : ThreadAt(m, pc[a])'
    BY <2>1, <2>3 DEF LoopAt, ThreadAt, IsAlive, Starting, Told
  <2>5. QED
    BY <2>1, <2>2, <2>4, ThreadAssumption DEF LoopAt
<1>8. QED
  BY <1>1, <1>2, <1>3, <1>4, <1>5, <1>6, <1>7 DEF Remove

LEMMA NotifyKeepsLoops ==
  ASSUME TypeOK, NEW a \in App, LoopAt(pc[a], ref[a]), NotifyOnDataAvailable(a)
  PROVE  LoopAt(pc[a], ref[a])'
<1> USE DEF TypeOK, PortType, Goto, portVars, loopVars, callVars, localVars, Agent
<1>1. /\ pc[a] \in NotifyLoc /\ pc'[a] \in NotifyLoc \cup {"idle"}
      /\ UNCHANGED <<loop, index>>
      /\ \/ port' = port \/ port' = [port EXCEPT !.MonitorThreadLock = TRUE]
         \/ port' = [port EXCEPT !.MonitorThreadLock = FALSE]
  BY DEF NotifyOnDataAvailable, NotifyWait, NotifyLock, NativeSetEventFlag, NotifyJava, NotifyLoc
<1>2. \A m \in Mon : eis'[m].closing = eis[m].closing
  <2>1. eis' = eis \/ \E n : eis' = [eis EXCEPT ![n].flag = (op[a] = "notifyOn")]
    BY DEF NotifyOnDataAvailable, NotifyWait, NotifyLock, NativeSetEventFlag, NotifyJava
  <2>2. CASE eis' = eis
    BY <2>2
  <2>3. CASE \E n : eis' = [eis EXCEPT ![n].flag = (op[a] = "notifyOn")]
    BY <2>3 DEF EisType
  <2>4. QED
    BY <2>1, <2>2, <2>3
<1>3. /\ port'.MonitorThreadAlive = port.MonitorThreadAlive
      /\ port'.monThread = port.monThread
      /\ port'.monThreadisInterrupted = port.monThreadisInterrupted
  BY <1>1
<1>4. \A m \in Mon : ~Starting(m)
  BY <1>1 DEF LoopAt, ThreadAt, NotifyLoc
<1>5. QED
  BY <1>1, <1>2, <1>3, <1>4, LoopAtKept DEF NotifyLoc

LEMMA CloseKeepsLoops ==
  ASSUME TypeOK, NEW a \in App, LoopAt(pc[a], ref[a]), Close(a)
  PROVE  LoopAt(pc[a], ref[a])'
<1> USE DEF TypeOK, PortType, Goto, portVars, loopVars, callVars, localVars, Agent
<1>1. CASE CloseWait(a) \/ CloseFd(a)
  <2>1. /\ pc[a] \in {"closeWait", "closeFd"}
        /\ pc'[a] \in {"idle", "closeFd", "closeInterrupted"}
        /\ UNCHANGED <<loop, index, eis>>
        /\ port' = port \/ port' = [port EXCEPT !.closeLock = TRUE]
    BY <1>1 DEF CloseWait, CloseFd
  <2>2. /\ port'.MonitorThreadAlive = port.MonitorThreadAlive
        /\ port'.MonitorThreadLock = port.MonitorThreadLock
        /\ port'.monThread = port.monThread
        /\ port'.monThreadisInterrupted = port.monThreadisInterrupted
    BY <2>1
  <2>3. QED
    BY <2>1, <2>2, LoopAtKept
<1>2. CASE CloseInterrupted(a)
  <2>1. /\ pc[a] = "closeInterrupted" /\ UNCHANGED <<loop, index, eis, port>>
        /\ pc'[a] = IF port.monThreadisInterrupted THEN "nativeClose" ELSE "removeWait"
    BY <1>2 DEF CloseInterrupted
  <2>2. CASE port.monThreadisInterrupted
    <3>1. \A m \in Mon : ~(IsAlive(m) /\ port.monThread = m)
      BY <2>1, <2>2 DEF LoopAt, ThreadAt, OwnAt, Starting
    <3>2. \A m \in Mon : ThreadAt(m, "nativeClose")'
      BY <2>1 DEF LoopAt, ThreadAt, IsAlive, Starting, Told
    <3>3. QED
      BY <2>1, <2>2, <3>1, <3>2 DEF LoopAt, IsAlive
  <2>3. CASE ~port.monThreadisInterrupted
    BY <2>1, <2>3, LoopAtKept
  <2>4. QED
    BY <2>2, <2>3
<1>3. CASE NativeClose(a) \/ CloseReset(a)
  <2>1. /\ pc[a] \in {"nativeClose", "closeReset"} /\ pc'[a] \in {"closeReset", "idle"}
        /\ UNCHANGED <<loop, index, eis>>
        /\ port' = port \/ port' = [port EXCEPT !.fd = 0, !.closeLock = FALSE]
    BY <1>3 DEF NativeClose, CloseReset
  <2>2. port'.monThread = port.monThread /\ port'.MonitorThreadLock = port.MonitorThreadLock
    BY <2>1
  <2>3. \A m \in Mon : ~(IsAlive(m) /\ port.monThread = m)
    BY <2>1 DEF LoopAt, OwnAt
  <2>4. \A m \in Mon : ThreadAt(m, pc[a])'
    BY <2>1, <2>2 DEF LoopAt, ThreadAt, IsAlive, Starting, Told
  <2>5. QED
    BY <2>1, <2>2, <2>3, <2>4 DEF LoopAt, IsAlive
<1>4. QED
  BY <1>1, <1>2, <1>3 DEF Close

\* A stream method, of any thread, leaves the monitor threads and the managing thread alone.
LEMMA IoApart ==
  ASSUME TypeOK, NEW x \in Agent, InputOutput(x)
  PROVE  /\ UNCHANGED <<loop, index, op, hidden>>
         /\ port'.monThread = port.monThread
         /\ port'.MonitorThreadAlive = port.MonitorThreadAlive
         /\ port'.MonitorThreadLock = port.MonitorThreadLock /\ port'.fd = port.fd
         /\ port'.monThreadisInterrupted = port.monThreadisInterrupted
         /\ \A m \in Mon : eis'[m].fd = eis[m].fd /\ eis'[m].closing = eis[m].closing
         /\ \A b \in Agent \ {x} : pc'[b] = pc[b] /\ ref'[b] = ref[b]
         /\ pc[x] \in IoLoc /\ pc'[x] \in IoLoc \cup {"idle"}
<1> USE DEF TypeOK, PortType, Goto, portVars, loopVars, callVars, ghosts, localVars, IoLoc
<1>1. CASE IoCheck(x)
  BY <1>1 DEF IoCheck
<1>2. CASE LoadIOLocked(x)
  BY <1>2 DEF LoadIOLocked
<1>3. CASE StoreIOLocked(x)
  <2>1. \/ pc[x] = "incStore" /\ pc' = [pc EXCEPT ![x] = "ioNative"]
        \/ pc[x] = "incStore" /\ pc' = [pc EXCEPT ![x] = "ioWait"]
        \/ pc[x] = "decStore" /\ pc' = [pc EXCEPT ![x] = "idle"]
    BY <1>3 DEF StoreIOLocked
  <2>2. \E i : port' = [port EXCEPT !.IOLocked = i]
    BY <1>3 DEF StoreIOLocked
  <2>3. UNCHANGED <<loop, index, eis, op, ref, hidden>>
    BY <1>3 DEF StoreIOLocked
  <2>4. QED
    BY <2>1, <2>2, <2>3
<1>4. CASE IoWait(x)
  BY <1>4 DEF IoWait
<1>5. CASE NativeAccess(x)
  BY <1>5 DEF NativeAccess
<1>6. CASE ReadBegin(x)
  <2>1. \A m \in Mon : eis'[m].fd = eis[m].fd /\ eis'[m].closing = eis[m].closing
    BY <1>6, FlagOnly DEF ReadBegin
  <2>2. QED
    BY <1>6, <2>1 DEF ReadBegin
<1>7. CASE ReadEnd(x)
  <2>1. \A m \in Mon : eis'[m].fd = eis[m].fd /\ eis'[m].closing = eis[m].closing
    BY <1>7, FlagOnly DEF ReadEnd
  <2>2. QED
    BY <1>7, <2>1 DEF ReadEnd
<1>8. QED
  BY <1>1, <1>2, <1>3, <1>4, <1>5, <1>6, <1>7 DEF InputOutput

\* What is left of a sequence without an element was in it.
LEMMA JoinOfParts ==
  ASSUME NEW A \in Seq(Mon), NEW B \in Seq(Mon), NEW s \in Seq(Mon),
         NEW i \in 1 .. Len(s), Len(A) = i - 1, Len(B) = Len(s) - i,
         \A j \in 1 .. i - 1 : A[j] = s[j],
         \A j \in 1 .. Len(s) - i : B[j] = s[i + j],
         NEW k \in DOMAIN (A \o B)
  PROVE  \E j \in DOMAIN s : (A \o B)[k] = s[j]
<1> DEFINE r == A \o B
<1>1. /\ r \in Seq(Mon) /\ Len(r) = Len(A) + Len(B)
      /\ \A j \in 1 .. Len(A) + Len(B) : r[j] = IF j <= Len(A) THEN A[j] ELSE B[j - Len(A)]
  BY ConcatProperties
<1>2. k \in DOMAIN r
  OBVIOUS
<1> HIDE DEF r
<1>3. Len(s) \in Nat /\ DOMAIN s = 1 .. Len(s)
  OBVIOUS
<1>4. k \in 1 .. Len(s) - 1
  BY <1>1, <1>2, <1>3
<1>5. k \in 1 .. Len(A) + Len(B)
  BY <1>3, <1>4
<1>6. r[k] = IF k <= Len(A) THEN A[k] ELSE B[k - Len(A)]
  BY <1>1, <1>5, Zenon
<1>7. CASE k <= i - 1
  <2>1. k <= Len(A) /\ k \in 1 .. i - 1 /\ k \in DOMAIN s
    BY <1>3, <1>4, <1>7
  <2>2. r[k] = s[k] /\ k \in DOMAIN s
    BY <1>6, <2>1, Zenon
  <2>3. QED
    BY <2>2 DEF r
<1>8. CASE k > i - 1
  <2>1. k - (i - 1) \in 1 .. Len(s) - i /\ i + (k - (i - 1)) = k + 1
    BY <1>3, <1>4, <1>8
  <2>2. r[k] = B[k - (i - 1)]
    <3>1. ~(k <= Len(A)) /\ Len(A) = i - 1
      BY <1>3, <1>4, <1>8
    <3>2. QED
      BY <1>6, <3>1, Zenon
  <2>3. r[k] = s[k + 1] /\ k + 1 \in DOMAIN s
    BY <1>3, <1>4, <2>1, <2>2
  <2>4. QED
    BY <2>3 DEF r
<1>9. QED
  BY <1>4, <1>7, <1>8

LEMMA WithoutOne ==
  ASSUME NEW s \in Seq(Mon), NEW i \in 1 .. Len(s),
         NEW k \in DOMAIN (SubSeq(s, 1, i - 1) \o SubSeq(s, i + 1, Len(s)))
  PROVE  \E j \in DOMAIN s :
           (SubSeq(s, 1, i - 1) \o SubSeq(s, i + 1, Len(s)))[k] = s[j]
<1> DEFINE A == SubSeq(s, 1, i - 1)  B == SubSeq(s, i + 1, Len(s))
<1>1. /\ A \in Seq(Mon) /\ Len(A) = i - 1 /\ \A j \in 1 .. i - 1 : A[j] = s[j]
      /\ B \in Seq(Mon) /\ Len(B) = Len(s) - i /\ \A j \in 1 .. Len(s) - i : B[j] = s[i + j]
  OBVIOUS
<1>2. k \in DOMAIN (A \o B)
  OBVIOUS
<1> HIDE DEF A, B
<1>3. \E j \in DOMAIN s : (A \o B)[k] = s[j]
  BY <1>1, <1>2, JoinOfParts, Zenon
<1>4. QED
  BY <1>3 DEF A, B

LEMMA EventLoopKeepsLoops ==
  ASSUME TypeOK, NEW a \in App, LoopAt(pc[a], ref[a]), NEW m \in Mon, EventLoop(m)
  PROVE  LoopAt(pc[a], ref[a])'
<1> USE DEF TypeOK, PortType, Monitor, portVars, loopVars, callVars, localVars
<1>1. UNCHANGED <<pc, ref>>
  BY DEF EventLoop
<1>2. IsAlive(m)
  BY DEF EventLoop, Run, InitEis, InitThreads, UnlockMonitorThread, LoopExit,
         ReportDataAvailable, SendCheck, SendFlag, SendCall, CallbackReturn, IsAlive
<1>3. \A n \in Mon \ {m} : loop'[n] = loop[n] /\ eis'[n] = eis[n]
  BY DEF EventLoop, Run, InitEis, InitThreads, UnlockMonitorThread, LoopExit,
         ReportDataAvailable, SendCheck, SendFlag, SendCall, CallbackReturn
<1>4. \A n \in Mon \ {m} : /\ IsAlive(n)' = IsAlive(n) /\ Starting(n)' = Starting(n)
                           /\ Told(n)' = Told(n)
  BY <1>3 DEF IsAlive, Starting, Told
<1>5. CASE Starting(m)
  <2>1. /\ pc[a] = "startWait" /\ port.monThread = m
        /\ \A n \in Mon \ {m} : ~Starting(n) /\ (IsAlive(n) => Told(n))
        /\ port.monThreadisInterrupted => loop[m] = "run"
        /\ eis[m].closing => port.monThreadisInterrupted
        /\ loop[m] \in {"run", "initEis"} => ~eis[m].closing
    BY <1>2, <1>5 DEF LoopAt, ThreadAt, OwnAt, Starting, Told, IsAlive
  <2>2. /\ port'.monThread = m
        /\ Starting(m)' => port'.MonitorThreadLock
        /\ loop'[m] = "initEis" => ~eis'[m].closing
        /\ loop'[m] \in {"initEis", "initThreads", "unlockMonitor", "poll"}
        /\ ~port'.monThreadisInterrupted /\ ~eis'[m].closing
    <3>1. CASE Run(m)
      BY <2>1, <3>1, <1>5 DEF Run, LoopAt, ThreadAt
    <3>2. CASE InitEis(m)
      BY <2>1, <3>2, <1>5 DEF InitEis, LoopAt, ThreadAt
    <3>3. CASE InitThreads(m)
      BY <2>1, <3>3, <1>5 DEF InitThreads, LoopAt, ThreadAt
    <3>4. CASE UnlockMonitorThread(m)
      BY <2>1, <3>4, <1>5 DEF UnlockMonitorThread, Starting
    <3>5. QED
      BY <1>5, <3>1, <3>2, <3>3, <3>4
      DEF EventLoop, Starting, LoopExit, ReportDataAvailable, SendCheck, SendFlag, SendCall,
          CallbackReturn
  <2>3. \A n \in Mon \ {m} : ThreadAt(n, "startWait")'
    BY <1>3, <1>4, <2>1 DEF LoopAt, ThreadAt
  <2>4. ThreadAt(m, "startWait")' /\ OwnAt(m, "startWait")'
    BY <2>2 DEF ThreadAt, OwnAt
  <2>5. \A i \in DOMAIN index' : loop'[index'[i]] \notin {"new", "run", "initEis"}
    <3>1. \A i \in DOMAIN index :
            index[i] \in Mon /\ loop[index[i]] \notin {"new", "run", "initEis"}
      BY DEF LoopAt
    <3>2. \A i \in DOMAIN index : loop'[index[i]] \notin {"new", "run", "initEis"}
      <4>1. CASE loop'[m] # "initEis"
        BY <1>3, <2>2, <3>1, <4>1
      <4>2. CASE loop'[m] = "initEis"
        <5>1. loop[m] = "run"
          BY <1>5, <4>2 DEF EventLoop, Run, InitEis, InitThreads, UnlockMonitorThread, LoopExit,
             ReportDataAvailable, SendCheck, SendFlag, SendCall, CallbackReturn, Starting
        <5>2. QED
          BY <1>3, <3>1, <5>1
      <4>3. QED
        BY <4>1, <4>2
    <3>3. CASE InitEis(m)
      <4>1. index' = Append(index, m) /\ loop'[m] = "initThreads"
        BY <3>3 DEF InitEis
      <4>2. QED
        BY <3>2, <4>1
    <3>4. CASE ~InitEis(m)
      <4>1. index' = index
        BY <1>5, <3>4 DEF EventLoop, Run, InitThreads, UnlockMonitorThread, LoopExit,
           ReportDataAvailable, SendCheck, SendFlag, SendCall, CallbackReturn, Starting
      <4>2. QED
        BY <3>2, <4>1
    <3>5. QED
      BY <3>3, <3>4
  <2>6. QED
    BY <1>1, <2>1, <2>2, <2>3, <2>4, <2>5 DEF LoopAt
<1>6. CASE ~Starting(m)
  <2>1. /\ loop[m] \in {"poll", "send", "sendFlag", "sendCall", "callback"}
        /\ loop'[m] \in {"poll", "send", "sendFlag", "sendCall", "callback", "dead"}
        /\ UNCHANGED <<port, eis>>
        /\ loop'[m] = "dead" => eis[m].closing
        /\ Told(m) => loop'[m] \in {"poll", "dead"}
    BY <1>6 DEF EventLoop, Run, InitEis, InitThreads, UnlockMonitorThread, LoopExit,
           ReportDataAvailable, SendCheck, SendFlag, SendCall, CallbackReturn, Starting, Told
  <2>2. Told(m) => ~IsAlive(m)' \/ Told(m)'
    BY <2>1 DEF Told, IsAlive
  <2>3. \A n \in Mon \ {m} : ThreadAt(n, pc[a])'
    BY <1>1, <1>3, <1>4, <2>1 DEF LoopAt, ThreadAt
  <2>4. ThreadAt(m, pc[a])'
    BY <1>1, <1>2, <2>1, <2>2 DEF LoopAt, ThreadAt, Starting
  <2>5. \A n \in Mon : IsAlive(n)' /\ port'.monThread = n => OwnAt(n, pc[a])'
    <3>1. ASSUME NEW n \in Mon \ {m}, IsAlive(n)', port'.monThread = n PROVE OwnAt(n, pc[a])'
      BY <1>1, <1>3, <1>4, <2>1, <3>1 DEF LoopAt, OwnAt
    <3>2. ASSUME IsAlive(m)', port'.monThread = m PROVE OwnAt(m, pc[a])'
      BY <1>1, <1>2, <2>1, <2>2, <3>2 DEF LoopAt, OwnAt
    <3>3. QED
      BY <3>1, <3>2
  <2>6. \A i \in DOMAIN index' : loop'[index'[i]] \notin {"new", "run", "initEis"}
    <3>1. \A i \in DOMAIN index :
            index[i] \in Mon /\ loop'[index[i]] \notin {"new", "run", "initEis"}
      BY <1>3, <2>1 DEF LoopAt
    <3>2. \A k \in DOMAIN index' : \E j \in DOMAIN index : index'[k] = index[j]
      <4>1. CASE LoopExit(m)
        <5>1. PICK i \in 1 .. Len(index) :
                index' = SubSeq(index, 1, i - 1) \o SubSeq(index, i + 1, Len(index))
          BY <4>1 DEF LoopExit
        <5>2. index \in Seq(Mon)
          OBVIOUS
        <5>3. ASSUME NEW k \in DOMAIN (SubSeq(index, 1, i - 1)
                                         \o SubSeq(index, i + 1, Len(index)))
              PROVE  \E j \in DOMAIN index :
                       (SubSeq(index, 1, i - 1) \o SubSeq(index, i + 1, Len(index)))[k]
                         = index[j]
          BY <5>2, WithoutOne, Zenon
        <5>4. QED
          BY <5>1, <5>3, Zenon
      <4>2. CASE index' = index
        BY <4>2
      <4>3. QED
        BY <1>6, <4>1, <4>2 DEF EventLoop, Run, InitEis, InitThreads, UnlockMonitorThread,
           ReportDataAvailable, SendCheck, SendFlag, SendCall, CallbackReturn, Starting
    <3>3. QED
      BY <3>1, <3>2
  <2>7. QED
    BY <1>1, <2>1, <2>3, <2>4, <2>5, <2>6 DEF LoopAt
<1>7. QED
  BY <1>5, <1>6

\* A method that manages the port moves its own thread; only the end of the constructor
\* moves others.
LEMMA ManagingMoves ==
  ASSUME TypeOK, NEW a \in Agent, Add(a) \/ Remove(a) \/ NotifyOnDataAvailable(a) \/ Close(a)
  PROVE  /\ op' = op /\ pc[a] \in ManageLoc /\ pc'[a] \in ManageLoc \cup {"idle"}
         /\ \A b \in Agent \ {a} : \/ pc'[b] = pc[b]
                                   \/ pc[a] = "startWait" /\ pc[b] = "unborn" /\ pc'[b] = "idle"
         /\ pc[a] = "startMonitor" => pc'[a] = "startWait"
         /\ pc[a] = "startWait" => pc'[a] = "idle"
<1> USE DEF ManageLoc, AddLoc, RemoveLoc, NotifyLoc, CloseLoc, Goto, callVars, ghosts, localVars
<1> PICK S : pc \in [Agent -> S]
  BY DEF TypeOK
<1> HIDE DEF Agent
<1>1. CASE Add(a)
  <2>1. CASE AddCheck(a)
    BY <2>1 DEF AddCheck
  <2>2. CASE AddSet(a)
    BY <2>2 DEF AddSet
  <2>3. CASE AddAlive(a)
    BY <2>3 DEF AddAlive
  <2>4. CASE StartMonitor(a)
    BY <2>4 DEF StartMonitor
  <2>5. CASE StartWait(a)
    BY <2>5 DEF StartWait
  <2>6. QED
    BY <1>1, <2>1, <2>2, <2>3, <2>4, <2>5 DEF Add
<1>2. CASE Remove(a)
  <2>1. CASE RemoveWait(a)
    BY <2>1 DEF RemoveWait
  <2>2. CASE RemoveCheck(a)
    BY <2>2 DEF RemoveCheck, Return
  <2>3. CASE RemoveInterrupt(a)
    BY <2>3 DEF RemoveInterrupt
  <2>4. CASE InterruptEventLoop(a)
    BY <2>4 DEF InterruptEventLoop
  <2>5. CASE Join(a)
    BY <2>5 DEF Join
  <2>6. CASE Joined(a)
    BY <2>6 DEF Joined
  <2>7. CASE RemoveReset(a)
    BY <2>7 DEF RemoveReset, Return
  <2>8. QED
    BY <1>2, <2>1, <2>2, <2>3, <2>4, <2>5, <2>6, <2>7 DEF Remove
<1>3. CASE NotifyOnDataAvailable(a)
  <2>1. CASE NotifyWait(a)
    BY <2>1 DEF NotifyWait
  <2>2. CASE NotifyLock(a)
    BY <2>2 DEF NotifyLock
  <2>3. CASE NativeSetEventFlag(a)
    BY <2>3 DEF NativeSetEventFlag
  <2>4. CASE NotifyJava(a)
    BY <2>4 DEF NotifyJava
  <2>5. QED
    BY <1>3, <2>1, <2>2, <2>3, <2>4 DEF NotifyOnDataAvailable
<1>4. CASE Close(a)
  <2>1. CASE CloseWait(a)
    BY <2>1 DEF CloseWait
  <2>2. CASE CloseFd(a)
    BY <2>2 DEF CloseFd
  <2>3. CASE CloseInterrupted(a)
    BY <2>3 DEF CloseInterrupted
  <2>4. CASE NativeClose(a)
    BY <2>4 DEF NativeClose
  <2>5. CASE CloseReset(a)
    BY <2>5 DEF CloseReset
  <2>6. QED
    BY <1>4, <2>1, <2>2, <2>3, <2>4, <2>5 DEF Close
<1>5. QED
  BY <1>1, <1>2, <1>3, <1>4

\* A call: its thread was idle, and is at the entry of the method.
LEMMA CallMoves ==
  ASSUME TypeOK, NEW a \in Agent, NEW o \in Op, Call(a, o)
  PROVE  /\ pc[a] = "idle" /\ o \in Can[a] /\ op'[a] = o /\ pc'[a] = Entry(o)
         /\ \A b \in Agent \ {a} : pc'[b] = pc[b] /\ op'[b] = op[b]
         /\ UNCHANGED <<port, index, eis, loop, ref>>
         /\ IF o \in Io THEN Entry(o) = "ioCheck"
            ELSE Entry(o) \in {"addCheck", "removeWait", "notifyWait", "closeWait"}
<1>1. IF o \in Io THEN Entry(o) = "ioCheck"
      ELSE Entry(o) \in {"addCheck", "removeWait", "notifyWait", "closeWait"}
  BY DEF Entry, Op, Notify, Io, Input
<1>2. QED
  BY <1>1 DEF Call, TypeOK, Goto, portVars, loopVars, localVars

LEMMA ManagerInvStep ==
  ASSUME OneManager, TypeOK, ManagerInv, [Next]_vars
  PROVE  ManagerInv'
<1> USE DEF Agent
<1>1. ASSUME NEW x \in Agent,
             Add(x) \/ Remove(x) \/ NotifyOnDataAvailable(x) \/ Close(x)
      PROVE  ManagerInv'
  <2>1. /\ op' = op /\ pc[x] \in ManageLoc /\ pc'[x] \in ManageLoc \cup {"idle"}
        /\ \A b \in Agent \ {x} : \/ pc'[b] = pc[b]
                                  \/ pc[x] = "startWait" /\ pc[b] = "unborn" /\ pc'[b] = "idle"
        /\ pc[x] = "startMonitor" => pc'[x] = "startWait"
        /\ pc[x] = "startWait" => pc'[x] = "idle"
    BY <1>1, ManagingMoves
  <2>2. x \in App /\ x \notin Mon
    BY <2>1 DEF ManagerInv, IoLoc, ManageLoc, AddLoc, RemoveLoc, NotifyLoc, CloseLoc
  <2>3. \A m \in Mon : pc'[m] \in IoLoc \cup {"idle"}
    BY <2>1, <2>2 DEF ManagerInv
  <2>4. ASSUME NEW b \in App, pc'[b] \in ManageLoc
        PROVE  op'[b] \in Can[b] \ Io \/ Constructing(b)'
    <3>1. pc[b] \in ManageLoc
      BY <2>1, <2>4 DEF ManageLoc, AddLoc, RemoveLoc, NotifyLoc, CloseLoc
    <3>2. CASE op[b] \in Can[b] \ Io
      BY <2>1, <3>2
    <3>3. CASE Constructing(b)
      <4>1. b = x
        BY <2>1, <2>2, <3>3
        DEF Constructing, ManageLoc, AddLoc, RemoveLoc, NotifyLoc, CloseLoc
      <4>2. pc[x] = "startMonitor"
        BY <2>1, <2>4, <3>3, <4>1
        DEF Constructing, ManageLoc, AddLoc, RemoveLoc, NotifyLoc, CloseLoc
      <4>3. QED
        BY <2>1, <3>3, <4>1, <4>2 DEF Constructing
    <3>4. QED
      BY <3>1, <3>2, <3>3 DEF ManagerInv
  <2>5. QED
    BY <2>3, <2>4 DEF ManagerInv
<1>2. ASSUME NEW x \in Agent, InputOutput(x)
      PROVE  ManagerInv'
  <2>1. /\ op' = op /\ pc[x] \in IoLoc /\ pc'[x] \in IoLoc \cup {"idle"}
        /\ \A b \in Agent \ {x} : pc'[b] = pc[b]
    BY <1>2, IoApart
  <2>2. pc[x] # "unborn" /\ pc[x] \notin ManageLoc /\ pc'[x] \notin ManageLoc
    BY <2>1 DEF IoLoc, ManageLoc, AddLoc, RemoveLoc, NotifyLoc, CloseLoc
  <2>3. \A m \in Mon : pc'[m] \in IoLoc \cup {"idle"}
    BY <2>1 DEF ManagerInv
  <2>4. ASSUME NEW b \in App, pc'[b] \in ManageLoc
        PROVE  op'[b] \in Can[b] \ Io \/ Constructing(b)'
    <3>1. b # x /\ pc'[b] = pc[b] /\ op'[b] = op[b]
      BY <2>1, <2>2, <2>4
    <3>2. CASE Constructing(b)
      <4>1. x \notin App
        BY <2>2, <3>1, <3>2 DEF Constructing
      <4>2. QED
        BY <2>1, <3>1, <3>2, <4>1 DEF Constructing
    <3>3. QED
      BY <2>4, <3>1, <3>2 DEF ManagerInv
  <2>5. QED
    BY <2>3, <2>4 DEF ManagerInv
<1>3. ASSUME NEW x \in Agent, NEW o \in Op, Call(x, o)
      PROVE  ManagerInv'
  <2>1. /\ pc[x] = "idle" /\ o \in Can[x] /\ op'[x] = o /\ pc'[x] = Entry(o)
        /\ \A b \in Agent \ {x} : pc'[b] = pc[b] /\ op'[b] = op[b]
        /\ o \in Io => pc'[x] = "ioCheck"
    BY <1>3, CallMoves
  <2>2. x \in Mon => o \in Io
    BY <2>1, ThreadAssumption DEF OneManager
  <2>3. \A m \in Mon : pc'[m] \in IoLoc \cup {"idle"}
    BY <2>1, <2>2 DEF ManagerInv, IoLoc
  <2>4. ASSUME NEW b \in App, pc'[b] \in ManageLoc
        PROVE  op'[b] \in Can[b] \ Io \/ Constructing(b)'
    <3>1. CASE b = x
      BY <2>1, <2>4, <3>1 DEF ManageLoc, AddLoc, RemoveLoc, NotifyLoc, CloseLoc
    <3>2. CASE b # x
      <4>1. pc'[b] = pc[b] /\ op'[b] = op[b]
        BY <2>1, <3>2
      <4>2. CASE Constructing(b)
        <5>1. x \notin App
          BY <2>1, <3>2, <4>2 DEF Constructing
        <5>2. QED
          BY <2>1, <4>1, <4>2, <5>1 DEF Constructing
      <4>3. QED
        BY <2>4, <4>1, <4>2 DEF ManagerInv
    <3>3. QED
      BY <3>1, <3>2
  <2>5. QED
    BY <2>3, <2>4 DEF ManagerInv
<1>4. CASE UNCHANGED <<pc, op>>
  BY <1>4 DEF ManagerInv, Constructing
<1>5. QED
  BY <1>1, <1>2, <1>3, <1>4
  DEF Next, Step, EventLoop, Arrive, vars, callVars

LEMMA LoopInvStep ==
  ASSUME OneManager, TypeOK, ManagerInv, LoopInv, [Next]_vars
  PROVE  LoopInv'
<1> USE DEF Agent
<1> SUFFICES ASSUME ~hidden' PROVE LoopInv'
  BY DEF LoopInv
<1>0. ~hidden
  <2>1. CASE \E x \in Agent : Step(x)
    <3>1. PICK x \in Agent : Step(x)
      BY <2>1
    <3>2. CASE Add(x)
      BY <3>2 DEF Add, AddCheck, AddSet, AddAlive, StartMonitor, StartWait, ghosts
    <3>3. CASE Remove(x)
      BY <3>3 DEF Remove, RemoveWait, RemoveCheck, RemoveInterrupt, InterruptEventLoop, Join,
                  Joined, RemoveReset, ghosts
    <3>4. CASE NotifyOnDataAvailable(x)
      BY <3>4 DEF NotifyOnDataAvailable, NotifyWait, NotifyLock, NativeSetEventFlag, NotifyJava,
                  ghosts
    <3>5. CASE Close(x)
      BY <3>5 DEF Close, CloseWait, CloseFd, CloseInterrupted, NativeClose, CloseReset, ghosts
    <3>6. CASE InputOutput(x)
      BY <3>6, IoApart
    <3>7. QED
      BY <3>1, <3>2, <3>3, <3>4, <3>5, <3>6 DEF Step
  <2>2. CASE UNCHANGED hidden
    BY <2>2
  <2>3. QED
    BY <2>1, <2>2 DEF Next, Call, EventLoop, Arrive, vars, ghosts
<1>1. PICK a \in App : /\ \A b \in App \ {a} : pc[b] \notin ManageLoc
                       /\ LoopAt(pc[a], ref[a])
  BY <1>0 DEF LoopInv
<1>2. ASSUME NEW x \in Agent,
             Add(x) \/ Remove(x) \/ NotifyOnDataAvailable(x) \/ Close(x)
      PROVE  LoopInv'
  <2>1. /\ pc[x] \in ManageLoc
        /\ \A b \in Agent \ {x} : pc'[b] = pc[b] \/ pc'[b] = "idle"
    BY <1>2, ManagingMoves
  <2>2. x = a
    BY <1>1, <2>1 DEF ManagerInv, IoLoc, ManageLoc, AddLoc, RemoveLoc, NotifyLoc, CloseLoc
  <2>3. LoopAt(pc[a], ref[a])'
    BY <1>1, <1>2, <2>2, AddKeepsLoops, RemoveKeepsLoops, NotifyKeepsLoops, CloseKeepsLoops
  <2>4. \A b \in App \ {a} : pc'[b] \notin ManageLoc
    BY <1>1, <2>1, <2>2 DEF ManageLoc, AddLoc, RemoveLoc, NotifyLoc, CloseLoc
  <2>5. QED
    BY <2>3, <2>4 DEF LoopInv
<1>3. ASSUME NEW x \in Agent, InputOutput(x)
      PROVE  LoopInv'
  <2>1. /\ \A b \in Agent \ {x} : pc'[b] = pc[b] /\ ref'[b] = ref[b]
        /\ pc[x] \notin ManageLoc /\ pc'[x] \notin ManageLoc
    BY <1>3, IoApart DEF IoLoc, ManageLoc, AddLoc, RemoveLoc, NotifyLoc, CloseLoc
  <2>2. \/ pc'[a] = pc[a] /\ ref'[a] = ref[a]
        \/ /\ pc'[a] \notin {"startWait", "interruptLoop", "join", "joining", "removeReset",
                             "nativeClose", "closeReset", "startMonitor"}
           /\ pc[a] \notin {"startWait", "interruptLoop", "join", "joining", "removeReset"}
    BY <2>1 DEF ManageLoc, AddLoc, RemoveLoc, NotifyLoc, CloseLoc
  <2>3. LoopAt(pc[a], ref[a])'
    BY <1>1, <1>3, <2>2, IoApart, LoopAtKept
  <2>4. QED
    BY <1>1, <2>1, <2>3 DEF LoopInv
<1>4. ASSUME NEW x \in Agent, NEW o \in Op, Call(x, o)
      PROVE  LoopInv'
  <2>1. /\ pc[x] = "idle" /\ o \in Can[x] /\ pc'[x] = Entry(o)
        /\ \A b \in Agent \ {x} : pc'[b] = pc[b]
        /\ UNCHANGED <<port, index, eis, loop, ref>>
        /\ IF o \in Io THEN pc'[x] = "ioCheck"
           ELSE pc'[x] \in {"addCheck", "removeWait", "notifyWait", "closeWait"}
    BY <1>4, CallMoves
  <2>2. CASE o \in Io
    <3>1. \/ pc'[a] = pc[a]
          \/ pc'[a] = "ioCheck" /\ pc[a] = "idle"
      BY <2>1, <2>2
    <3>2. LoopAt(pc[a], ref[a])'
      BY <1>1, <2>1, <3>1, LoopAtKept
    <3>3. QED
      BY <1>1, <2>1, <2>2, <3>2 DEF LoopInv, ManageLoc, AddLoc, RemoveLoc, NotifyLoc, CloseLoc
  <2>3. CASE o \notin Io
    <3>0. x \in App
      BY <2>1, <2>3, ThreadAssumption DEF OneManager
    <3>1. \A b \in App : pc[b] \notin ManageLoc
      <4>1. SUFFICES ASSUME NEW b \in App, pc[b] \in ManageLoc PROVE FALSE
        OBVIOUS
      <4>2. b # x
        BY <2>1, <4>1 DEF ManageLoc, AddLoc, RemoveLoc, NotifyLoc, CloseLoc
      <4>3. op[b] \in Can[b] \ Io
        BY <2>1, <3>0, <4>1, <4>2 DEF ManagerInv, Constructing
      <4>4. QED
        BY <2>1, <3>0, <2>3, <4>2, <4>3 DEF OneManager
    <3>2. pc[a] \notin ManageLoc
      BY <3>1
    <3>3. pc[a] \notin {"startWait", "interruptLoop", "join", "joining", "removeReset"}
      BY <3>2 DEF ManageLoc, AddLoc, RemoveLoc
    <3>4. LoopAt(pc[x], ref[x])'
      BY <1>1, <2>1, <3>0, <2>3, <3>3, LoopAtKept
    <3>5. QED
      BY <2>1, <3>0, <3>1, <3>4 DEF LoopInv
  <2>4. QED
    BY <2>2, <2>3
<1>5. ASSUME NEW m \in Mon, EventLoop(m)
      PROVE  LoopInv'
  <2>1. LoopAt(pc[a], ref[a])'
    BY <1>1, <1>5, EventLoopKeepsLoops
  <2>2. QED
    BY <1>1, <1>5, <2>1 DEF LoopInv, EventLoop
<1>6. CASE UNCHANGED <<port, loopVars, pc, localVars>>
  BY <1>1, <1>6, LoopAtKept DEF LoopInv, loopVars, localVars
<1>7. QED
  BY <1>2, <1>3, <1>4, <1>5, <1>6 DEF Next, Step, Arrive, vars, portVars

\* No monitor thread goes on unknown to the port when one thread starts and stops them and
\* any others read and write: not when its listener outlasts the join of its removal, nor
\* when others are added then, up to a removal that finds an older structure in the list.
THEOREM NoLoopOrphaned ==
  ASSUME OneManager
  PROVE  Spec => []NoOrphanLoop
<1>1. LoopInv => NoOrphanLoop
  BY DEF LoopInv, LoopAt, ThreadAt, Told, NoOrphanLoop
<1>2. TypeOK /\ ManagerInv /\ LoopInv /\ [Next]_vars => ManagerInv' /\ LoopInv'
  BY ManagerInvStep, LoopInvStep
<1>3. QED
  BY <1>1, <1>2, LoopInvInit, TypeCorrect, PTL DEF Spec

\* For the same uses, only the port's monitor thread calls serialEvent, and not once it was
\* told to end.
THEOREM RemovedIsQuiet ==
  ASSUME OneManager
  PROVE  Spec => QuietAfterRemove
<1> DEFINE Quiet == \A m \in Mon : loop[m] = "sendCall" /\ loop'[m] = "callback"
                                  => hidden \/ (port.monThread = m /\ ~eis[m].closing)
<1>1. TypeOK /\ LoopInv /\ [Next]_vars => [Quiet]_vars
  <2> SUFFICES ASSUME TypeOK, LoopInv, Next, NEW m \in Mon,
                      loop[m] = "sendCall", loop'[m] = "callback", ~hidden
               PROVE  port.monThread = m /\ ~eis[m].closing
    BY DEF vars
  <2>1. ~port.monThreadisInterrupted
    <3>1. CASE \E n \in Mon : EventLoop(n)
      BY <3>1 DEF EventLoop, Run, InitEis, InitThreads, UnlockMonitorThread, LoopExit, Monitor,
         ReportDataAvailable, SendCheck, SendFlag, SendCall, CallbackReturn, TypeOK
    <3>2. CASE Arrive \/ \E x \in Agent : \E o \in Op : Call(x, o)
      BY <3>2 DEF Arrive, Call, loopVars
    <3>3. CASE \E x \in Agent : InputOutput(x)
      BY <3>3, IoApart
    <3>4. ASSUME NEW x \in Agent, Add(x) \/ Remove(x) \/ NotifyOnDataAvailable(x) \/ Close(x)
          PROVE  FALSE
      BY <3>4 DEF Add, AddCheck, AddSet, AddAlive, StartMonitor, StartWait, Remove, RemoveWait,
         RemoveCheck, RemoveInterrupt, InterruptEventLoop, Join, Joined, RemoveReset,
         NotifyOnDataAvailable, NotifyWait, NotifyLock, NativeSetEventFlag, NotifyJava, Close,
         CloseWait, CloseFd, CloseInterrupted, NativeClose, CloseReset, Monitor, TypeOK, loopVars
    <3>5. QED
      BY <3>1, <3>2, <3>3, <3>4 DEF Next, Step
  <2>2. PICK a \in App : LoopAt(pc[a], ref[a])
    BY DEF LoopInv
  <2>3. IsAlive(m) /\ ~Told(m)
    BY DEF IsAlive, Told
  <2>4. port.monThread = m
    BY <2>2, <2>3 DEF LoopAt, ThreadAt
  <2>5. QED
    BY <2>1, <2>2, <2>3, <2>4 DEF LoopAt, OwnAt
<1>2. TypeOK /\ ManagerInv /\ LoopInv /\ [Next]_vars => ManagerInv' /\ LoopInv'
  BY ManagerInvStep, LoopInvStep
<1>3. QED
  BY <1>1, <1>2, LoopInvInit, TypeCorrect, PTL DEF Spec, QuietAfterRemove

-----------------------------------------------------------------------------
(* Monitor threads that end with their port only, whoever closes it.       *)

\* Only close removes, and only the thread that may add, or the constructor, adds.
MethodInv ==
  \A a \in Agent :
    /\ pc[a] \in RemoveLoc => op[a] = "close"
    /\ pc[a] \in AddLoc => \/ op[a] = "add" /\ "add" \in Can[a]
                           \/ a \in App /\ Constructing(a)

Linked(m) == IsAlive(m) /\ loop[m] \notin {"run", "initEis"}

\* m is the only monitor thread that was ever started; when it can be found it is the only
\* one in the list, and it ends only when told to.
First(m) ==
  /\ m \in Mon
  /\ loop[m] # "new" /\ \A n \in Mon \ {m} : loop[n] = "new"
  /\ Linked(m) => index = <<m>> /\ eis[m].fd = port.fd
  /\ ~Linked(m) => index = <<>>
  /\ loop[m] = "dead" => eis[m].closing

\* The constructor is at work, and nothing else but the thread it starts.
Opening ==
  \E c \in App :
    /\ Constructing(c)
    /\ port.fd = 1 /\ ~port.SPEventListener
    /\ \A m \in Mon : pc[m] = "idle" /\ loop[m] \notin {"sendFlag", "sendCall", "callback"}
    /\ pc[c] = "startMonitor" => index = <<>> /\ \A m \in Mon : loop[m] = "new"
    /\ pc[c] = "startWait" => /\ First(port.monThread)
                              /\ Starting(port.monThread) => port.MonitorThreadLock
                              /\ port.monThreadisInterrupted => loop[port.monThread] = "run"

\* The first monitor thread is the port's, until the one thread that closes has told it to end.
Running ==
  /\ port.fd = 1 /\ \A a \in Agent : pc[a] \notin {"nativeClose", "closeReset"}
  /\ port.MonitorThreadAlive /\ \A a \in Agent : pc[a] \notin {"startMonitor", "startWait"}
  /\ First(port.monThread) /\ ~Starting(port.monThread)
  /\ port.monThreadisInterrupted =>
       \E a \in Agent : pc[a] \in {"interruptLoop", "join", "joining", "removeReset"}
  /\ \A a \in Agent : pc[a] \in {"join", "joining", "removeReset"} =>
       eis[port.monThread].closing

Ending(m) == IsAlive(m) => eis[m].closing /\ ~Starting(m)

\* No thread removes any more; what lives is about to end, or was started afterwards and is
\* the port's.
Stopped ==
  /\ port.fd = 0 \/ \E a \in Agent : pc[a] \in {"nativeClose", "closeReset"}
  /\ \A a \in Agent : pc[a] # "closeInterrupted" /\ pc[a] \notin RemoveLoc
  /\ \A m \in Mon : port.monThread = m \/ Ending(m)
  /\ \/ port.MonitorThreadAlive
     \/ \E a \in Agent : pc[a] = "startWait"
     \/ \A m \in Mon : Ending(m)
  /\ \A a \in Agent : pc[a] = "startMonitor" => ~port.MonitorThreadAlive

ListenerInv == MethodInv /\ (Opening \/ Running \/ Stopped)

LEMMA ListenerInvInit == Init => ListenerInv
<1> SUFFICES ASSUME Init PROVE ListenerInv
  OBVIOUS
<1>1. \A m \in Mon : pc[m] = "idle" /\ loop[m] = "new"
  BY ThreadAssumption DEF Init, Agent
<1>2. /\ pc[Creator] = "startMonitor" /\ op[Creator] = "open" /\ index = <<>>
      /\ \A b \in App \ {Creator} : pc[b] = "unborn"
      /\ port.fd = 1 /\ ~port.SPEventListener
  BY ThreadAssumption DEF Init, Agent
<1>3. Constructing(Creator)
  BY <1>2 DEF Constructing
<1>4. MethodInv
  BY <1>1, <1>2, <1>3, ThreadAssumption DEF MethodInv, Agent, AddLoc, RemoveLoc
<1>5. Opening
  BY <1>1, <1>2, <1>3, ThreadAssumption DEF Opening
<1>6. QED
  BY <1>4, <1>5 DEF ListenerInv

\* Where a thread is that takes a step of a method.
LEMMA StepPlace ==
  ASSUME NEW a \in Agent
  PROVE  /\ Add(a) => pc[a] \in AddLoc
         /\ Remove(a) => pc[a] \in RemoveLoc
         /\ NotifyOnDataAvailable(a) => pc[a] \in NotifyLoc
         /\ Close(a) => pc[a] \in CloseLoc
         /\ InputOutput(a) => pc[a] \in IoLoc
<1>1. Add(a) => pc[a] \in AddLoc
  BY DEF Add, AddCheck, AddSet, AddAlive, StartMonitor, StartWait, AddLoc
<1>2. Remove(a) => pc[a] \in RemoveLoc
  BY DEF Remove, RemoveWait, RemoveCheck, RemoveInterrupt, InterruptEventLoop, Join, Joined,
         RemoveReset, RemoveLoc
<1>3. NotifyOnDataAvailable(a) => pc[a] \in NotifyLoc
  BY DEF NotifyOnDataAvailable, NotifyWait, NotifyLock, NativeSetEventFlag, NotifyJava, NotifyLoc
<1>4. Close(a) => pc[a] \in CloseLoc
  BY DEF Close, CloseWait, CloseFd, CloseInterrupted, NativeClose, CloseReset, CloseLoc
<1>5. InputOutput(a) => pc[a] \in IoLoc
  BY DEF InputOutput, IoCheck, LoadIOLocked, StoreIOLocked, IoWait, NativeAccess, ReadBegin,
         ReadEnd, IoLoc
<1>6. QED
  BY <1>1, <1>2, <1>3, <1>4, <1>5

\* One thread is in addEventListener or in the constructor.
LEMMA OneAdds ==
  ASSUME OneListener, MethodInv, NEW a \in Agent, NEW b \in Agent,
         pc[a] \in AddLoc, pc[b] \in AddLoc
  PROVE  a = b
<1>1. CASE op[a] = "add" /\ "add" \in Can[a] /\ op[b] = "add" /\ "add" \in Can[b]
  BY <1>1 DEF OneListener
<1>2. CASE a \in App /\ b \in App /\ (Constructing(a) \/ Constructing(b))
  BY <1>2 DEF Constructing, AddLoc
<1>3. \A x \in Agent : pc[x] \in AddLoc => x \in App
  BY DEF MethodInv, OneListener
<1>4. QED
  BY <1>1, <1>2, <1>3 DEF MethodInv

\* One thread is past the test of the descriptor in close.
LEMMA OneCloses ==
  ASSUME CloseInv, MethodInv, NEW a \in Agent, NEW b \in Agent,
         pc[a] \in RemoveLoc \cup (CloseLoc \ {"closeWait"}),
         pc[b] \in RemoveLoc \cup (CloseLoc \ {"closeWait"})
  PROVE  a = b
<1>1. InClose(a) /\ InClose(b)
  BY DEF CloseInv, MethodInv, InClose, RemoveLoc, CloseLoc
<1>2. QED
  BY <1>1 DEF CloseInv

LEMMA MethodInvStep ==
  ASSUME OneListener, TypeOK, MethodInv, CloseInv, [Next]_vars
  PROVE  MethodInv'
<1>1. ASSUME NEW x \in Agent,
             Add(x) \/ Remove(x) \/ NotifyOnDataAvailable(x) \/ Close(x)
      PROVE  MethodInv'
  <2>1. /\ op' = op
        /\ \A b \in Agent \ {x} : \/ pc'[b] = pc[b]
                                  \/ pc[x] = "startWait" /\ pc[b] = "unborn" /\ pc'[b] = "idle"
        /\ pc[x] = "startMonitor" => pc'[x] = "startWait"
        /\ pc[x] = "startWait" => pc'[x] = "idle"
    BY <1>1, ManagingMoves
  <2>2. /\ pc'[x] \in RemoveLoc => pc[x] \in RemoveLoc \/ pc[x] = "closeInterrupted"
        /\ pc'[x] \in AddLoc => pc[x] \in AddLoc
    <3> USE DEF AddLoc, RemoveLoc, Goto
    <3> PICK S : pc \in [Agent -> S]
      BY DEF TypeOK
    <3>1. CASE Add(x)
      BY <3>1 DEF Add, AddCheck, AddSet, AddAlive, StartMonitor, StartWait
    <3>2. CASE Remove(x)
      BY <3>2, StepPlace, ManagingMoves DEF ManageLoc, NotifyLoc, CloseLoc, Remove, RemoveWait,
         RemoveCheck, RemoveInterrupt, InterruptEventLoop, Join, Joined, RemoveReset, Return
    <3>3. CASE NotifyOnDataAvailable(x)
      BY <3>3 DEF NotifyOnDataAvailable, NotifyWait, NotifyLock, NativeSetEventFlag, NotifyJava
    <3>4. CASE Close(x)
      BY <3>4 DEF Close, CloseWait, CloseFd, CloseInterrupted, NativeClose, CloseReset
    <3>5. QED
      BY <1>1, <3>1, <3>2, <3>3, <3>4
  <2>3. ASSUME NEW b \in Agent, pc'[b] \in RemoveLoc PROVE op'[b] = "close"
    <3>1. pc[b] \in RemoveLoc \/ pc[b] = "closeInterrupted"
      BY <2>1, <2>2, <2>3 DEF RemoveLoc
    <3>2. QED
      BY <2>1, <3>1 DEF MethodInv, CloseInv, CloseLoc
  <2>4. ASSUME NEW b \in Agent, pc'[b] \in AddLoc
        PROVE  \/ op'[b] = "add" /\ "add" \in Can[b]
               \/ b \in App /\ Constructing(b)'
    <3>1. pc[b] \in AddLoc
      BY <2>1, <2>2, <2>4 DEF AddLoc
    <3>2. CASE op[b] = "add" /\ "add" \in Can[b]
      BY <2>1, <3>2
    <3>3. CASE b \in App /\ Constructing(b)
      <4>1. CASE x = b
        <5>1. pc[b] = "startMonitor" /\ pc'[b] = "startWait"
          BY <2>1, <2>4, <3>3, <4>1 DEF Constructing, AddLoc
        <5>2. \A u \in App \ {b} : pc'[u] = "unborn"
          BY <2>1, <3>3, <4>1, <5>1 DEF Constructing, Agent
        <5>3. QED
          BY <2>1, <3>3, <5>1, <5>2 DEF Constructing
      <4>2. CASE x # b
        <5>1. pc[x] # "startWait"
          BY <3>1, <4>2, OneAdds DEF AddLoc
        <5>2. QED
          BY <2>1, <3>3, <4>2, <5>1, <1>1, StepPlace
          DEF Constructing, Agent, AddLoc, RemoveLoc, NotifyLoc, CloseLoc
      <4>3. QED
        BY <4>1, <4>2
    <3>4. QED
      BY <3>1, <3>2, <3>3 DEF MethodInv
  <2>5. QED
    BY <2>3, <2>4 DEF MethodInv
<1>2. ASSUME NEW x \in Agent, InputOutput(x)
      PROVE  MethodInv'
  <2>1. /\ op' = op /\ pc[x] \in IoLoc /\ pc'[x] \in IoLoc \cup {"idle"}
        /\ \A b \in Agent \ {x} : pc'[b] = pc[b]
    BY <1>2, IoApart
  <2>2. pc[x] # "unborn" /\ pc[x] \notin AddLoc /\ pc'[x] \notin AddLoc \cup RemoveLoc
    BY <2>1 DEF IoLoc, AddLoc, RemoveLoc
  <2>3. \A b \in Agent : b \in App /\ Constructing(b) /\ x # b => Constructing(b)'
    BY <2>1, <2>2 DEF Constructing, Agent
  <2>4. QED
    BY <2>1, <2>2, <2>3 DEF MethodInv
<1>3. ASSUME NEW x \in Agent, NEW o \in Op, Call(x, o)
      PROVE  MethodInv'
  <2>1. /\ pc[x] = "idle" /\ o \in Can[x] /\ op'[x] = o /\ pc'[x] = Entry(o)
        /\ \A b \in Agent \ {x} : pc'[b] = pc[b] /\ op'[b] = op[b]
    BY <1>3, CallMoves
  <2>2. o # "remove"
    BY <2>1 DEF OneListener
  <2>3. pc'[x] \notin RemoveLoc /\ (pc'[x] \in AddLoc => o = "add")
    BY <2>1, <2>2 DEF Entry, Op, Notify, Io, Input, RemoveLoc, AddLoc
  <2>4. \A b \in Agent : b \in App /\ Constructing(b) /\ x # b => Constructing(b)'
    BY <2>1 DEF Constructing, Agent
  <2>5. QED
    BY <2>1, <2>3, <2>4 DEF MethodInv
<1>4. CASE UNCHANGED <<pc, op>>
  BY <1>4 DEF MethodInv, Constructing
<1>5. QED
  BY <1>1, <1>2, <1>3, <1>4
  DEF Next, Step, EventLoop, Arrive, vars, callVars, ghosts

\* The places of threads that the phases speak of.
PhaseLoc == RemoveLoc \cup {"startMonitor", "startWait", "closeInterrupted", "nativeClose",
                            "closeReset"}

\* What is said of a monitor thread stays true while it and its structure are left alone.
LEMMA MonitorKept ==
  ASSUME UNCHANGED <<loop, index>>, port'.fd = port.fd,
         \A m \in Mon : eis'[m].fd = eis[m].fd /\ eis'[m].closing = eis[m].closing
  PROVE  \A m : /\ First(m) => First(m)'
                /\ Starting(m)' = Starting(m)
                /\ m \in Mon /\ Ending(m) => Ending(m)'
  BY DEF First, Starting, Ending, IsAlive, Linked

\* A step that moves no thread into, out of or between those places, and leaves alone the
\* monitor threads and the fields that tell of them, keeps the phase.
LEMMA PhaseKept ==
  ASSUME Running \/ Stopped, UNCHANGED <<loop, index>>,
         port'.fd = port.fd, port'.monThread = port.monThread,
         port'.MonitorThreadAlive = port.MonitorThreadAlive,
         port'.monThreadisInterrupted = port.monThreadisInterrupted,
         \A m \in Mon : eis'[m].fd = eis[m].fd /\ eis'[m].closing = eis[m].closing,
         \A b \in Agent : \/ pc'[b] = pc[b]
                          \/ pc[b] \notin PhaseLoc /\ pc'[b] \notin PhaseLoc
  PROVE  Running' \/ Stopped'
<1>1. \A b \in Agent : \A l \in PhaseLoc : (pc'[b] = l) <=> (pc[b] = l)
  OBVIOUS
<1>2. CASE Running
  <2>1. \A b \in Agent : pc'[b] \in {"join", "joining", "removeReset"} <=>
                           pc[b] \in {"join", "joining", "removeReset"}
    BY <1>1 DEF PhaseLoc, RemoveLoc
  <2>2. \A b \in Agent : pc'[b] = "interruptLoop" <=> pc[b] = "interruptLoop"
    BY <1>1 DEF PhaseLoc, RemoveLoc
  <2>3. \A b \in Agent : pc'[b] \notin {"nativeClose", "closeReset", "startMonitor", "startWait"}
    BY <1>1, <1>2 DEF PhaseLoc, Running
  <2>4. First(port.monThread)' /\ ~Starting(port.monThread)'
    BY <1>2, MonitorKept DEF Running
  <2>5. eis'[port'.monThread].closing = eis[port.monThread].closing
    BY <1>2 DEF Running, First
  <2>6. QED
    BY <1>2, <2>1, <2>2, <2>3, <2>4, <2>5 DEF Running
<1>3. CASE Stopped
  <2>1. port'.fd = 0 \/ \E a \in Agent : pc'[a] \in {"nativeClose", "closeReset"}
    BY <1>1, <1>3 DEF Stopped, PhaseLoc
  <2>2. \A a \in Agent : pc'[a] # "closeInterrupted" /\ pc'[a] \notin RemoveLoc
    BY <1>1, <1>3 DEF Stopped, PhaseLoc
  <2>3. \A m \in Mon : Ending(m) => Ending(m)'
    BY MonitorKept
  <2>4. (\E a \in Agent : pc[a] = "startWait") => \E a \in Agent : pc'[a] = "startWait"
    BY <1>1 DEF PhaseLoc
  <2>5. \A a \in Agent : pc'[a] = "startMonitor" => pc[a] = "startMonitor"
    BY <1>1 DEF PhaseLoc
  <2>6. QED
    BY <1>3, <2>1, <2>2, <2>3, <2>4, <2>5 DEF Stopped
<1>4. QED
  BY <1>2, <1>3

\* While the constructor is at work, it and the monitor thread it has started take the steps.
LEMMA OpeningStep ==
  ASSUME OneListener, TypeOK, Opening, [Next]_vars
  PROVE  Opening' \/ Running'
<1> USE DEF Agent
<1>1. PICK c \in App :
        /\ Constructing(c)
        /\ port.fd = 1 /\ ~port.SPEventListener
        /\ \A m \in Mon : pc[m] = "idle" /\ loop[m] \notin {"sendFlag", "sendCall", "callback"}
        /\ pc[c] = "startMonitor" => index = <<>> /\ \A m \in Mon : loop[m] = "new"
        /\ pc[c] = "startWait" => /\ First(port.monThread)
                                  /\ Starting(port.monThread) => port.MonitorThreadLock
                                  /\ port.monThreadisInterrupted => loop[port.monThread] = "run"
  BY DEF Opening
<1>2. ASSUME NEW x \in Agent, Step(x)
      PROVE  Opening' \/ Running'
  <2>1. x = c
    BY <1>1, <1>2, StepPlace DEF Step, Constructing, AddLoc, RemoveLoc, NotifyLoc, CloseLoc, IoLoc
  <2>2. StartMonitor(c) \/ StartWait(c)
    <3>1. Add(c)
      BY <1>1, <1>2, <2>1, StepPlace
      DEF Step, Constructing, AddLoc, RemoveLoc, NotifyLoc, CloseLoc, IoLoc
    <3>2. QED
      BY <1>1, <3>1 DEF Add, AddCheck, AddSet, AddAlive, Constructing
  <2>3. CASE StartMonitor(c)
    <3>1. PICK n \in Mon : /\ loop[n] = "new" /\ loop' = [loop EXCEPT ![n] = "run"]
                           /\ port' = [port EXCEPT !.MonitorThreadLock = TRUE, !.monThread = n]
      BY <2>3 DEF StartMonitor, Monitor
    <3>2. /\ pc[c] = "startMonitor" /\ pc' = [pc EXCEPT ![c] = "startWait"]
          /\ UNCHANGED <<index, eis, op>>
      BY <2>3 DEF StartMonitor, Goto, callVars, ghosts
    <3>3. pc'[c] = "startWait" /\ \A b \in Agent \ {c} : pc'[b] = pc[b]
      BY <3>2 DEF TypeOK
    <3>4. loop'[n] = "run" /\ \A m \in Mon \ {n} : loop'[m] = "new"
      BY <1>1, <3>1, <3>2 DEF TypeOK
    <3>5. /\ port'.monThread = n /\ port'.MonitorThreadLock
          /\ port'.fd = port.fd /\ port'.SPEventListener = port.SPEventListener
      BY <3>1 DEF TypeOK, PortType
    <3>6. First(n)'
      BY <1>1, <3>2, <3>4 DEF First, Linked, IsAlive
    <3>7. Constructing(c)'
      BY <1>1, <3>2, <3>3 DEF Constructing
    <3>8. \A m \in Mon : pc'[m] = "idle" /\ loop'[m] \notin {"sendFlag", "sendCall", "callback"}
      BY <1>1, <3>3, <3>4, ThreadAssumption
    <3>9. QED
      BY <1>1, <3>3, <3>4, <3>5, <3>6, <3>7, <3>8 DEF Opening
  <2>4. CASE StartWait(c)
    <3>1. /\ pc[c] = "startWait" /\ ~port.MonitorThreadLock
          /\ UNCHANGED <<index, eis, loop>>
          /\ port' = [port EXCEPT !.MonitorThreadAlive = TRUE]
          /\ \A b \in Agent : pc'[b] = IF b = c \/ pc[b] = "unborn" THEN "idle" ELSE pc[b]
      BY <2>4 DEF StartWait, loopVars
    <3>2. /\ port'.MonitorThreadAlive /\ port'.fd = 1 /\ port'.monThread = port.monThread
      BY <1>1, <3>1 DEF TypeOK, PortType
    <3>3. \A b \in Agent : pc'[b] = "idle"
      BY <1>1, <3>1 DEF Constructing
    <3>4. First(port.monThread)' /\ ~Starting(port.monThread)'
      BY <1>1, <3>1, <3>2 DEF First, Starting, Linked, IsAlive
    <3>5. ~port'.monThreadisInterrupted
      BY <1>1, <3>1 DEF Starting, TypeOK, PortType
    <3>6. QED
      BY <3>2, <3>3, <3>4, <3>5 DEF Running
  <2>5. QED
    BY <2>2, <2>3, <2>4
<1>3. ASSUME NEW x \in Agent, NEW o \in Op, Call(x, o)
      PROVE  FALSE
  BY <1>1, <1>3 DEF Call, Constructing
<1>4. ASSUME NEW m \in Mon, EventLoop(m)
      PROVE  Opening'
  <2>1. UNCHANGED <<pc, op>>
    BY <1>4 DEF EventLoop, callVars, ghosts
  <2>2. loop[m] \notin {"new", "dead"} /\ \E l : loop' = [loop EXCEPT ![m] = l]
    BY <1>4 DEF EventLoop, Run, InitEis, InitThreads, UnlockMonitorThread, LoopExit,
       ReportDataAvailable, SendCheck, SendFlag, SendCall, CallbackReturn, Monitor
  <2>3. pc[c] = "startWait" /\ m = port.monThread /\ First(m)
    BY <1>1, <2>2 DEF Constructing, First
  <2>4. \A n \in Mon \ {m} : loop'[n] = "new"
    BY <2>2, <2>3 DEF First, TypeOK
  <2>5. /\ port'.fd = port.fd /\ port'.SPEventListener = port.SPEventListener
        /\ port'.monThread = m
        /\ First(m)' /\ loop'[m] \notin {"sendFlag", "sendCall", "callback"}
        /\ Starting(m)' => port'.MonitorThreadLock
        /\ port'.monThreadisInterrupted => loop'[m] = "run"
    <3> USE DEF Monitor, TypeOK, PortType, portVars
    <3>1. CASE Run(m)
      <4>1. /\ loop[m] = "run" /\ loop'[m] = "initEis" /\ UNCHANGED <<index, eis>>
            /\ port' = [port EXCEPT !.monThreadisInterrupted = FALSE]
        BY <3>1 DEF Run
      <4>2. QED
        BY <1>1, <2>3, <2>4, <4>1 DEF First, Starting, Linked, IsAlive
    <3>2. CASE InitEis(m)
      <4>1. /\ loop[m] = "initEis" /\ loop'[m] = "initThreads" /\ port' = port
            /\ eis'[m].fd = port.fd /\ index' = Append(index, m)
        BY <3>2 DEF InitEis
      <4>2. index' = <<m>>
        BY <2>3, <4>1 DEF First, Linked
      <4>3. QED
        BY <1>1, <2>3, <2>4, <4>1, <4>2 DEF First, Starting, Linked, IsAlive
    <3>3. CASE InitThreads(m)
      <4>1. /\ loop[m] = "initThreads" /\ loop'[m] = "unlockMonitor" /\ UNCHANGED <<index, eis>>
            /\ port' = [port EXCEPT !.eis = m]
        BY <3>3 DEF InitThreads
      <4>2. QED
        BY <1>1, <2>3, <2>4, <4>1 DEF First, Starting, Linked, IsAlive
    <3>4. CASE UnlockMonitorThread(m)
      <4>1. /\ loop[m] = "unlockMonitor" /\ loop'[m] = "poll" /\ UNCHANGED <<index, eis>>
            /\ port' = [port EXCEPT !.MonitorThreadLock = FALSE]
        BY <3>4 DEF UnlockMonitorThread
      <4>2. QED
        BY <1>1, <2>3, <2>4, <4>1 DEF First, Starting, Linked, IsAlive
    <3>5. CASE LoopExit(m)
      <4>1. loop[m] = "poll" /\ loop'[m] = "dead" /\ UNCHANGED <<port, eis>> /\ eis[m].closing
        BY <3>5 DEF LoopExit
      <4>2. index = <<m>>
        BY <2>3, <4>1 DEF First, Linked, IsAlive
      <4>3. index' = <<>>
        BY <3>5, <4>2 DEF LoopExit
      <4>4. QED
        BY <1>1, <2>3, <2>4, <4>1, <4>3 DEF First, Starting, Linked, IsAlive
    <3>6. CASE ReportDataAvailable(m) \/ SendCheck(m)
      <4>1. /\ loop[m] \in {"poll", "send"} /\ loop'[m] \in {"poll", "send"}
            /\ UNCHANGED <<port, index, eis>>
        BY <1>1, <3>6 DEF ReportDataAvailable, SendCheck
      <4>2. QED
        BY <1>1, <2>3, <2>4, <4>1 DEF First, Starting, Linked, IsAlive
    <3>7. QED
      BY <1>1, <1>4, <3>1, <3>2, <3>3, <3>4, <3>5, <3>6
      DEF EventLoop, SendFlag, SendCall, CallbackReturn
  <2>6. QED
    BY <1>1, <2>1, <2>3, <2>4, <2>5 DEF Opening, Constructing
<1>5. CASE UNCHANGED <<port, loopVars, pc, op>>
  BY <1>1, <1>5 DEF Opening, Constructing, First, Starting, Linked, IsAlive, loopVars
<1>6. QED
  BY <1>2, <1>3, <1>4, <1>5 DEF Next, Arrive, vars, portVars, callVars, ghosts

\* The steps that move between the places of PhaseLoc are those named here: the others are
\* covered by PhaseKept.
LEMMA QuietSteps ==
  ASSUME OneListener, TypeOK, Running \/ Stopped, NEW x \in Agent,
         \/ AddCheck(x) \/ AddSet(x) \/ (AddAlive(x) /\ port.MonitorThreadAlive)
         \/ NotifyOnDataAvailable(x)
         \/ CloseWait(x) \/ (CloseFd(x) /\ port.fd <= 0)
         \/ InputOutput(x)
         \/ \E o \in Op : Call(x, o)
  PROVE  Running' \/ Stopped'
<1> DEFINE Same == /\ UNCHANGED <<loop, index>>
                   /\ port'.fd = port.fd /\ port'.monThread = port.monThread
                   /\ port'.MonitorThreadAlive = port.MonitorThreadAlive
                   /\ port'.monThreadisInterrupted = port.monThreadisInterrupted
                   /\ \A m \in Mon : /\ eis'[m].fd = eis[m].fd
                                     /\ eis'[m].closing = eis[m].closing
           Moves == \A b \in Agent : \/ pc'[b] = pc[b]
                                     \/ pc[b] \notin PhaseLoc /\ pc'[b] \notin PhaseLoc
<1> SUFFICES Same /\ Moves
  <2> HIDE DEF Moves
  <2>1. Same /\ Moves => Running' \/ Stopped'
    <3> USE DEF Moves
    <3>1. QED
      BY PhaseKept
  <2>2. QED
    BY <2>1
<1> USE DEF PhaseLoc, RemoveLoc
<1>1. CASE \/ AddCheck(x) \/ AddSet(x) \/ (AddAlive(x) /\ port.MonitorThreadAlive)
           \/ CloseWait(x) \/ (CloseFd(x) /\ port.fd <= 0)
  <2>1. Same
    BY <1>1 DEF AddCheck, AddSet, AddAlive, CloseWait, CloseFd, TypeOK, PortType, portVars,
       loopVars
  <2>2. Moves
    BY <1>1 DEF AddCheck, AddSet, AddAlive, CloseWait, CloseFd, TypeOK, Goto
  <2>3. QED
    BY <2>1, <2>2
<1>2. CASE NotifyOnDataAvailable(x)
  <2>1. Same
    <3> USE DEF TypeOK, PortType, portVars, loopVars
    <3>1. CASE NotifyWait(x) \/ NotifyLock(x) \/ NotifyJava(x)
      BY <3>1 DEF NotifyWait, NotifyLock, NotifyJava
    <3>2. CASE NativeSetEventFlag(x)
      <4>1. eis' = eis \/ \E n : eis' = [eis EXCEPT ![n].flag = (op[x] = "notifyOn")]
        BY <3>2 DEF NativeSetEventFlag
      <4>2. \A m \in Mon : eis'[m].fd = eis[m].fd /\ eis'[m].closing = eis[m].closing
        <5>1. CASE eis' = eis
          BY <5>1
        <5>2. CASE \E n : eis' = [eis EXCEPT ![n].flag = (op[x] = "notifyOn")]
          BY <5>2, FlagOnly
        <5>3. QED
          BY <4>1, <5>1, <5>2
      <4>3. QED
        BY <3>2, <4>2 DEF NativeSetEventFlag
    <3>3. QED
      BY <1>2, <3>1, <3>2 DEF NotifyOnDataAvailable
  <2>2. Moves
    BY <1>2 DEF NotifyOnDataAvailable, NotifyWait, NotifyLock, NativeSetEventFlag, NotifyJava,
       TypeOK, Goto
  <2>3. QED
    BY <2>1, <2>2
<1>3. CASE InputOutput(x)
  BY <1>3, IoApart DEF IoLoc
<1>4. ASSUME NEW o \in Op, Call(x, o)
      PROVE  Same /\ Moves
  <2>1. o # "remove"
    BY <1>4, CallMoves DEF OneListener
  <2>2. pc[x] \notin PhaseLoc /\ Entry(o) \notin PhaseLoc
    BY <1>4, <2>1, CallMoves DEF Entry, Op, Notify, Io, Input
  <2>3. QED
    BY <1>4, <2>2, CallMoves
<1>5. QED
  BY <1>1, <1>2, <1>3, <1>4

\* The thread that closes is the only one that may have interrupted the port.
LEMMA RunningStep ==
  ASSUME OneListener, TypeOK, MethodInv, CloseInv, Running, [Next]_vars
  PROVE  Running' \/ Stopped'
<1> DEFINE n == port.monThread
<1>1. /\ n \in Mon /\ n # None /\ First(n) /\ ~Starting(n)
  BY ThreadAssumption DEF Running, First
<1>2. ASSUME NEW x \in Agent, Add(x)
      PROVE  Running' \/ Stopped'
  <2>1. port.MonitorThreadAlive /\ pc[x] \notin {"startMonitor", "startWait"}
    BY DEF Running
  <2>2. QED
    BY <1>2, <2>1, QuietSteps DEF Add, StartMonitor, StartWait
<1>3. ASSUME NEW x \in Agent, Remove(x)
      PROVE  Running' \/ Stopped'
  <2>1. /\ pc[x] \in RemoveLoc /\ op[x] = "close"
        /\ \A b \in Agent \ {x} : pc[b] \notin RemoveLoc \cup (CloseLoc \ {"closeWait"})
    BY <1>3, StepPlace, OneCloses DEF MethodInv
  <2>2. \A b \in Agent \ {x} : pc'[b] = pc[b]
    BY <1>3, <2>1, ManagingMoves DEF RemoveLoc
  <2>3. ASSUME UNCHANGED <<loop, index>>,
               port'.fd = port.fd, port'.monThread = port.monThread,
               port'.MonitorThreadAlive = port.MonitorThreadAlive,
               \A m \in Mon : eis'[m].fd = eis[m].fd /\ (eis[m].closing => eis'[m].closing),
               pc'[x] \in RemoveLoc,
               pc'[x] \in {"join", "joining", "removeReset"} => eis'[n].closing,
               port'.monThreadisInterrupted =>
                 pc'[x] \in {"interruptLoop", "join", "joining", "removeReset"}
        PROVE  Running'
    <3>1. First(n)' /\ ~Starting(n)'
      BY <1>1, <2>3 DEF First, Starting, Linked, IsAlive
    <3>2. \A b \in Agent : pc'[b] \notin {"nativeClose", "closeReset", "startMonitor", "startWait"}
      BY <2>1, <2>2, <2>3 DEF Running, RemoveLoc
    <3>3. \A b \in Agent : pc'[b] \in {"join", "joining", "removeReset"} => b = x
      BY <2>1, <2>2 DEF RemoveLoc
    <3>4. QED
      BY <2>3, <3>1, <3>2, <3>3 DEF Running
  <2>4. port.monThreadisInterrupted =>
          pc[x] \in {"interruptLoop", "join", "joining", "removeReset"}
    BY <2>1 DEF Running, RemoveLoc
  <2>5. /\ ~IsAlive(n) => eis[n].closing
        /\ pc[x] \in {"join", "joining", "removeReset"} => eis[n].closing
    BY <1>1 DEF Running, First, IsAlive
  <2> USE DEF TypeOK, PortType, Goto, portVars, loopVars
  <2>6. CASE RemoveWait(x)
    BY <2>3, <2>4, <2>6 DEF RemoveWait, RemoveLoc
  <2>7. CASE RemoveCheck(x)
    BY <1>1, <2>3, <2>4, <2>5, <2>7 DEF RemoveCheck, RemoveLoc
  <2>8. CASE RemoveInterrupt(x)
    BY <2>3, <2>8 DEF RemoveInterrupt, RemoveLoc
  <2>9. CASE InterruptEventLoop(x)
    <3>1. PICK m \in WithFd(port.fd) : eis' = [eis EXCEPT ![m].closing = TRUE]
      BY <2>9 DEF InterruptEventLoop
    <3>2. m = n
      BY <1>1, <3>1 DEF First, WithFd
    <3>3. \A u \in Mon : eis'[u].fd = eis[u].fd /\ (eis[u].closing => eis'[u].closing)
      BY <3>1, <3>2, <1>1 DEF EisType
    <3>4. eis'[n].closing
      BY <1>1, <3>1, <3>2 DEF EisType
    <3>5. pc'[x] = "join" /\ UNCHANGED <<loop, index, port>>
      BY <2>9 DEF InterruptEventLoop
    <3>6. QED
      BY <2>3, <3>3, <3>4, <3>5 DEF RemoveLoc
  <2>10. CASE Join(x)
    BY <1>1, <2>3, <2>4, <2>5, <2>10 DEF Join, RemoveLoc
  <2>11. CASE Joined(x)
    BY <2>3, <2>4, <2>5, <2>11 DEF Joined, RemoveLoc
  <2>12. CASE RemoveReset(x)
    <3>1. /\ pc[x] = "removeReset" /\ pc'[x] = "nativeClose" /\ UNCHANGED <<loop, index, eis>>
          /\ ~port'.MonitorThreadAlive
      BY <2>1, <2>12 DEF RemoveReset, Return
    <3>2. \A m \in Mon : Ending(m)'
      BY <1>1, <2>5, <3>1 DEF Ending, IsAlive, Starting, First
    <3>3. \A b \in Agent : pc'[b] \notin RemoveLoc \cup {"closeInterrupted"}
      BY <2>1, <2>2, <3>1 DEF RemoveLoc, CloseLoc
    <3>4. QED
      BY <3>1, <3>2, <3>3 DEF Stopped
  <2>13. QED
    BY <1>3, <2>6, <2>7, <2>8, <2>9, <2>10, <2>11, <2>12 DEF Remove
<1>4. ASSUME NEW x \in Agent, Close(x)
      PROVE  Running' \/ Stopped'
  <2>1. pc[x] \notin {"nativeClose", "closeReset"}
    BY DEF Running
  <2>2. CASE CloseWait(x) \/ (CloseFd(x) /\ port.fd <= 0)
    BY <2>2, QuietSteps
  <2>3. CASE (CloseFd(x) /\ port.fd > 0) \/ CloseInterrupted(x)
    <3>1. /\ pc[x] \in {"closeFd", "closeInterrupted"}
          /\ pc' = [pc EXCEPT ![x] = IF pc[x] = "closeFd" THEN "closeInterrupted"
                                     ELSE IF port.monThreadisInterrupted THEN "nativeClose"
                                     ELSE "removeWait"]
          /\ UNCHANGED <<port, loop, index, eis>>
      BY <2>3 DEF CloseFd, CloseInterrupted, Goto, portVars, loopVars, TypeOK, PortType
    <3>2. \A b \in Agent : pc[b] \notin RemoveLoc
      BY <3>1, OneCloses DEF CloseLoc, RemoveLoc
    <3>3. ~port.monThreadisInterrupted
      BY <3>2 DEF Running, RemoveLoc
    <3>4. /\ pc'[x] \in {"closeInterrupted", "removeWait"}
          /\ \A b \in Agent \ {x} : pc'[b] = pc[b]
      BY <3>1, <3>3 DEF TypeOK
    <3>5. First(n)' /\ ~Starting(n)'
      BY <1>1, <3>1 DEF First, Starting, Linked, IsAlive
    <3>6. QED
      BY <3>1, <3>2, <3>3, <3>4, <3>5 DEF Running, RemoveLoc
  <2>4. port.fd <= 0 \/ port.fd > 0
    BY DEF TypeOK, PortType
  <2>5. QED
    BY <1>4, <2>1, <2>2, <2>3, <2>4 DEF Close, NativeClose, CloseReset
<1>5. ASSUME NEW x \in Agent, InputOutput(x) \/ NotifyOnDataAvailable(x) \/ \E o \in Op : Call(x, o)
      PROVE  Running' \/ Stopped'
  BY <1>5, QuietSteps
<1>6. ASSUME NEW m \in Mon, EventLoop(m)
      PROVE  Running'
  <2>1. UNCHANGED pc
    BY <1>6 DEF EventLoop
  <2>2. loop[m] \notin {"new", "dead"} /\ \E l : loop' = [loop EXCEPT ![m] = l]
    BY <1>6 DEF EventLoop, Run, InitEis, InitThreads, UnlockMonitorThread, LoopExit,
       ReportDataAvailable, SendCheck, SendFlag, SendCall, CallbackReturn, Monitor
  <2>3. m = n
    BY <1>1, <2>2 DEF First
  <2>4. \A u \in Mon \ {n} : loop'[u] = "new"
    BY <1>1, <2>2, <2>3 DEF First, TypeOK
  <2>5. /\ loop[n] \in {"poll", "send", "sendFlag", "sendCall", "callback"}
        /\ loop'[n] \in {"poll", "send", "sendFlag", "sendCall", "callback", "dead"}
        /\ UNCHANGED <<port, eis>>
        /\ IF loop'[n] = "dead" THEN LoopExit(n) ELSE index' = index
    <3> USE DEF Monitor, portVars, TypeOK
    <3>1. CASE LoopExit(n)
      BY <1>1, <3>1 DEF LoopExit
    <3>2. CASE \/ ReportDataAvailable(n) \/ SendCheck(n) \/ SendFlag(n) \/ SendCall(n)
               \/ CallbackReturn(n)
      BY <1>1, <3>2 DEF ReportDataAvailable, SendCheck, SendFlag, SendCall, CallbackReturn
    <3>3. QED
      BY <1>1, <1>6, <2>3, <3>1, <3>2
      DEF EventLoop, Run, InitEis, InitThreads, UnlockMonitorThread, Starting
  <2>6. index = <<n>> /\ eis[n].fd = port.fd
    BY <1>1, <2>5 DEF First, Linked, IsAlive
  <2>7. First(n)'
    <3>1. CASE loop'[n] = "dead"
      <4>1. index' = <<>> /\ eis[n].closing
        BY <2>5, <2>6, <3>1 DEF LoopExit
      <4>2. QED
        BY <1>1, <2>4, <2>5, <3>1, <4>1 DEF First, Linked, IsAlive
    <3>2. CASE loop'[n] # "dead"
      BY <1>1, <2>4, <2>5, <2>6, <3>2 DEF First, Linked, IsAlive
    <3>3. QED
      BY <3>1, <3>2
  <2>8. ~Starting(n)'
    BY <2>5 DEF Starting
  <2>9. QED
    BY <2>1, <2>5, <2>7, <2>8 DEF Running
<1>7. CASE UNCHANGED <<port, loopVars, pc>>
  BY <1>7, PhaseKept DEF loopVars
<1>8. QED
  BY <1>2, <1>3, <1>4, <1>5, <1>6, <1>7 DEF Next, Step, Arrive, vars, portVars

\* A step of a monitor thread that is about to end brings it no further from its end, and one
\* that starts is the port's.
LEMMA LoopStepEnding ==
  ASSUME TypeOK, NEW m \in Mon, EventLoop(m)
  PROVE  /\ UNCHANGED pc
         /\ port'.fd = port.fd /\ port'.monThread = port.monThread
         /\ port'.MonitorThreadAlive = port.MonitorThreadAlive
         /\ \A n \in Mon : Ending(n) => Ending(n)'
<1> USE DEF Monitor, TypeOK, portVars
<1>1. UNCHANGED pc /\ loop[m] \notin {"new", "dead"}
  BY DEF EventLoop, Run, InitEis, InitThreads, UnlockMonitorThread, LoopExit,
     ReportDataAvailable, SendCheck, SendFlag, SendCall, CallbackReturn
<1>2. /\ port'.fd = port.fd /\ port'.monThread = port.monThread
      /\ port'.MonitorThreadAlive = port.MonitorThreadAlive
  BY DEF EventLoop, Run, InitEis, InitThreads, UnlockMonitorThread, LoopExit,
     ReportDataAvailable, SendCheck, SendFlag, SendCall, CallbackReturn, PortType
<1>3. /\ \A n \in Mon \ {m} : loop'[n] = loop[n] /\ eis'[n] = eis[n]
      /\ Starting(m) \/ (~Starting(m)' /\ eis'[m] = eis[m])
  <2>1. CASE Run(m)
    BY <2>1 DEF Run, Starting
  <2>2. CASE InitEis(m)
    BY <2>2 DEF InitEis, Starting
  <2>3. CASE InitThreads(m) \/ UnlockMonitorThread(m)
    BY <2>3 DEF InitThreads, UnlockMonitorThread, Starting
  <2>4. CASE \/ ReportDataAvailable(m) \/ SendCheck(m) \/ SendFlag(m) \/ SendCall(m)
             \/ CallbackReturn(m) \/ LoopExit(m)
    BY <2>4 DEF LoopExit, ReportDataAvailable, SendCheck, SendFlag, SendCall, CallbackReturn,
       Starting
  <2>5. QED
    BY <2>1, <2>2, <2>3, <2>4 DEF EventLoop
<1>4. \A n \in Mon : Ending(n) => Ending(n)'
  BY <1>1, <1>3 DEF Ending, IsAlive, Starting
<1>5. QED
  BY <1>1, <1>2, <1>4

\* After the close has stopped the monitor thread, one that is added later stays the port's.
LEMMA StoppedStep ==
  ASSUME OneListener, TypeOK, MethodInv, CloseInv, Stopped, [Next]_vars
  PROVE  Running' \/ Stopped'
<1>1. ASSUME NEW x \in Agent, Add(x)
      PROVE  Running' \/ Stopped'
  <2> USE DEF TypeOK, PortType, Goto, portVars, loopVars
  <2>1. \A b \in Agent \ {x} : pc[b] \notin AddLoc
    BY <1>1, StepPlace, OneAdds
  <2>2. /\ \A b \in Agent \ {x} : pc'[b] = pc[b] \/ (pc[b] = "unborn" /\ pc'[b] = "idle")
        /\ pc[x] \in AddLoc /\ pc'[x] \in AddLoc \cup {"idle"}
    <3>1. \A b \in Agent \ {x} : pc'[b] = pc[b] \/ (pc[b] = "unborn" /\ pc'[b] = "idle")
      BY <1>1, ManagingMoves
    <3>2. pc'[x] \in AddLoc \cup {"idle"}
      BY <1>1 DEF Add, AddCheck, AddSet, AddAlive, StartMonitor, StartWait, AddLoc
    <3>3. QED
      BY <1>1, <3>1, <3>2, StepPlace
  <2>3. /\ \A a \in Agent : pc'[a] # "closeInterrupted" /\ pc'[a] \notin RemoveLoc
        /\ \A a \in Agent : pc[a] \in {"nativeClose", "closeReset"} => pc'[a] = pc[a]
    <3>1. \A a \in Agent : pc[a] # "closeInterrupted" /\ pc[a] \notin RemoveLoc
      BY DEF Stopped
    <3>2. pc'[x] # "closeInterrupted" /\ pc'[x] \notin RemoveLoc
      BY <2>2 DEF AddLoc, RemoveLoc
    <3>3. \A a \in Agent \ {x} : pc'[a] # "closeInterrupted" /\ pc'[a] \notin RemoveLoc
      BY <2>2, <3>1 DEF RemoveLoc
    <3>4. \A a \in Agent : pc[a] \in {"nativeClose", "closeReset"} => pc'[a] = pc[a]
      BY <2>2 DEF AddLoc
    <3>5. QED
      BY <3>2, <3>3, <3>4
  <2>4. CASE AddCheck(x) \/ AddSet(x) \/ (AddAlive(x) /\ port.MonitorThreadAlive)
    BY <2>4, QuietSteps
  <2>5. CASE AddAlive(x) /\ ~port.MonitorThreadAlive
    <3>1. /\ UNCHANGED <<port, loop, index, eis>> /\ pc[x] = "addAlive"
          /\ pc'[x] = "startMonitor"
      BY <2>5 DEF AddAlive
    <3>2. \A m \in Mon : Ending(m)
      BY <2>1, <2>5, <3>1 DEF Stopped, AddLoc
    <3>3. \A m \in Mon : Ending(m)'
      BY <3>1, <3>2 DEF Ending, IsAlive, Starting
    <3>4. \A a \in Agent : pc'[a] = "startMonitor" => ~port'.MonitorThreadAlive
      BY <2>5, <3>1
    <3>5. QED
      BY <2>3, <3>1, <3>3, <3>4 DEF Stopped
  <2>6. CASE StartMonitor(x)
    <3>1. PICK n \in Mon : /\ loop[n] = "new" /\ loop' = [loop EXCEPT ![n] = "run"]
                           /\ port' = [port EXCEPT !.MonitorThreadLock = TRUE, !.monThread = n]
      BY <2>6 DEF StartMonitor, Monitor
    <3>2. pc[x] = "startMonitor" /\ pc'[x] = "startWait" /\ UNCHANGED <<index, eis>>
      BY <2>6 DEF StartMonitor
    <3>3. \A m \in Mon : Ending(m)
      BY <2>1, <3>2 DEF Stopped, AddLoc
    <3>4. \A m \in Mon \ {n} : Ending(m)'
      BY <3>1, <3>2, <3>3 DEF Ending, IsAlive, Starting
    <3>5. port'.monThread = n /\ port'.fd = port.fd
      BY <3>1
    <3>6. \A a \in Agent : pc'[a] # "startMonitor"
      BY <2>1, <2>2, <3>2 DEF AddLoc
    <3>7. QED
      BY <2>3, <3>2, <3>4, <3>5, <3>6 DEF Stopped
  <2>7. CASE StartWait(x)
    <3>1. /\ pc[x] = "startWait" /\ pc'[x] = "idle" /\ UNCHANGED <<loop, index, eis>>
          /\ port' = [port EXCEPT !.MonitorThreadAlive = TRUE]
      BY <2>7 DEF StartWait
    <3>2. \A m \in Mon : Ending(m) => Ending(m)'
      BY <3>1 DEF Ending, IsAlive, Starting
    <3>3. \A a \in Agent : pc'[a] # "startMonitor"
      BY <2>1, <2>2, <3>1 DEF AddLoc
    <3>4. port'.MonitorThreadAlive /\ port'.monThread = port.monThread /\ port'.fd = port.fd
      BY <3>1
    <3>5. QED
      BY <2>3, <3>2, <3>3, <3>4 DEF Stopped
  <2>8. QED
    BY <1>1, <2>4, <2>5, <2>6, <2>7 DEF Add
<1>2. ASSUME NEW x \in Agent, Remove(x)
      PROVE  FALSE
  BY <1>2, StepPlace DEF Stopped
<1>3. ASSUME NEW x \in Agent, Close(x)
      PROVE  Running' \/ Stopped'
  <2>1. CASE CloseWait(x) \/ (CloseFd(x) /\ port.fd <= 0)
    BY <2>1, QuietSteps
  <2>2. CASE CloseFd(x) /\ port.fd > 0
    <3>1. pc[x] = "closeFd" /\ port.fd # 0
      BY <2>2 DEF CloseFd
    <3>2. PICK a \in Agent : pc[a] \in {"nativeClose", "closeReset"}
      BY <3>1 DEF Stopped
    <3>3. QED
      BY <3>1, <3>2, OneCloses DEF CloseLoc
  <2>3. CASE NativeClose(x) \/ CloseReset(x)
    <3>1. /\ pc[x] \in {"nativeClose", "closeReset"}
          /\ pc' = [pc EXCEPT ![x] = IF pc[x] = "nativeClose" THEN "closeReset" ELSE "idle"]
          /\ pc[x] = "nativeClose" => port'.fd = port.fd
          /\ pc[x] = "closeReset" => port'.fd = 0
          /\ port'.monThread = port.monThread /\ UNCHANGED <<loop, index, eis>>
          /\ port'.MonitorThreadAlive = port.MonitorThreadAlive
      BY <2>3 DEF NativeClose, CloseReset, Goto, portVars, loopVars, TypeOK, PortType
    <3>2. /\ pc'[x] = IF pc[x] = "nativeClose" THEN "closeReset" ELSE "idle"
          /\ \A b \in Agent \ {x} : pc'[b] = pc[b]
      BY <3>1 DEF TypeOK
    <3>3. \A m \in Mon : Ending(m) => Ending(m)'
      BY <3>1 DEF Ending, IsAlive, Starting
    <3>4. port'.fd = 0 \/ \E a \in Agent : pc'[a] \in {"nativeClose", "closeReset"}
      BY <3>1, <3>2
    <3>5. (\E a \in Agent : pc[a] = "startWait") => \E a \in Agent : pc'[a] = "startWait"
      BY <3>1, <3>2
    <3>6. \A a \in Agent : pc'[a] # "closeInterrupted" /\ pc'[a] \notin RemoveLoc
      BY <3>1, <3>2 DEF Stopped, RemoveLoc
    <3>7. \A a \in Agent : pc'[a] = "startMonitor" => ~port'.MonitorThreadAlive
      BY <3>1, <3>2 DEF Stopped
    <3>8. QED
      BY <3>1, <3>3, <3>4, <3>5, <3>6, <3>7 DEF Stopped
  <2>4. pc[x] # "closeInterrupted" /\ (port.fd <= 0 \/ port.fd > 0)
    BY DEF Stopped, TypeOK, PortType
  <2>5. QED
    BY <1>3, <2>1, <2>2, <2>3, <2>4 DEF Close, CloseInterrupted
<1>4. ASSUME NEW x \in Agent, InputOutput(x) \/ NotifyOnDataAvailable(x) \/ \E o \in Op : Call(x, o)
      PROVE  Running' \/ Stopped'
  BY <1>4, QuietSteps
<1>5. ASSUME NEW m \in Mon, EventLoop(m)
      PROVE  Stopped'
  BY <1>5, LoopStepEnding DEF Stopped
<1>6. CASE UNCHANGED <<port, loopVars, pc>>
  BY <1>6, PhaseKept DEF loopVars
<1>7. QED
  BY <1>1, <1>2, <1>3, <1>4, <1>5, <1>6 DEF Next, Step, Arrive, vars, portVars

\* No monitor thread goes on unknown to the port when nobody removes a listener and one thread
\* adds: however many threads and listeners close and notify at once, and however long a
\* listener takes.
THEOREM NoLoopOrphanedByClose ==
  ASSUME OneListener
  PROVE  Spec => []NoOrphanLoop
<1>1. TypeOK /\ CloseInv /\ ListenerInv /\ [Next]_vars => CloseInv' /\ ListenerInv'
  <2> SUFFICES ASSUME TypeOK, CloseInv, ListenerInv, [Next]_vars
               PROVE  CloseInv' /\ ListenerInv'
    OBVIOUS
  <2>1. CloseInv'
    BY CloseInvStep
  <2>2. MethodInv'
    BY MethodInvStep DEF ListenerInv
  <2>3. Opening' \/ Running' \/ Stopped'
    BY OpeningStep, RunningStep, StoppedStep DEF ListenerInv
  <2>4. QED
    BY <2>1, <2>2, <2>3 DEF ListenerInv
<1>2. ListenerInv => NoOrphanLoop
  <2> SUFFICES ASSUME ListenerInv, NEW m \in Mon, IsAlive(m), port.monThread # m
               PROVE  eis[m].closing
    BY DEF NoOrphanLoop
  <2>1. CASE Opening
    BY <2>1 DEF Opening, Constructing, First, IsAlive
  <2>2. CASE Running
    BY <2>2 DEF Running, First, IsAlive
  <2>3. CASE Stopped
    BY <2>3 DEF Stopped, Ending
  <2>4. QED
    BY <2>1, <2>2, <2>3 DEF ListenerInv
<1>3. QED
  BY <1>1, <1>2, CloseInvInit, ListenerInvInit, TypeCorrect, PTL DEF Spec
=============================================================================
