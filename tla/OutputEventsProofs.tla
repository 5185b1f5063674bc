------------------------- MODULE OutputEventsProofs -------------------------
(***************************************************************************)
(* The safety properties of OutputEvents proved for any writers, number of *)
(* calls and size of the output buffer.                                    *)
(***************************************************************************)
EXTENDS OutputEvents, TLAPS

\* closing is set by the drain thread as it ends, or by the thread that has cancelled
\* it; the loop returns after that.
CloseInv ==
  /\ eis.closing \/ Gone => drain = "exited" \/ cancelled
  /\ stop = "close" => cancelled
  /\ cancelled => stop \in {"close", "done"}

\* How many stores a drain thread that has been cancelled has left, from where it is to
\* its end or the next cancellation point.
StoresLeft ==
  IF drain \in {"test", "setFlag"} THEN 3
  ELSE IF drain = "clearWriting" THEN 2
  ELSE IF drain \in {"top", "awake", "end"} THEN 1
  ELSE 0

StrayInv ==
  /\ Gone => stray + StoresLeft <= 3
  /\ ~Gone => stray = 0

One(p) == IF p THEN 1 ELSE 0

\* What a store of writing = 1 turns into, one after the other: writing itself (from
\* the drain thread's point of view, until it has set the flag), the flag (until the
\* loop has seen it), the event about to be sent, the event.
InWriting == One(drain # "clearWriting" /\ (eis.writing \/ drain = "setFlag"))
InFlag == One(eis.output_buffer_empty_flag /\ loop \notin {"send", "callback", "clearFlag"})
InSend == One(loop = "send")

EventInv == IF Gone THEN owing >= 0 ELSE InSend + InFlag + InWriting <= owing

IInv == TypeOK /\ CloseInv /\ StrayInv /\ EventInv

-----------------------------------------------------------------------------
(* Types.                                                                  *)

\* A store through a pointer to the structure leaves it a structure.
LEMMA StoreType ==
  ASSUME eis \in EisType,
         NEW field \in {"closing", "writing", "output_buffer_empty_flag"}, NEW value \in BOOLEAN,
         Store(field, value)
  PROVE  eis' \in EisType
  BY DEF Store, EisType

LEMMA TypeInit == Init => TypeOK
<1> SUFFICES ASSUME Init PROVE TypeOK
  OBVIOUS
<1>1. eis \in EisType
  BY DEF Init, Blank, EisType
<1>2. /\ out \in 0 .. MaxOut /\ calls \in 0 .. MaxCalls
      /\ owing \in Int /\ stray \in Nat
  BY OutAssumption, CallsAssumption DEF Init
<1>3. /\ pc \in [Thread -> [op : {"none", "write", "flush"}, at : CallLoc]]
      /\ interrupted \in [Thread -> BOOLEAN]
  BY DEF Init, CallLoc
<1>4. /\ device \in {"ok", "gone"} /\ drain \in DrainLoc
      /\ loop \in LoopLoc /\ stop \in StopLoc
  BY DEF Init, DrainLoc, LoopLoc, StopLoc
<1>5. /\ monThreadisInterrupted \in BOOLEAN /\ fault \in BOOLEAN
      /\ awaited \in BOOLEAN /\ overlap \in BOOLEAN /\ cancelled \in BOOLEAN
  BY Zenon DEF Init
<1>6. QED
  BY <1>1, <1>2, <1>3, <1>4, <1>5 DEF TypeOK

\* The control point of a thread moves within its type.
LEMMA GotoType ==
  ASSUME pc \in [Thread -> [op : {"none", "write", "flush"}, at : CallLoc]],
         NEW w \in Thread, NEW l \in CallLoc, Goto(w, l) \/ Return(w)
  PROVE  pc' \in [Thread -> [op : {"none", "write", "flush"}, at : CallLoc]]
  BY DEF Goto, Return, CallLoc

\* A step of the drain thread keeps the types.
LEMMA TypeDrain ==
  ASSUME TypeOK, DrainLoop
  PROVE  TypeOK'
<1>. USE DEF TypeOK
<1>0. /\ UNCHANGED <<out, device, loop, stop, monThreadisInterrupted, cancelled, pc,
                    interrupted, calls, fault, owing, awaited>>
      /\ overlap' \in BOOLEAN /\ stray' \in Nat
  BY DEF DrainLoop, deviceVars, stopVars, callVars
<1>1. eis' \in EisType /\ drain' \in DrainLoc
  <2>1. CASE DrainTop
    BY <2>1 DEF DrainTop, DrainLoc
  <2>2. CASE DrainWake
    BY <2>2 DEF DrainWake, DrainLoc
  <2>3. CASE DrainAwake
    BY <2>3 DEF DrainAwake, DrainLoc
  <2>4. CASE DrainTcdrain
    BY <2>4 DEF DrainTcdrain, DrainLoc
  <2>5. CASE DrainTest
    BY <2>5 DEF DrainTest, DrainLoc
  <2>6. CASE DrainSetFlag
    BY <2>6, StoreType DEF DrainSetFlag, DrainLoc
  <2>7. CASE DrainClearWriting
    BY <2>7, StoreType DEF DrainClearWriting, DrainLoc
  <2>8. CASE DrainEnd
    BY <2>8, StoreType DEF DrainEnd, DrainLoc
  <2>9. CASE DrainCancelled
    BY <2>9 DEF DrainCancelled, DrainLoc
  <2>10. QED
    BY <2>1, <2>2, <2>3, <2>4, <2>5, <2>6, <2>7, <2>8, <2>9 DEF DrainLoop
<1>2. QED
  BY <1>0, <1>1

\* A step of the event loop keeps the types.
LEMMA TypeLoop ==
  ASSUME TypeOK, EventLoop
  PROVE  TypeOK'
<1>. USE DEF TypeOK
<1>0. UNCHANGED <<out, device, drain, stop, monThreadisInterrupted, cancelled, pc,
                 interrupted, calls, fault, overlap, stray>>
  BY DEF EventLoop, deviceVars, stopVars, callVars
<1>1. eis' \in EisType /\ loop' \in LoopLoc /\ owing' \in Int /\ awaited' \in BOOLEAN
  <2>1. CASE LoopExit
    BY <2>1 DEF LoopExit, LoopLoc, Blank, EisType
  <2>2. CASE LoopSelect
    BY <2>2 DEF LoopSelect, LoopLoc, EisType
  <2>3. CASE CheckLineStatus
    BY <2>3 DEF CheckLineStatus, LoopLoc, EisType
  <2>4. CASE SendEvent
    <3>1. CASE monThreadisInterrupted
      BY <2>4, <3>1 DEF SendEvent, LoopLoc
    <3>2. CASE ~monThreadisInterrupted
      <4>1. awaited' \in BOOLEAN
        BY Zenon, <2>4, <3>2 DEF SendEvent
      <4>2. QED
        BY <2>4, <3>2, <4>1 DEF SendEvent, LoopLoc
    <3>3. QED
      BY <3>1, <3>2
  <2>5. CASE CallbackReturn
    BY <2>5 DEF CallbackReturn, LoopLoc, EisType
  <2>6. CASE ClearFlag
    BY <2>6 DEF ClearFlag, LoopLoc, EisType
  <2>7. QED
    BY <2>1, <2>2, <2>3, <2>4, <2>5, <2>6 DEF EventLoop
<1>2. QED
  BY <1>0, <1>1

\* A step of removeEventListener keeps the types.
LEMMA TypeRemove ==
  ASSUME TypeOK, Remove
  PROVE  TypeOK'
<1>. USE DEF TypeOK
<1>0. UNCHANGED <<out, device, loop, pc, interrupted, calls, fault, owing, awaited,
                 overlap, stray>>
  BY DEF Remove, deviceVars, callVars, history
<1>1. /\ eis' \in EisType /\ drain' \in DrainLoc /\ stop' \in StopLoc
      /\ monThreadisInterrupted' \in BOOLEAN /\ cancelled' \in BOOLEAN
  <2>1. CASE RemoveEventListener
    BY <2>1 DEF RemoveEventListener, StopLoc, DrainLoc
  <2>2. CASE InterruptEventLoop
    BY <2>2 DEF InterruptEventLoop, StopLoc, DrainLoc, EisType
  <2>3. CASE KillDrain
    BY <2>3 DEF KillDrain, StopLoc, DrainLoc
  <2>4. CASE CancelDrain
    <3>1. UNCHANGED <<eis, drain, monThreadisInterrupted>>
      BY <2>4 DEF CancelDrain
    <3>2. \/ stop' = "done" /\ cancelled' = cancelled
          \/ stop' = "close" /\ cancelled' = TRUE
      <4>1. PICK closing \in Reads(eis.closing) :
              IF closing THEN stop' = "done" /\ UNCHANGED cancelled
              ELSE stop' = "close" /\ cancelled' = TRUE
        BY <2>4 DEF CancelDrain
      <4>2. CASE closing
        BY <4>1, <4>2
      <4>3. CASE ~closing
        BY <4>1, <4>3
      <4>4. QED
        BY <4>2, <4>3
    <3>3. stop' \in StopLoc
      BY <3>2 DEF StopLoc
    <3>4. cancelled' \in BOOLEAN
      BY Zenon, <3>2
    <3>5. QED
      BY <3>1, <3>3, <3>4
  <2>5. CASE SetClosing
    BY <2>5, StoreType DEF SetClosing, StopLoc, DrainLoc
  <2>6. QED
    BY <2>1, <2>2, <2>3, <2>4, <2>5 DEF Remove
<1>2. QED
  BY <1>0, <1>1

\* A step of write or flush keeps the types.
LEMMA TypeOutput ==
  ASSUME TypeOK, NEW w \in Thread, Output(w)
  PROVE  TypeOK'
<1>. USE DEF TypeOK
<1>0. UNCHANGED <<device, drain, loop, stop, monThreadisInterrupted, cancelled>>
  BY DEF Output, stopVars
<1>1. pc' \in [Thread -> [op : {"none", "write", "flush"}, at : CallLoc]]
  <2>. USE GotoType DEF CallLoc
  <2>1. QED
    BY DEF Output, Enter, Write, SetWriting, FlushTcdrain, FlushTest, FlushClearWriting,
           FlushClearFlag, FlushSend
<1>2. /\ eis' \in EisType /\ out' \in 0 .. MaxOut /\ owing' \in Int
      /\ interrupted' \in [Thread -> BOOLEAN]
  <2>1. CASE Enter(w)
    BY <2>1 DEF Enter, history
  <2>2. CASE Write(w)
    BY <2>2, OutAssumption DEF Write, history
  <2>3. CASE SetWriting(w)
    <3>1. CASE Gone
      BY <2>3, <3>1 DEF SetWriting
    <3>2. CASE ~Gone
      <4>1. Store("writing", TRUE) /\ owing' = owing + 1 /\ UNCHANGED <<out, interrupted>>
        BY Zenon, <2>3, <3>2 DEF SetWriting
      <4>2. eis' \in EisType
        BY <4>1, StoreType
      <4>3. QED
        BY <4>1, <4>2
    <3>3. QED
      BY <3>1, <3>2
  <2>4. CASE FlushTcdrain(w)
    BY <2>4 DEF FlushTcdrain, history
  <2>5. CASE FlushTest(w)
    BY <2>5 DEF FlushTest, history
  <2>6. CASE FlushClearWriting(w)
    BY <2>6, StoreType DEF FlushClearWriting, history
  <2>7. CASE FlushClearFlag(w)
    BY <2>7, StoreType DEF FlushClearFlag, history
  <2>8. CASE FlushSend(w)
    BY <2>8 DEF FlushSend
  <2>9. QED
    BY <2>1, <2>2, <2>3, <2>4, <2>5, <2>6, <2>7, <2>8 DEF Output
<1>3. /\ calls' = calls /\ stray' = stray
      /\ fault' \in BOOLEAN /\ awaited' \in BOOLEAN /\ overlap' \in BOOLEAN
  <2>1. CASE Enter(w)
    BY <2>1 DEF Enter, EisType, history
  <2>2. CASE Write(w)
    BY <2>2 DEF Write, EisType, history
  <2>3. CASE SetWriting(w)
    <3>1. CASE Gone
      BY <2>3, <3>1 DEF SetWriting
    <3>2. CASE ~Gone
      BY <2>3, <3>2 DEF SetWriting
    <3>3. QED
      BY <3>1, <3>2
  <2>4. CASE FlushTcdrain(w)
    BY <2>4 DEF FlushTcdrain, EisType, history
  <2>5. CASE FlushTest(w)
    BY <2>5 DEF FlushTest, EisType, history
  <2>6. CASE FlushClearWriting(w)
    BY <2>6 DEF FlushClearWriting, EisType, history
  <2>7. CASE FlushClearFlag(w)
    BY <2>7 DEF FlushClearFlag, EisType, history
  <2>8. CASE FlushSend(w)
    BY <2>8 DEF FlushSend, EisType, history
  <2>9. QED
    BY <2>1, <2>2, <2>3, <2>4, <2>5, <2>6, <2>7, <2>8 DEF Output
<1>4. QED
  BY <1>0, <1>1, <1>2, <1>3

\* Every step keeps the types.
LEMMA TypeStep ==
  ASSUME TypeOK, [Next]_vars
  PROVE  TypeOK'
<1>1. CASE DrainLoop
  BY <1>1, TypeDrain
<1>2. CASE EventLoop
  BY <1>2, TypeLoop
<1>3. CASE Remove
  BY <1>3, TypeRemove
<1>4. ASSUME NEW w \in Thread, Start(w)
      PROVE  TypeOK'
  <2>1. pc' \in [Thread -> [op : {"none", "write", "flush"}, at : CallLoc]]
    BY <1>4 DEF TypeOK, Start, Call, CallLoc
  <2>2. calls' \in 0 .. MaxCalls
    BY <1>4, CallsAssumption DEF TypeOK, Start, Call
  <2>3. UNCHANGED <<eis, deviceVars, drain, loop, stopVars, interrupted, fault, history>>
    BY <1>4 DEF Start, Call, deviceVars
  <2>4. QED
    BY <2>1, <2>2, <2>3 DEF TypeOK, deviceVars, stopVars, history
<1>5. ASSUME NEW w \in Thread, Output(w)
      PROVE  TypeOK'
  BY <1>5, TypeOutput
<1>6. ASSUME NEW enable \in BOOLEAN, NotifyOnOutputEmpty(enable)
      PROVE  TypeOK'
  <2>1. eis' \in EisType /\ awaited' \in BOOLEAN
    BY <1>6 DEF TypeOK, NotifyOnOutputEmpty, EisType
  <2>2. UNCHANGED <<deviceVars, drain, loop, stopVars, callVars, owing, overlap, stray>>
    BY <1>6 DEF NotifyOnOutputEmpty
  <2>3. QED
    BY <2>1, <2>2 DEF TypeOK, deviceVars, stopVars, callVars
<1>7. CASE Transmit
  <2>1. out' \in 0 .. MaxOut
    BY <1>7, OutAssumption DEF TypeOK, Transmit
  <2>2. UNCHANGED <<eis, device, drain, loop, stopVars, callVars, history>>
    BY <1>7 DEF Transmit
  <2>3. QED
    BY <2>1, <2>2 DEF TypeOK, stopVars, callVars, history
<1>8. CASE Unplug
  BY <1>8 DEF TypeOK, Unplug, stopVars, callVars, history
<1>9. CASE UNCHANGED vars
  BY <1>9 DEF TypeOK, vars, deviceVars, stopVars, callVars, history
<1>10. QED
  BY <1>1, <1>2, <1>3, <1>4, <1>5, <1>6, <1>7, <1>8, <1>9 DEF Next

-----------------------------------------------------------------------------
(* The drain thread and the end of the loop.                               *)

\* A step that changes neither closing, nor where the three threads are, keeps the
\* invariant.
LEMMA CloseKept ==
  ASSUME CloseInv, eis'.closing = eis.closing, UNCHANGED <<drain, loop, stop, cancelled>>
  PROVE  CloseInv'
  BY DEF CloseInv, Gone

\* Of the steps of the drain thread, only the last one sets closing.
LEMMA CloseDrain ==
  ASSUME TypeOK, CloseInv, DrainLoop
  PROVE  CloseInv'
<1>1. UNCHANGED <<loop, stop, cancelled>>
  BY DEF DrainLoop, stopVars
<1>2. drain # "exited"
  BY DEF DrainLoop, DrainTop, DrainWake, DrainAwake, DrainTcdrain, DrainTest, DrainSetFlag,
         DrainClearWriting, DrainEnd, DrainCancelled
<1>3. CASE drain' = "exited"
  BY <1>1, <1>3 DEF CloseInv, Gone
<1>4. CASE drain' # "exited"
  <2>1. eis'.closing = eis.closing
    <3>1. CASE UNCHANGED eis
      BY <3>1
    <3>2. CASE DrainSetFlag \/ DrainClearWriting
      BY <3>2 DEF DrainSetFlag, DrainClearWriting, Store, TypeOK, EisType
    <3>3. QED
      BY <1>4, <3>1, <3>2 DEF DrainLoop, DrainTop, DrainWake, DrainAwake, DrainTcdrain,
         DrainTest, DrainEnd, DrainCancelled
  <2>2. QED
    BY <1>1, <1>2, <2>1 DEF CloseInv, Gone
<1>5. QED
  BY <1>3, <1>4

\* The loop returns when closing is set.
LEMMA CloseLoop ==
  ASSUME TypeOK, CloseInv, EventLoop
  PROVE  CloseInv'
<1>1. UNCHANGED <<drain, stop, cancelled>>
  BY DEF EventLoop, stopVars
<1>2. eis'.closing \/ loop' = "returned" => eis.closing
  <2>1. CASE LoopExit
    BY <2>1 DEF LoopExit
  <2>2. CASE LoopSelect \/ CheckLineStatus
    BY <2>2 DEF LoopSelect, CheckLineStatus
  <2>3. CASE SendEvent
    BY <2>3 DEF SendEvent
  <2>4. CASE CallbackReturn \/ ClearFlag
    BY <2>4 DEF CallbackReturn, ClearFlag, TypeOK, EisType
  <2>5. QED
    BY <2>1, <2>2, <2>3, <2>4 DEF EventLoop
<1>3. QED
  BY <1>1, <1>2 DEF CloseInv, Gone

\* interruptEventLoop sets closing only after pthread_cancel.
LEMMA CloseRemove ==
  ASSUME TypeOK, CloseInv, Remove
  PROVE  CloseInv'
<1>0. loop' = loop
  BY DEF Remove
<1>1. CASE RemoveEventListener
  BY <1>0, <1>1 DEF RemoveEventListener, CloseInv, Gone
<1>2. CASE InterruptEventLoop
  BY <1>0, <1>2 DEF InterruptEventLoop, CloseInv, Gone, TypeOK, EisType
<1>3. CASE KillDrain
  BY <1>0, <1>3 DEF KillDrain, CloseInv, Gone
<1>4. CASE CancelDrain
  BY <1>0, <1>4 DEF CancelDrain, CloseInv, Gone
<1>5. CASE SetClosing
  BY <1>0, <1>5 DEF SetClosing, CloseInv, Gone
<1>6. QED
  BY <1>1, <1>2, <1>3, <1>4, <1>5 DEF Remove

\* Neither writes nor flushes have a part in it.
LEMMA CloseOutput ==
  ASSUME TypeOK, CloseInv, NEW w \in Thread, Output(w)
  PROVE  CloseInv'
<1>1. UNCHANGED <<drain, loop, stop, cancelled>>
  BY DEF Output, stopVars
<1>2. eis'.closing = eis.closing
  <2>1. CASE UNCHANGED eis
    BY <2>1
  <2>2. CASE SetWriting(w)
    BY <2>2 DEF SetWriting, Store, TypeOK, EisType
  <2>3. CASE FlushClearWriting(w)
    BY <2>3 DEF FlushClearWriting, Store, TypeOK, EisType
  <2>4. CASE FlushClearFlag(w)
    BY <2>4 DEF FlushClearFlag, Store, TypeOK, EisType
  <2>5. QED
    BY <2>1, <2>2, <2>3, <2>4 DEF Output, Enter, Write, FlushTcdrain, FlushTest, FlushSend
<1>3. QED
  BY <1>1, <1>2, CloseKept

\* Every step keeps the order: the drain thread ends or is cancelled, closing is set, the
\* loop returns.
LEMMA CloseStep ==
  ASSUME TypeOK, CloseInv, [Next]_vars
  PROVE  CloseInv'
<1>1. CASE DrainLoop
  BY <1>1, CloseDrain
<1>2. CASE EventLoop
  BY <1>2, CloseLoop
<1>3. CASE Remove
  BY <1>3, CloseRemove
<1>4. ASSUME NEW w \in Thread, Start(w)
      PROVE  CloseInv'
  BY <1>4, CloseKept DEF Start, Call, stopVars
<1>5. ASSUME NEW w \in Thread, Output(w)
      PROVE  CloseInv'
  BY <1>5, CloseOutput
<1>6. ASSUME NEW enable \in BOOLEAN, NotifyOnOutputEmpty(enable)
      PROVE  CloseInv'
  BY <1>6, CloseKept DEF NotifyOnOutputEmpty, stopVars, TypeOK, EisType
<1>7. CASE Transmit \/ Unplug
  BY <1>7, CloseKept DEF Transmit, Unplug, stopVars
<1>8. CASE UNCHANGED vars
  BY <1>8, CloseKept DEF vars, stopVars
<1>9. QED
  BY <1>1, <1>2, <1>3, <1>4, <1>5, <1>6, <1>7, <1>8 DEF Next

-----------------------------------------------------------------------------
(* The drain thread after the end of the loop.                             *)

\* Each store takes one of those left; each way round leads to a cancellation point.
LEMMA StrayDrain ==
  ASSUME TypeOK, CloseInv, StrayInv, DrainLoop
  PROVE  StrayInv'
<1>1. UNCHANGED <<loop, cancelled>> /\ stray \in Nat
  BY DEF DrainLoop, stopVars, TypeOK
<1>2. CASE ~Gone
  BY <1>1, <1>2 DEF StrayInv, DrainLoop, Gone
<1>3. CASE Gone
  <2>1. cancelled
    BY <1>3 DEF CloseInv, DrainLoop, DrainTop, DrainWake, DrainAwake, DrainTcdrain, DrainTest,
       DrainSetFlag, DrainClearWriting, DrainEnd, DrainCancelled
  <2>2. stray' = IF drain \in {"setFlag", "clearWriting", "end"} THEN stray + 1 ELSE stray
    BY <1>3 DEF DrainLoop
  <2>3. stray + StoresLeft <= 3
    BY <1>3 DEF StrayInv
  <2>4. stray' + StoresLeft' <= 3
    <3>1. CASE DrainTop
      BY <1>1, <2>2, <2>3, <3>1 DEF DrainTop, StoresLeft
    <3>2. CASE DrainAwake
      BY <1>1, <2>2, <2>3, <3>2 DEF DrainAwake, StoresLeft
    <3>3. CASE DrainTest
      BY <1>1, <2>2, <2>3, <3>3 DEF DrainTest, StoresLeft
    <3>4. CASE DrainSetFlag
      BY <1>1, <2>2, <2>3, <3>4 DEF DrainSetFlag, StoresLeft
    <3>5. CASE DrainClearWriting
      BY <1>1, <2>2, <2>3, <3>5 DEF DrainClearWriting, StoresLeft
    <3>6. CASE DrainEnd
      BY <1>1, <2>2, <2>3, <3>6 DEF DrainEnd, StoresLeft
    <3>7. CASE DrainCancelled
      BY <1>1, <2>2, <2>3, <3>7 DEF DrainCancelled, StoresLeft
    <3>8. QED
      BY <2>1, <3>1, <3>2, <3>3, <3>4, <3>5, <3>6, <3>7
      DEF DrainLoop, DrainWake, DrainTcdrain
  <2>5. QED
    BY <1>1, <1>3, <2>4 DEF StrayInv, Gone
<1>4. QED
  BY <1>2, <1>3

\* Every step keeps the bound: after the loop's return only the drain thread moves itself.
LEMMA StrayStep ==
  ASSUME TypeOK, CloseInv, StrayInv, [Next]_vars
  PROVE  StrayInv'
<1>1. CASE DrainLoop
  BY <1>1, StrayDrain
<1>2. CASE EventLoop
  <2>1. stray' = stray /\ drain' = drain /\ ~Gone
    BY <1>2 DEF EventLoop, LoopExit, LoopSelect, CheckLineStatus, SendEvent, CallbackReturn,
       ClearFlag, Gone
  <2>2. StoresLeft' \in Nat
    BY DEF StoresLeft
  <2>3. stray' = 0
    BY <2>1 DEF StrayInv
  <2>4. stray' + StoresLeft' <= 3
    BY <2>3 DEF StoresLeft
  <2>5. QED
    BY <2>3, <2>4 DEF StrayInv
<1>3. CASE Remove
  <2>1. stray' = stray /\ loop' = loop
    BY <1>3 DEF Remove, history
  <2>2. Gone => drain' = drain
    BY <1>3 DEF Remove, RemoveEventListener, InterruptEventLoop, KillDrain, CancelDrain,
       SetClosing, CloseInv
  <2>3. QED
    BY <2>1, <2>2 DEF StrayInv, StoresLeft, Gone
<1>4. ASSUME UNCHANGED <<stray, drain, loop>>
      PROVE  StrayInv'
  BY <1>4 DEF StrayInv, StoresLeft, Gone
<1>5. ASSUME NEW w \in Thread, Start(w) \/ Output(w)
      PROVE  StrayInv'
  <2>1. CASE Start(w)
    BY <1>4, <2>1 DEF Start, Call, history
  <2>2. CASE Output(w)
    BY <1>4, <2>2 DEF Output, Enter, Write, SetWriting, FlushTcdrain, FlushTest,
       FlushClearWriting, FlushClearFlag, FlushSend, history
  <2>3. QED
    BY <1>5, <2>1, <2>2
<1>6. ASSUME NEW enable \in BOOLEAN, NotifyOnOutputEmpty(enable)
      PROVE  StrayInv'
  BY <1>4, <1>6 DEF NotifyOnOutputEmpty
<1>7. CASE Transmit \/ Unplug
  BY <1>4, <1>7 DEF Transmit, Unplug, history
<1>8. CASE UNCHANGED vars
  BY <1>4, <1>8 DEF vars, history
<1>9. QED
  BY <1>1, <1>2, <1>3, <1>5, <1>6, <1>7, <1>8 DEF Next

-----------------------------------------------------------------------------
(* One event for one write.                                                *)

\* A step that only touches what the sum does not count keeps it.
LEMMA EventKept ==
  ASSUME EventInv, UNCHANGED <<owing, drain, loop>>,
         eis'.writing = eis.writing,
         eis'.output_buffer_empty_flag = eis.output_buffer_empty_flag
  PROVE  EventInv'
  BY DEF EventInv, Gone, InSend, InFlag, InWriting, One

\* The parts of the sum are 0 or 1, now and after a step.
LEMMA Parts ==
  ASSUME TRUE
  PROVE  /\ InSend \in {0, 1} /\ InFlag \in {0, 1} /\ InWriting \in {0, 1}
         /\ InSend' \in {0, 1} /\ InFlag' \in {0, 1} /\ InWriting' \in {0, 1}
  BY DEF InSend, InFlag, InWriting, One

\* Once the loop has returned nothing is counted any more.
LEMMA EventGone ==
  ASSUME EventInv, Gone, loop' = loop, owing' = owing
  PROVE  EventInv'
  BY DEF EventInv, Gone

\* The drain thread turns writing into the flag.
LEMMA EventDrain ==
  ASSUME TypeOK, EventInv, DrainLoop
  PROVE  EventInv'
<1>0. UNCHANGED <<owing, loop>> /\ owing \in Int
  BY DEF DrainLoop, TypeOK
<1>1. CASE Gone
  BY <1>0, <1>1, EventGone
<1>2. CASE ~Gone
  <2>. SUFFICES InFlag' + InWriting' <= InFlag + InWriting
    <3>1. InSend' = InSend /\ ~Gone'
      BY <1>0, <1>2 DEF InSend, Gone
    <3>2. QED
      BY <1>0, <1>2, <3>1, Parts DEF EventInv
  <2>1. CASE DrainSetFlag
    <3>1. InWriting = 1 /\ InWriting' = 0
      BY <2>1 DEF DrainSetFlag, InWriting, One
    <3>2. QED
      BY <3>1, Parts
  <2>2. CASE DrainClearWriting
    <3>1. ~eis'.writing /\ eis'.output_buffer_empty_flag = eis.output_buffer_empty_flag
      BY <1>2, <2>2 DEF DrainClearWriting, Store, TypeOK, EisType
    <3>2. InFlag' = InFlag
      BY <1>0, <3>1 DEF InFlag
    <3>3. InWriting = 0 /\ InWriting' = 0
      BY <2>2, <3>1 DEF DrainClearWriting, InWriting, One
    <3>4. QED
      BY <3>2, <3>3, Parts
  <2>3. CASE DrainEnd
    <3>1. /\ eis'.writing = eis.writing
          /\ eis'.output_buffer_empty_flag = eis.output_buffer_empty_flag
      BY <1>2, <2>3 DEF DrainEnd, Store, TypeOK, EisType
    <3>2. InFlag' = InFlag /\ InWriting' = InWriting
      BY <1>0, <2>3, <3>1 DEF DrainEnd, InFlag, InWriting
    <3>3. QED
      BY <3>2, Parts
  <2>4. CASE DrainTest
    <3>1. eis' = eis /\ drain = "test"
      BY <2>4 DEF DrainTest
    <3>2. drain' = IF eis.writing THEN "setFlag" ELSE "top"
      BY <1>2, <2>4 DEF DrainTest, Reads
    <3>3. InFlag' = InFlag /\ InWriting' = InWriting
      BY <1>0, <3>1, <3>2 DEF InFlag, InWriting, One
    <3>4. QED
      BY <3>3, Parts
  <2>5. CASE DrainTop \/ DrainWake \/ DrainAwake \/ DrainTcdrain \/ DrainCancelled
    <3>1. /\ eis' = eis
          /\ drain \notin {"setFlag", "clearWriting"} /\ drain' \notin {"setFlag", "clearWriting"}
      BY <2>5 DEF DrainTop, DrainWake, DrainAwake, DrainTcdrain, DrainCancelled
    <3>2. InFlag' = InFlag /\ InWriting' = InWriting
      BY <1>0, <3>1 DEF InFlag, InWriting
    <3>3. QED
      BY <3>2, Parts
  <2>6. QED
    BY <2>1, <2>2, <2>3, <2>4, <2>5 DEF DrainLoop
<1>3. QED
  BY <1>1, <1>2

\* The loop turns the flag into an event, and the event into a report.
LEMMA EventLoopStep ==
  ASSUME TypeOK, EventInv, EventLoop
  PROVE  EventInv'
<1>0. drain' = drain /\ ~Gone /\ owing \in Int
  BY DEF EventLoop, LoopExit, LoopSelect, CheckLineStatus, SendEvent, CallbackReturn,
         ClearFlag, Gone, TypeOK
<1>1. CASE LoopExit
  BY <1>0, <1>1, Parts DEF LoopExit, EventInv, Gone
<1>2. CASE ~LoopExit
  <2>1. ~Gone'
    BY <1>2 DEF EventLoop, LoopSelect, CheckLineStatus, SendEvent, CallbackReturn, ClearFlag,
       Gone
  <2>2. InWriting' = InWriting
    <3>1. eis'.writing = eis.writing
      BY <1>2 DEF EventLoop, LoopSelect, CheckLineStatus, SendEvent, CallbackReturn, ClearFlag,
         TypeOK, EisType
    <3>2. QED
      BY <1>0, <3>1 DEF InWriting
  <2>3. owing' \in Int /\ InSend' + InFlag' - owing' <= InSend + InFlag - owing
    <3>1. CASE LoopSelect
      <4>1. owing' = owing /\ InSend' = 0 /\ InSend = 0
        BY <3>1 DEF LoopSelect, InSend, One
      <4>2. InFlag' = InFlag
        BY <3>1 DEF LoopSelect, InFlag, One
      <4>3. QED
        BY <1>0, <4>1, <4>2, Parts
    <3>2. CASE CheckLineStatus
      <4>1. CASE eis.output_buffer_empty_flag /\ eis.notify
        <5>1. owing' = owing /\ InFlag = 1 /\ InFlag' = 0
          BY <3>2, <4>1 DEF CheckLineStatus, InFlag, One
        <5>2. QED
          BY <1>0, <5>1, Parts
      <4>2. CASE ~(eis.output_buffer_empty_flag /\ eis.notify)
        <5>1. owing' = owing /\ InSend' = 0 /\ InFlag' = InFlag
          BY <3>2, <4>2 DEF CheckLineStatus, InSend, InFlag, One
        <5>2. QED
          BY <1>0, <5>1, Parts
      <4>3. QED
        BY <4>1, <4>2
    <3>3. CASE SendEvent
      <4>1. loop = "send" /\ loop' \in {"callback", "clearFlag"} /\ owing' = owing - 1
        BY <3>3 DEF SendEvent
      <4>2. InSend = 1 /\ InSend' = 0 /\ InFlag = 0 /\ InFlag' = 0
        BY <4>1 DEF InSend, InFlag, One
      <4>3. QED
        BY <1>0, <4>1, <4>2
    <3>4. CASE CallbackReturn \/ ClearFlag
      <4>1. owing' = owing /\ InSend' = 0
        BY <3>4 DEF CallbackReturn, ClearFlag, InSend, One
      <4>2. InFlag' = 0
        BY <3>4 DEF CallbackReturn, ClearFlag, InFlag, One, TypeOK, EisType
      <4>3. QED
        BY <1>0, <4>1, <4>2, Parts
    <3>5. QED
      BY <1>2, <3>1, <3>2, <3>3, <3>4 DEF EventLoop
  <2>4. QED
    BY <1>0, <2>1, <2>2, <2>3, Parts DEF EventInv
<1>3. QED
  BY <1>1, <1>2

\* interruptEventLoop takes no part: it moves the drain thread between places where it
\* has nothing to hand on.
LEMMA EventRemove ==
  ASSUME TypeOK, EventInv, Remove
  PROVE  EventInv'
<1>1. UNCHANGED <<owing, loop>>
  BY DEF Remove, history
<1>2. /\ eis'.writing = eis.writing
      /\ eis'.output_buffer_empty_flag = eis.output_buffer_empty_flag
  <2>1. CASE RemoveEventListener \/ KillDrain \/ CancelDrain
    BY <2>1 DEF RemoveEventListener, KillDrain, CancelDrain
  <2>2. CASE InterruptEventLoop
    BY <2>2 DEF InterruptEventLoop, TypeOK, EisType
  <2>3. CASE SetClosing
    BY <2>3 DEF SetClosing, Store, TypeOK, EisType
  <2>4. QED
    BY <2>1, <2>2, <2>3 DEF Remove
<1>3. drain' = drain \/ (drain = "tcdrain" /\ drain' = "top")
  BY DEF Remove, RemoveEventListener, InterruptEventLoop, KillDrain, CancelDrain, SetClosing
<1>4. InSend' = InSend /\ InFlag' = InFlag
  BY <1>1, <1>2 DEF InSend, InFlag
<1>5. InWriting' = InWriting
  BY <1>2, <1>3 DEF InWriting
<1>6. QED
  BY <1>1, <1>4, <1>5 DEF EventInv, Gone

\* A write adds to both sides; a flush only takes away.
LEMMA EventOutput ==
  ASSUME TypeOK, EventInv, NEW w \in Thread, Output(w)
  PROVE  EventInv'
<1>1. UNCHANGED <<drain, loop>> /\ owing \in Int
  BY DEF Output, TypeOK
<1>2. CASE UNCHANGED <<eis, owing>>
  BY <1>1, <1>2, EventKept
<1>3. CASE SetWriting(w)
  <2>1. CASE Gone
    BY <1>2, <1>3, <2>1 DEF SetWriting
  <2>2. CASE ~Gone
    <3>1. Store("writing", TRUE) /\ owing' = owing + 1
      BY Zenon, <1>3, <2>2 DEF SetWriting
    <3>2. eis'.output_buffer_empty_flag = eis.output_buffer_empty_flag
      BY <3>1 DEF Store, TypeOK, EisType
    <3>3. InSend' = InSend /\ InFlag' = InFlag
      BY <1>1, <3>2 DEF InSend, InFlag
    <3>4. QED
      BY <1>1, <2>2, <3>1, <3>3, Parts DEF EventInv, Gone
  <2>3. QED
    BY <2>1, <2>2
<1>4. CASE FlushClearWriting(w) \/ FlushClearFlag(w)
  <2>1. owing' = owing
    BY <1>4 DEF FlushClearWriting, FlushClearFlag, history
  <2>2. /\ eis'.writing => eis.writing
        /\ eis'.output_buffer_empty_flag => eis.output_buffer_empty_flag
    BY <1>4 DEF FlushClearWriting, FlushClearFlag, Store, TypeOK, EisType
  <2>3. InSend' = InSend
    BY <1>1 DEF InSend
  <2>4. InFlag' <= InFlag
    BY <1>1, <2>2 DEF InFlag, One
  <2>5. InWriting' <= InWriting
    BY <1>1, <2>2 DEF InWriting, One
  <2>6. QED
    BY <1>1, <2>1, <2>3, <2>4, <2>5, Parts DEF EventInv, Gone
<1>5. QED
  BY <1>2, <1>3, <1>4
  DEF Output, Enter, Write, FlushTcdrain, FlushTest, FlushSend, history

\* Every step keeps the count.
LEMMA EventStep ==
  ASSUME TypeOK, EventInv, [Next]_vars
  PROVE  EventInv'
<1>1. CASE DrainLoop
  BY <1>1, EventDrain
<1>2. CASE EventLoop
  BY <1>2, EventLoopStep
<1>3. CASE Remove
  BY <1>3, EventRemove
<1>4. ASSUME NEW w \in Thread, Start(w)
      PROVE  EventInv'
  BY <1>4, EventKept DEF Start, Call, history
<1>5. ASSUME NEW w \in Thread, Output(w)
      PROVE  EventInv'
  BY <1>5, EventOutput
<1>6. ASSUME NEW enable \in BOOLEAN, NotifyOnOutputEmpty(enable)
      PROVE  EventInv'
  BY <1>6, EventKept DEF NotifyOnOutputEmpty, TypeOK, EisType
<1>7. CASE Transmit \/ Unplug
  BY <1>7, EventKept DEF Transmit, Unplug, history
<1>8. CASE UNCHANGED vars
  BY <1>8, EventKept DEF vars, history
<1>9. QED
  BY <1>1, <1>2, <1>3, <1>4, <1>5, <1>6, <1>7, <1>8 DEF Next

-----------------------------------------------------------------------------
(* Theorems.                                                               *)

\* The initial state satisfies the invariant.
LEMMA IInvInit == Init => IInv
<1> SUFFICES ASSUME Init PROVE IInv
  OBVIOUS
<1>1. TypeOK
  BY TypeInit
<1>2. CloseInv
  BY DEF Init, Blank, CloseInv, Gone
<1>3. InSend = 0 /\ InFlag = 0 /\ InWriting = 0
  BY DEF Init, Blank, InSend, InFlag, InWriting, One
<1>4. EventInv
  BY <1>3 DEF Init, EventInv
<1>5. StrayInv
  BY DEF Init, StrayInv, Gone
<1>6. QED
  BY <1>1, <1>2, <1>4, <1>5 DEF IInv

\* The invariant holds in every reachable state.
THEOREM Invariance == Spec => []IInv
<1>1. Init => IInv
  BY IInvInit
<1>2. IInv /\ [Next]_vars => IInv'
  BY TypeStep, CloseStep, StrayStep, EventStep DEF IInv
<1>3. QED
  BY <1>1, <1>2, PTL DEF Spec

\* The variables keep their types.
THEOREM TypeCorrect == Spec => []TypeOK
<1>1. IInv => TypeOK
  BY DEF IInv
<1>2. QED
  BY <1>1, Invariance, PTL

\* After eventLoop has returned, drain_loop stores at most three times where the
\* event_info_struct was.
THEOREM DrainStops == Spec => []LastRound
<1>1. IInv => LastRound
  <2> SUFFICES ASSUME IInv PROVE LastRound
    OBVIOUS
  <2>1. StoresLeft \in Nat /\ stray \in Nat
    BY DEF StoresLeft, IInv, TypeOK
  <2>2. QED
    BY <2>1 DEF IInv, StrayInv, LastRound
<1>2. QED
  BY <1>1, Invariance, PTL

\* The loop sends at most one OUTPUT_BUFFER_EMPTY for each time a write sets writing.
THEOREM OneEventPerWrite == Spec => []EventsPerWrite
<1>1. IInv => EventsPerWrite
  <2> SUFFICES ASSUME IInv PROVE EventsPerWrite
    OBVIOUS
  <2>1. owing \in Int
    BY DEF IInv, TypeOK
  <2>2. QED
    BY <2>1, Parts DEF IInv, EventInv, EventsPerWrite
<1>2. QED
  BY <1>1, Invariance, PTL
=============================================================================
