---------------------------- MODULE OutputEvents ----------------------------
(***************************************************************************)
(* OUTPUT_BUFFER_EMPTY on the Unix builds without TIOCSERGETLSR (FreeBSD,  *)
(* Mac OS X), where the kernel does not say when the output buffer is      *)
(* empty.  Each event loop has a drain thread there, which turns a         *)
(* tcdrain() after a write into a flag for the loop.  Five kinds of        *)
(* threads share the event_info_struct without a lock: the drain thread,   *)
(* the event loop and the listener it calls, the writers, and the one      *)
(* that stops the loop.                                                    *)
(*                                                                         *)
(* One port, from the start of its event loop to its end.                  *)
(***************************************************************************)
EXTENDS Integers

CONSTANTS Writers,     \* threads that write and flush
          Listener,    \* the one of them that does so from serialEvent
          MaxCalls,    \* bound on their calls, together
          MaxOut       \* size of the device's output buffer

ASSUME WritersAssumption == Listener \notin Writers
ASSUME CallsAssumption == MaxCalls \in Nat
ASSUME OutAssumption == MaxOut \in Nat \ {0}

Thread == Writers \cup {Listener}

VARIABLES eis,         \* the event_info_struct
          out,         \* bytes in the device's output buffer
          device,      \* "ok", or "gone" (unplugged): tcdrain and write fail
          drain,       \* where the drain thread is in drain_loop
          loop,        \* where the monitor thread is in eventLoop
          stop,        \* where removeEventListener is in interruptEventLoop
          monThreadisInterrupted, \* the field of the port
          cancelled,   \* pthread_cancel of the drain thread is pending
          pc,          \* where each thread is in write or flush
          interrupted, \* the argument of writeByte, writeArray and nativeDrain
          calls,       \* how many calls they have made
          fault,       \* a null pointer was dereferenced: the process is gone
          owing,       \* history: stores of writing = 1, less events the loop has sent
          awaited,     \* history: a write is owed an event
          overlap,     \* history: a store was lost to a concurrent one
          stray        \* history: the drain thread's stores after the loop's return

deviceVars == <<out, device>>
stopVars == <<stop, monThreadisInterrupted, cancelled>>
callVars == <<pc, interrupted, calls, fault>>
history == <<owing, awaited, overlap, stray>>
vars == <<eis, deviceVars, drain, loop, stopVars, callVars, history>>

EisType ==
  [closing : BOOLEAN,
   eventloop_interrupted : BOOLEAN,
   writing : BOOLEAN,
   output_buffer_empty_flag : BOOLEAN,
   notify : BOOLEAN]              \* eventflags[SPE_OUTPUT_BUFFER_EMPTY]

DrainLoc == {"top", "sleep", "awake", "tcdrain", "test", "setFlag", "clearWriting",
             "end", "exited"}
LoopLoc == {"select", "report", "send", "callback", "clearFlag", "returned"}
StopLoc == {"idle", "search", "kill", "wait", "close", "done"}
CallLoc == {"idle", "enter", "write", "setWriting", "tcdrain", "test", "clearWriting",
            "clearFlag", "send"}

TypeOK ==
  /\ eis \in EisType
  /\ out \in 0 .. MaxOut
  /\ device \in {"ok", "gone"}
  /\ drain \in DrainLoc
  /\ loop \in LoopLoc
  /\ stop \in StopLoc
  /\ monThreadisInterrupted \in BOOLEAN
  /\ cancelled \in BOOLEAN
  /\ pc \in [Thread -> [op : {"none", "write", "flush"}, at : CallLoc]]
  /\ interrupted \in [Thread -> BOOLEAN]
  /\ calls \in 0 .. MaxCalls
  /\ fault \in BOOLEAN
  /\ owing \in Int
  /\ awaited \in BOOLEAN
  /\ overlap \in BOOLEAN
  /\ stray \in Nat

Blank == [closing |-> FALSE, eventloop_interrupted |-> FALSE, writing |-> FALSE,
          output_buffer_empty_flag |-> FALSE, notify |-> FALSE]

\* initialise_event_info_struct and init_threads are done.
Init ==
  /\ eis = Blank
  /\ out = 0
  /\ device = "ok"
  /\ drain = "top"
  /\ loop = "select"
  /\ stop = "idle"
  /\ monThreadisInterrupted = FALSE
  /\ cancelled = FALSE
  /\ pc = [w \in Thread |-> [op |-> "none", at |-> "idle"]]
  /\ interrupted = [w \in Thread |-> FALSE]
  /\ calls = 0
  /\ fault = FALSE
  /\ owing = 0
  /\ awaited = FALSE
  /\ overlap = FALSE
  /\ stray = 0

\* The structure is a local variable of eventLoop: once that has returned, what a
\* thread reads through a pointer to it is whatever is in that memory by then.
Gone == loop = "returned"
Reads(value) == IF Gone THEN BOOLEAN ELSE {value}

\* What a store through such a pointer changes is no longer the structure.
Store(field, value) ==
  eis' = IF Gone THEN eis ELSE [eis EXCEPT ![field] = value]

-----------------------------------------------------------------------------
(* drain_loop.                                                             *)

DrainTop ==
  /\ drain = "top"
  /\ \E i \in Reads(eis.eventloop_interrupted) : drain' = IF i THEN "end" ELSE "sleep"
  /\ UNCHANGED eis

\* usleep: a second, or until a signal.
DrainWake ==
  /\ drain = "sleep"
  /\ ~cancelled
  /\ drain' = "awake"
  /\ UNCHANGED eis

DrainAwake ==
  /\ drain = "awake"
  /\ \E i \in Reads(eis.eventloop_interrupted) : drain' = IF i THEN "end" ELSE "tcdrain"
  /\ UNCHANGED eis

\* tcdrain returns: everything is sent, or the descriptor is bad.  (EINTR is in
\* KillDrain: the only signal is that of interruptEventLoop.)
DrainTcdrain ==
  /\ drain = "tcdrain"
  /\ ~cancelled
  /\ \/ device = "ok" /\ out = 0 /\ drain' = "test"
     \/ device = "gone" /\ drain' = "end"
  /\ UNCHANGED eis

DrainTest ==
  /\ drain = "test"
  /\ \E w \in Reads(eis.writing) : drain' = IF w THEN "setFlag" ELSE "top"
  /\ UNCHANGED eis

DrainSetFlag ==
  /\ drain = "setFlag"
  /\ Store("output_buffer_empty_flag", TRUE)
  /\ drain' = "clearWriting"

\* Mutant: writing stays set.
DrainKeepsWriting ==
  /\ drain = "clearWriting"
  /\ drain' = "top"
  /\ UNCHANGED eis

DrainClearWriting ==
  /\ drain = "clearWriting"
  /\ Store("writing", FALSE)
  /\ drain' = "top"

DrainEnd ==
  /\ drain = "end"
  /\ Store("closing", TRUE)
  /\ drain' = "exited"

\* Cancellation is deferred: a cancelled thread goes on until it is at one of the two
\* calls that are cancellation points.
DrainCancelled ==
  /\ drain \in {"sleep", "tcdrain"}
  /\ cancelled
  /\ drain' = "exited"
  /\ UNCHANGED eis

\* The flag is set while the loop has yet to clear the one it has reported: the loop
\* then clears this one too.
DrainLoop ==
  /\ \/ DrainTop \/ DrainWake \/ DrainAwake \/ DrainTcdrain \/ DrainTest
     \/ DrainSetFlag \/ DrainClearWriting \/ DrainEnd \/ DrainCancelled
  /\ overlap' = (overlap \/ (drain = "setFlag" /\ loop \in {"callback", "clearFlag"}))
  /\ stray' = IF Gone /\ drain \in {"setFlag", "clearWriting", "end"} THEN stray + 1 ELSE stray
  /\ UNCHANGED <<deviceVars, loop, stopVars, callVars, owing, awaited>>

-----------------------------------------------------------------------------
(* eventLoop, with check_line_status_register.                             *)

\* closing is set: finalize_threads, finalize_event_info_struct, return.  What becomes
\* of the structure's memory is in Reads and Store.
LoopExit ==
  /\ loop = "select"
  /\ eis.closing
  /\ eis' = Blank
  /\ loop' = "returned"
  /\ UNCHANGED <<owing, awaited>>

LoopSelect ==
  /\ loop = "select"
  /\ ~eis.closing
  /\ loop' = "report"
  /\ UNCHANGED <<eis, owing, awaited>>

CheckLineStatus ==
  /\ loop = "report"
  /\ loop' = IF eis.output_buffer_empty_flag /\ eis.notify THEN "send" ELSE "select"
  /\ UNCHANGED <<eis, owing, awaited>>

\* send_event: RXTXPort.sendEvent calls the listener, unless interrupted.
SendEvent ==
  /\ loop = "send"
  /\ owing' = owing - 1
  /\ IF monThreadisInterrupted
     THEN loop' = "clearFlag" /\ UNCHANGED awaited
     ELSE loop' = "callback" /\ awaited' = FALSE
  /\ UNCHANGED eis

\* serialEvent returns.
CallbackReturn ==
  /\ loop = "callback"
  /\ pc[Listener].at = "idle"
  /\ loop' = "clearFlag"
  /\ UNCHANGED <<eis, owing, awaited>>

ClearFlag ==
  /\ loop = "clearFlag"
  /\ eis' = [eis EXCEPT !.output_buffer_empty_flag = FALSE]
  /\ loop' = "select"
  /\ UNCHANGED <<owing, awaited>>

EventLoop ==
  /\ \/ LoopExit \/ LoopSelect \/ CheckLineStatus \/ SendEvent \/ CallbackReturn
     \/ ClearFlag
  /\ UNCHANGED <<deviceVars, drain, stopVars, callVars, overlap, stray>>

-----------------------------------------------------------------------------
(* removeEventListener and interruptEventLoop.                             *)

\* if( monThread.isAlive() ) monThreadisInterrupted = true
RemoveEventListener ==
  /\ stop = "idle"
  /\ monThreadisInterrupted' = TRUE
  /\ stop' = IF Gone THEN "done" ELSE "search"
  /\ UNCHANGED <<eis, drain, cancelled>>

\* Searches master_index until the structure is there, and marks it.
InterruptEventLoop ==
  /\ stop = "search"
  /\ ~Gone
  /\ eis' = [eis EXCEPT !.eventloop_interrupted = TRUE]
  /\ stop' = "kill"
  /\ UNCHANGED <<drain, monThreadisInterrupted, cancelled>>

\* pthread_kill( SIGABRT ) makes tcdrain return with EINTR, or, with some drivers,
\* does not.  A usleep it interrupts is a DrainWake.
KillDrain ==
  /\ stop = "kill"
  /\ stop' = "wait"
  /\ drain' \in {drain} \cup (IF drain = "tcdrain" THEN {"top"} ELSE {})
  /\ UNCHANGED <<eis, monThreadisInterrupted, cancelled>>

\* Mutant: the thread that blocks in tcdrain is left alone.
WaitForDrain ==
  /\ stop = "wait"
  /\ drain = "exited"
  /\ stop' = "done"
  /\ UNCHANGED <<eis, drain, monThreadisInterrupted, cancelled>>

\* Mutant: the drain thread is not cancelled.
CloseWithoutCancel ==
  /\ stop = "wait"
  /\ stop' = "close"
  /\ UNCHANGED <<eis, drain, monThreadisInterrupted, cancelled>>

\* After usleep( 50 ms ), wherever the drain thread is by then: unless closing is set
\* (by the drain thread, as it ends) pthread_cancel.  The structure may be gone.
CancelDrain ==
  /\ stop = "wait"
  /\ \E closing \in Reads(eis.closing) :
       IF closing THEN stop' = "done" /\ UNCHANGED cancelled
       ELSE stop' = "close" /\ cancelled' = TRUE
  /\ UNCHANGED <<eis, drain, monThreadisInterrupted>>

\* index->closing = 1, for the loop to see.
SetClosing ==
  /\ stop = "close"
  /\ Store("closing", TRUE)
  /\ stop' = "done"
  /\ UNCHANGED <<drain, monThreadisInterrupted, cancelled>>

Remove ==
  /\ \/ RemoveEventListener \/ InterruptEventLoop \/ KillDrain \/ CancelDrain
     \/ SetClosing
  /\ UNCHANGED <<deviceVars, loop, callVars, history>>

-----------------------------------------------------------------------------
(* SerialOutputStream.write with writeByte or writeArray, and flush with   *)
(* nativeDrain.                                                            *)

At(w, l) == pc[w].at = l
Goto(w, l) == pc' = [pc EXCEPT ![w].at = l]
Return(w) == pc' = [pc EXCEPT ![w] = [op |-> "none", at |-> "idle"]]

\* A call returns at once when the monitor thread is interrupted.  The listener calls
\* from serialEvent.
Call(w, op) ==
  /\ At(w, "idle")
  /\ w = Listener => loop = "callback"
  /\ calls < MaxCalls
  /\ ~monThreadisInterrupted
  /\ calls' = calls + 1
  /\ pc' = [pc EXCEPT ![w] = [op |-> op, at |-> "enter"]]
  /\ UNCHANGED <<eis, out, interrupted, fault, history>>

\* The native method gets monThreadisInterrupted as it is now.
Enter(w) ==
  /\ At(w, "enter")
  /\ interrupted' = [interrupted EXCEPT ![w] = monThreadisInterrupted]
  /\ Goto(w, IF pc[w].op = "write" THEN "write" ELSE "tcdrain")
  /\ UNCHANGED <<eis, out, calls, fault, history>>

\* write(2) waits for room in the buffer, and fails when the device is gone.
Write(w) ==
  /\ At(w, "write")
  /\ \/ /\ device = "ok"
        /\ out < MaxOut
        /\ out' = out + 1
        /\ awaited' = (awaited \/ eis.notify)
        /\ IF interrupted[w] THEN Return(w) ELSE Goto(w, "setWriting")
     \/ /\ device = "gone"
        /\ Return(w)
        /\ UNCHANGED <<out, awaited>>
  /\ UNCHANGED <<eis, interrupted, calls, fault, owing, overlap, stray>>

\* index->writing = 1, of the structure with this descriptor.  With the loop gone,
\* writeByte has found an empty list, a null pointer; writeArray, whose pointer is older
\* than its write(2), may have one to what was the structure.  A store between the
\* drain thread's test of writing and its reset is lost.
SetWriting(w) ==
  /\ At(w, "setWriting")
  /\ IF Gone
     THEN fault' \in BOOLEAN /\ UNCHANGED <<eis, owing, overlap>>
     ELSE /\ Store("writing", TRUE)
          /\ owing' = owing + 1
          /\ overlap' = (overlap \/ drain \in {"setFlag", "clearWriting"})
          /\ UNCHANGED fault
  /\ Return(w)
  /\ UNCHANGED <<out, interrupted, calls, awaited, stray>>

\* nativeDrain waits until everything is sent.  When tcdrain fails it goes on all the
\* same, with an exception pending.
FlushTcdrain(w) ==
  /\ At(w, "tcdrain")
  /\ out = 0 \/ device = "gone"
  /\ IF interrupted[w] THEN Return(w) ELSE Goto(w, "test")
  /\ UNCHANGED <<eis, out, interrupted, calls, fault, history>>

\* if( eis && eis->writing )
FlushTest(w) ==
  /\ At(w, "test")
  /\ \E writing \in Reads(eis.writing) : Goto(w, IF writing THEN "clearWriting" ELSE "send")
  /\ UNCHANGED <<eis, out, interrupted, calls, fault, history>>

FlushClearWriting(w) ==
  /\ At(w, "clearWriting")
  /\ Store("writing", FALSE)
  /\ Goto(w, "clearFlag")
  /\ UNCHANGED <<out, interrupted, calls, fault, history>>

\* Mutant: a flush that has reset writing sends no event.
FlushSilently(w) ==
  /\ At(w, "clearFlag")
  /\ Store("output_buffer_empty_flag", FALSE)
  /\ Return(w)
  /\ UNCHANGED <<out, interrupted, calls, fault, history>>

FlushClearFlag(w) ==
  /\ At(w, "clearFlag")
  /\ Store("output_buffer_empty_flag", FALSE)
  /\ Goto(w, "send")
  /\ UNCHANGED <<out, interrupted, calls, fault, history>>

\* flush reports the event itself, written or not.
FlushSend(w) ==
  /\ At(w, "send")
  /\ \E notify \in Reads(eis.notify) :
       awaited' = (awaited /\ ~(notify /\ ~monThreadisInterrupted))
  /\ Return(w)
  /\ UNCHANGED <<eis, out, interrupted, calls, fault, owing, overlap, stray>>

Output(w) ==
  /\ \/ Enter(w) \/ Write(w) \/ SetWriting(w) \/ FlushTcdrain(w) \/ FlushTest(w)
     \/ FlushClearWriting(w) \/ FlushClearFlag(w) \/ FlushSend(w)
  /\ UNCHANGED <<device, drain, loop, stopVars>>

Start(w) ==
  /\ \E op \in {"write", "flush"} : Call(w, op)
  /\ UNCHANGED <<device, drain, loop, stopVars>>

\* notifyOnOutputEmpty, by way of nativeSetEventFlag.
NotifyOnOutputEmpty(enable) ==
  /\ ~Gone
  /\ eis.notify # enable
  /\ eis' = [eis EXCEPT !.notify = enable]
  /\ awaited' = (awaited /\ enable)
  /\ UNCHANGED <<deviceVars, drain, loop, stopVars, callVars, owing, overlap, stray>>

-----------------------------------------------------------------------------
\* The device sends a byte, for as long as it is not stopped by flow control.
Transmit ==
  /\ device = "ok"
  /\ out > 0
  /\ out' = out - 1
  /\ UNCHANGED <<eis, device, drain, loop, stopVars, callVars, history>>

Unplug ==
  /\ device = "ok"
  /\ device' = "gone"
  /\ UNCHANGED <<eis, out, drain, loop, stopVars, callVars, history>>

Next ==
  /\ ~fault
  /\ \/ DrainLoop
     \/ EventLoop
     \/ Remove
     \/ \E w \in Thread : Start(w) \/ Output(w)
     \/ \E enable \in BOOLEAN : NotifyOnOutputEmpty(enable)
     \/ Transmit
     \/ Unplug

Spec == Init /\ [][Next]_vars

\* Every thread goes on with what it is doing.  Nobody has to write, to remove the
\* listener or to change the flag, and the device need not send.
Fairness ==
  /\ WF_vars(~fault /\ DrainLoop)
  /\ WF_vars(~fault /\ EventLoop)
  /\ WF_vars(~fault /\ stop # "idle" /\ Remove)
  /\ \A w \in Thread : WF_vars(~fault /\ Output(w))

FairSpec == Spec /\ Fairness

-----------------------------------------------------------------------------
(* Properties.                                                             *)

\* The event_info_struct is a local variable of eventLoop, and interruptEventLoop gives
\* the drain thread no more than 50 ms to be out of it.  A thread that is late, wherever
\* it is then, finishes its round and does not start another: it stores at most three
\* more times (the flag, writing, closing) where the structure was.
LastRound == stray <= 3

\* One write sets writing once, and the loop reports at most one event for it: neither
\* a slow listener, nor a flush, nor flags changed by notifyOnOutputEmpty make two.
EventsPerWrite == owing >= 0

Blocked(w) == pc[w].at \in {"write", "tcdrain"}

\* removeEventListener gets out of interruptEventLoop, and the drain thread ends, whether
\* it sleeps, blocks in tcdrain for ever or reads anything in what was the structure;
\* unless the device goes away between isAlive() and the search.
StopReturns ==
  stop = "search" ~> (stop = "done" /\ drain = "exited") \/ device = "gone" \/ fault

\* A write that is owed an OUTPUT_BUFFER_EMPTY gets one once the output is empty for
\* good, as long as nobody removes the listener or unplugs the device.
Excused == monThreadisInterrupted \/ device = "gone" \/ fault
Sent == <>[](out = 0)

WriteReported ==
  Sent /\ []<>(~Blocked(Listener)) => (awaited ~> (~awaited \/ Excused \/ overlap))
=============================================================================
