------------------------------ MODULE LineEvents ------------------------------
(***************************************************************************)
(* The passes of eventLoop over the modem lines and the error counters:    *)
(* report_serial_events looks at the line status register, the counters    *)
(* and the lines in turn and calls send_event for each difference to what  *)
(* it saw before; each call runs Java code, during which lines change and  *)
(* errors happen.  "windows" is the build over termios.c, which has no     *)
(* counters: each ioctl takes the error flags of the driver and counts.    *)
(***************************************************************************)
EXTENDS Integers

CONSTANTS
  Lines,      \* lines, numbered as they are compared: CTS, DSR, RI, CD
  Counters,   \* counters, numbered as they are compared: frame, overrun, parity, brk
  Start,      \* what the driver's counters may be when the loop starts
  W,          \* counters wrap at W (2^32 in the code)
  MaxErrors   \* bound: errors of one kind, and of any two together

ASSUME LinesAssumption == Lines \subseteq Nat
ASSUME CountersAssumption == Counters \subseteq Nat
ASSUME WAssumption == W \in Nat \ {0} /\ MaxErrors \in Nat /\ Start \subseteq 0 .. W - 1

Overrun == 2

VARIABLES
  build,      \* "unix" or "windows"
  caps,       \* what the driver answers: TIOCGICOUNT, TIOCSERGETLSR, TIOCMGET
  level,      \* the modem lines
  count,      \* the counters of the driver, or those of termios.c
  flagged,    \* Windows: the errors since the last ClearCommError
  output,     \* eventflags[SPE_OUTPUT_BUFFER_EMPTY]
  closing,    \* interruptEventLoop has been called
  pc,         \* where the event loop is
  omflags, osis,   \* eis: lines and counters the last pass ended with
  mflags, sis,     \* locals: those of this pass
  todo,       \* lines that differ and have not been sent yet
  told, since,     \* history: last level sent, levels since then
  errs, sent  \* history: errors that happened, error events sent

env == <<build, caps, level, errs>>
eis == <<omflags, osis>>
local == <<mflags, sis, todo>>
flags == <<output, closing>>
vars == <<env, count, flagged, flags, pc, eis, local, told, since, sent>>

(* Every variable holds a value of its type. *)
TypeOK ==
  /\ build \in {"unix", "windows"}
  /\ caps \in [icount : BOOLEAN, lsr : BOOLEAN, mget : BOOLEAN]
  /\ level \in [Lines -> BOOLEAN] /\ told \in [Lines -> BOOLEAN]
  /\ mflags \in [Lines -> BOOLEAN] /\ omflags \in [Lines -> BOOLEAN]
  /\ since \in [Lines -> SUBSET BOOLEAN] /\ todo \subseteq Lines
  /\ count \in [Counters -> 0 .. W - 1] /\ sis \in [Counters -> 0 .. W - 1]
  /\ osis \in [Counters -> 0 .. W - 1]
  /\ errs \in [Counters -> 0 .. MaxErrors] /\ sent \in [Counters -> Nat]
  /\ flagged \subseteq Counters
  /\ output \in BOOLEAN /\ closing \in BOOLEAN
  /\ pc \in {"top", "lsr", "icount", "counts", "tiocmget", "lines", "data", "ended"}

\* Mutant: the counters are not read before the first pass.
FromZero == [c \in Counters |-> 0]
\* driver_has_tiocgicount, through which osis gets its first values
FirstCounts == IF caps.icount THEN count ELSE [c \in Counters |-> 0]

\* initialise_event_info_struct; termios.c answers every request
Init ==
  /\ build \in {"unix", "windows"}
  /\ caps \in [icount : BOOLEAN, lsr : BOOLEAN, mget : BOOLEAN]
  /\ build = "windows" => caps.icount /\ caps.lsr /\ caps.mget
  /\ level \in [Lines -> BOOLEAN]
  /\ \E n \in Start : count = [c \in Counters |-> n]
  /\ flagged = {} /\ output = FALSE /\ closing = FALSE
  /\ omflags = level /\ mflags = level
  /\ osis = FirstCounts /\ sis = FirstCounts
  /\ todo = {} /\ pc = "top"
  /\ told = level /\ since = [l \in Lines |-> {level[l]}]
  /\ errs = [c \in Counters |-> 0] /\ sent = [c \in Counters |-> 0]

-----------------------------------------------------------------------------
\* Mutant: of several flags raised at once only one is looked at.
CountedFirst ==
  [c \in Counters |-> IF c \in flagged \ {Overrun} /\ \A d \in flagged : d <= c
                      THEN (count[c] + 1) % W ELSE count[c]]
\* One more for each flag, however many errors it stands for; the overrun flags
\* are compiled out
Counted ==
  [c \in Counters |-> IF c \in flagged \ {Overrun} THEN (count[c] + 1) % W ELSE count[c]]
ClearErrors ==
  IF build = "windows" THEN count' = Counted /\ flagged' = {}
  ELSE UNCHANGED <<count, flagged>>

Loop(from, to) == pc = from /\ pc' = to

\* The top of the inner loop, then SELECT, which comes back in any case
eventLoop ==
  /\ Loop("top", IF closing THEN "ended" ELSE "lsr")
  /\ UNCHANGED <<env, count, flagged, flags, eis, local, told, since, sent>>

\* Without access to the register a listener for OUTPUT_BUFFER_EMPTY ends the pass
check_line_status_register ==
  /\ Loop("lsr", IF output /\ ~caps.lsr THEN "top"
                 ELSE IF caps.icount THEN "icount" ELSE "tiocmget")
  /\ IF output THEN ClearErrors ELSE UNCHANGED <<count, flagged>>
  /\ UNCHANGED <<env, flags, eis, local, told, since, sent>>

\* The counters as they are once the errors of the driver have been counted
TIOCGICOUNT == ClearErrors /\ sis' = count'

check_cgi_count ==
  /\ Loop("icount", "counts")
  /\ TIOCGICOUNT
  /\ UNCHANGED <<env, flags, eis, mflags, todo, told, since, sent>>

Differs == {c \in Counters : sis[c] # osis[c]}
SendCount(c) ==
  /\ Loop("counts", "counts")
  /\ c \in Differs /\ \A d \in Differs : c <= d
  /\ osis' = [osis EXCEPT ![c] = (@ + 1) % W]
  /\ sent' = [sent EXCEPT ![c] = @ + 1]
  /\ UNCHANGED <<env, count, flagged, flags, omflags, local, told, since>>
CountsDone ==
  /\ Loop("counts", "tiocmget")
  /\ Differs = {}
  /\ osis' = sis
  /\ UNCHANGED <<env, count, flagged, flags, omflags, local, told, since, sent>>

check_tiocmget_changes ==
  /\ Loop("tiocmget", IF caps.mget THEN "lines" ELSE "data")
  /\ IF caps.mget THEN mflags' = level /\ todo' = {l \in Lines : level[l] # omflags[l]}
     ELSE UNCHANGED <<mflags, todo>>
  /\ ClearErrors
  /\ UNCHANGED <<env, flags, eis, sis, told, since, sent>>

\* Mutant: the event carries the line as it is when the event is sent.
SendNow(l) ==
  /\ Loop("lines", "lines")
  /\ l \in todo /\ \A k \in todo : l <= k
  /\ todo' = todo \ {l}
  /\ told' = [told EXCEPT ![l] = level[l]]
  /\ since' = [since EXCEPT ![l] = {level[l]}]
  /\ UNCHANGED <<env, count, flagged, flags, eis, mflags, sis, sent>>
SendLine(l) ==
  /\ Loop("lines", "lines")
  /\ l \in todo /\ \A k \in todo : l <= k
  /\ todo' = todo \ {l}
  /\ told' = [told EXCEPT ![l] = mflags[l]]
  /\ since' = [since EXCEPT ![l] = {level[l]}]
  /\ UNCHANGED <<env, count, flagged, flags, eis, mflags, sis, sent>>

\* Mutant: omflags is read anew when the events have been sent.
LinesReread ==
  /\ Loop("lines", "data")
  /\ todo = {}
  /\ omflags' = level
  /\ UNCHANGED <<env, count, flagged, flags, osis, local, told, since, sent>>
LinesDone ==
  /\ Loop("lines", "data")
  /\ todo = {}
  /\ omflags' = mflags
  /\ UNCHANGED <<env, count, flagged, flags, osis, local, told, since, sent>>

\* DATA_AVAILABLE or nothing, and initialise_event_info_struct again
port_has_changed_fionread ==
  /\ Loop("data", "top")
  /\ ClearErrors
  /\ UNCHANGED <<env, flags, eis, local, told, since, sent>>

report_serial_events ==
  \/ check_line_status_register
  \/ check_cgi_count \/ (\E c \in Counters : SendCount(c)) \/ CountsDone
  \/ check_tiocmget_changes \/ (\E l \in Lines : SendLine(l)) \/ LinesDone
  \/ port_has_changed_fionread

-----------------------------------------------------------------------------
Change(l) ==
  /\ level' = [level EXCEPT ![l] = ~level[l]]
  /\ since' = [since EXCEPT ![l] = @ \cup {~level[l]}]
  /\ UNCHANGED <<build, caps, errs, count, flagged, flags, pc, eis, local, told, sent>>

Error(c) ==
  /\ errs[c] < MaxErrors
  /\ \A d \in Counters \ {c} : errs[c] + errs[d] < MaxErrors
  /\ errs' = [errs EXCEPT ![c] = @ + 1]
  /\ IF build = "windows" THEN flagged' = flagged \cup {c} /\ UNCHANGED count
     ELSE count' = [count EXCEPT ![c] = (@ + 1) % W] /\ UNCHANGED flagged
  /\ UNCHANGED <<build, caps, level, flags, pc, eis, local, told, since, sent>>

\* isCTS, setRTS and the like of other threads: any ioctl clears the flags
Query ==
  /\ ClearErrors
  /\ UNCHANGED <<env, flags, pc, eis, local, told, since, sent>>

notifyOnOutputEmpty ==
  /\ output' \in BOOLEAN
  /\ UNCHANGED <<env, count, flagged, closing, pc, eis, local, told, since, sent>>

interruptEventLoop ==
  /\ closing' = TRUE
  /\ UNCHANGED <<env, count, flagged, output, pc, eis, local, told, since, sent>>

Next ==
  \/ eventLoop \/ report_serial_events
  \/ \E l \in Lines : Change(l)
  \/ \E c \in Counters : Error(c)
  \/ Query \/ notifyOnOutputEmpty \/ interruptEventLoop

Fairness == WF_vars(eventLoop \/ report_serial_events)

Spec == Init /\ [][Next]_vars
FairSpec == Spec /\ Fairness

-----------------------------------------------------------------------------
\* The pass does not end at the line status register, nor the loop
PassesGoOn == ~closing /\ (output => caps.lsr)

Watch == INSTANCE LineWatch WITH watched <- caps.mget /\ PassesGoOn

(* The lines are told as LineWatch promises: their levels in turn, and none *)
(* that a line has not had since it was last told, whatever the lines do    *)
(* while the events of a pass are sent one by one.                          *)
TellsInTurn == Watch!Spec

(* A line that keeps its level is told at that level in the end, unless the *)
(* loop is told to stop or a listener for OUTPUT_BUFFER_EMPTY on a port     *)
(* without line status register ends every pass before the lines.          *)
LinesSettle == Watch!Settles

(* There are never more events for errors of a kind than errors, although   *)
(* counters wrap and may be anything when the loop starts.                  *)
NoPhantomErrors == \A c \in Counters : sent[c] <= errs[c]

\* An error whose event is still to come
Pending(c) ==
  IF build = "windows" THEN c \in flagged \ {Overrun} ELSE errs[c] > sent[c]

(* An error is followed by an event of its kind, unless the passes end early *)
(* or the driver does not count.  Windows tells several errors as one, and   *)
(* overruns never.                                                           *)
ErrorsTold ==
  \A c \in Counters, n \in 0 .. MaxErrors - 1 :
    (Pending(c) /\ sent[c] = n) ~> (sent[c] > n \/ ~PassesGoOn \/ ~caps.icount)
==============================================================================
