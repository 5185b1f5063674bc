------------------------------- MODULE WinPorts -------------------------------
(***************************************************************************)
(* termios.c, the Windows build's file descriptors: a list of open ports,  *)
(* each with a made-up descriptor, and the calls that find a port in it.   *)
(* Nothing locks the list or its entries.  An open looks at the list,      *)
(* takes a number, finds the end, links the entry and opens the device in  *)
(* steps of their own; a call that changes the event mask for a while      *)
(* stores the entry's field and sets the driver's mask one after the       *)
(* other; other threads step in between.  A search of the list is one      *)
(* step.  A close frees the entry under the calls that use it; their       *)
(* pointer leads nowhere, or to the entry of a later open at that address. *)
(***************************************************************************)
EXTENDS Integers, Sequences, FiniteSets

CONSTANTS
  Files,      \* device names
  Threads,    \* threads that call
  Sizes,      \* sizes of reads
  MaxQueue,   \* bound: characters in an input queue
  MaxCalls    \* bound: calls made

NoFile == "no file"

ASSUME FilesAssumption == NoFile \notin Files
ASSUME BoundsAssumption == MaxQueue \in Nat /\ MaxCalls \in Nat /\ Sizes \subseteq Nat \ {0}

VARIABLES
  list,     \* the files of the list first_tl, in order
  node,     \* file -> its entry: descriptor, handle, event_flag, tx_happened
  handle,   \* the files whose device a handle is open for
  drv,      \* file -> the driver's event mask
  held,     \* the ports callers have open: [file, fd] of each serial_open
  outq, inq,      \* the driver's queues: whether output is left, input count
  brk,            \* file -> whether its line is held in the break state
  call,     \* thread -> the call it is in
  asked,    \* history: event mask last asked for with termios_setflags
  due,      \* history: a write has ended and no empty buffer was reported since
  gap,      \* history: an entry before the last was removed
  skipped,  \* history: a close did nothing for the first entry had no handle
  mingled,  \* history: the list has changed while another entry was added
  crossed,  \* history: files whose mask was asked for while a call had copied it
  lapped,   \* history: files whose mask was copied while a call had it changed
  raced,    \* history: files written while their register was looked at
  stuck,    \* history: files whose break could not be ended
  doubled,  \* history: files on which two breaks overlapped
  reused,   \* history: files whose entry a call from a freed entry can reach
  calls     \* calls made so far, at most MaxCalls

queues == <<outq, inq>>
entries == <<list, node, handle, drv, held>>
ghosts == <<gap, skipped, mingled>>
masks == <<asked, crossed, lapped>>
breaks == <<brk, stuck, doubled>>
vars == <<entries, queues, breaks, call, ghosts, masks, due, raced, reused, calls>>

Masks == SUBSET {"RXCHAR", "TXEMPTY"}
NoCall == [op |-> "none", at |-> "begun", file |-> NoFile, fd |-> 0, tail |-> NoFile,
           old |-> {}, size |-> 0, ok |-> TRUE]
Adding == {"adding", "numbered", "linking", "linked"}
Masking == {"write", "drain", "flush", "lsr"}
Ops == {"none", "open", "test", "crashed", "setflags", "look", "wait", "read", "break"}
         \cup Adding \cup Masking
Listed == {list[i] : i \in DOMAIN list}

(* Every variable holds a value of its type: an entry of the list has no   *)
(* number 0, which find_port takes for the end of the list.                *)
TypeOK ==
  /\ list \in Seq(Files)
  /\ node \in [Files -> [fd : Nat, hComm : {"none", "open", "invalid"},
                         flag : Masks, tx : BOOLEAN]]
  /\ \A f \in Listed : node[f].fd # 0
  /\ handle \subseteq Files /\ drv \in [Files -> Masks]
  /\ held \subseteq [file : Files, fd : Nat \ {0}]
  /\ outq \in [Files -> BOOLEAN] /\ inq \in [Files -> 0 .. MaxQueue]
  /\ brk \in [Files -> BOOLEAN]
  /\ call \in [Threads -> [op : Ops, at : {"begun", "changed", "set", "restored"},
                           file : Files \cup {NoFile}, fd : Nat, tail : Files \cup {NoFile},
                           old : Masks, size : Nat, ok : BOOLEAN]]
  /\ asked \in [Files -> Masks] /\ due \in [Files -> BOOLEAN]
  /\ {gap, skipped, mingled} \subseteq BOOLEAN
  /\ UNION {crossed, lapped, raced, stuck, doubled, reused} \subseteq Files
  /\ calls \in 0 .. MaxCalls

NewNode == [fd |-> 0, hComm |-> "none", flag |-> {}, tx |-> FALSE]

Init ==
  /\ list = <<>> /\ node = [f \in Files |-> NewNode] /\ held = {}
  /\ handle = {} /\ drv = [f \in Files |-> {}]
  /\ outq = [f \in Files |-> FALSE] /\ inq = [f \in Files |-> 0]
  /\ brk = [f \in Files |-> FALSE] /\ stuck = {} /\ doubled = {}
  /\ call = [t \in Threads |-> NoCall]
  /\ asked = [f \in Files |-> {}] /\ crossed = {} /\ lapped = {}
  /\ due = [f \in Files |-> FALSE] /\ raced = {} /\ reused = {}
  /\ gap = FALSE /\ skipped = FALSE /\ mingled = FALSE
  /\ calls = 0

-----------------------------------------------------------------------------
(* The list. *)

Fd(i) == node[list[i]].fd

\* The entry after i does not have the next number
Gap(i) == i = Len(list) \/ Fd(i + 1) # Fd(i) + 1
\* 1 if the first entry has another; else the number after the first gap, which an
\* entry further on may have
get_free_fd ==
  IF list = <<>> \/ Fd(1) > 1 THEN 1
  ELSE Fd(CHOOSE i \in DOMAIN list : Gap(i) /\ \A j \in 1 .. i - 1 : ~Gap(j)) + 1

port_opened(f) == f \in Listed

\* The place of the first entry with the number, as a set
First(fd) == {i \in DOMAIN list : Fd(i) = fd /\ \A j \in 1 .. i - 1 : Fd(j) # fd}
\* Mutant: the search starts at the second entry.
FindFromSecond(fd) ==
  IF First(fd) \ {1} = {} THEN NoFile ELSE list[CHOOSE i \in First(fd) \ {1} : TRUE]
find_port(fd) ==
  IF First(fd) = {} THEN NoFile ELSE list[CHOOSE i \in First(fd) : TRUE]

Without(i) == [k \in 1 .. Len(list) - 1 |-> IF k < i THEN list[k] ELSE list[k + 1]]
Upto(f) == SubSeq(list, 1, CHOOSE i \in DOMAIN list : list[i] = f)

Idle(t) == call[t].op = "none"
On(f, ops) == {t \in Threads : call[t].file = f /\ call[t].op \in ops}
Return(t) == call' = [call EXCEPT ![t] = NoCall]

\* Whether t has changed the list while another thread adds an entry
Mingles(t) ==
  mingled' = (mingled \/ (list' # list /\ \E u \in Threads \ {t} : call[u].op \in Adding))

\* serial_close: nothing at all if the first entry's device is not open yet
Skips == node[list[1]].hComm = "none"
Unlink(fd) ==
  LET f == find_port(fd) IN
  IF Skips \/ f = NoFile
  THEN /\ skipped' = (skipped \/ Skips)
       /\ UNCHANGED <<list, gap>>
  ELSE /\ \E i \in DOMAIN list :
            list[i] = f /\ list' = Without(i) /\ gap' = (gap \/ i # Len(list))
       /\ UNCHANGED skipped

\* The entry taken off the list is freed under the calls that use it, and its
\* handle closed, which ends a break
Frees(c) ==
  LET gone == Listed \ {list'[i] : i \in DOMAIN list'}
      shut == {f \in gone : node[f].hComm = "open"} IN
  /\ call' = [u \in Threads |->
                IF c[u].file \in gone /\ c[u].op \notin Adding \cup {"open", "test"}
                THEN [c[u] EXCEPT !.file = NoFile] ELSE c[u]]
  /\ handle' = handle \ shut
  /\ brk' = [f \in Files |-> brk[f] /\ f \notin shut]
  /\ stuck' = stuck \ shut

-----------------------------------------------------------------------------
(* serial_open and serial_close. *)

\* Callers open a name once, and not while a call uses an entry of it that fell
\* off the list
Opens(f) ==
  /\ ~port_opened(f) /\ f \notin {p.file : p \in held}
  /\ \A t \in Threads : call[t].file = f => call[t].op = "test"

\* port_opened, add_port's look at first_tl, and its malloc, which may return
\* memory that calls with a freed entry still use
serial_open(t, f) ==
  /\ Idle(t)
  /\ Opens(f)
  /\ \E S \in SUBSET {u \in Threads : ~Idle(u) /\ call[u].file = NoFile} :
       /\ call' = [u \in Threads |->
            IF u = t THEN [NoCall EXCEPT !.op = "adding", !.file = f,
                                         !.tail = IF list = <<>> THEN NoFile ELSE list[1]]
            ELSE IF u \in S THEN [call[u] EXCEPT !.file = f, !.ok = FALSE] ELSE call[u]]
       /\ reused' = IF S = {} THEN reused \ {f} ELSE reused \cup {f}
  /\ node' = [node EXCEPT ![f] = NewNode]
  /\ asked' = [asked EXCEPT ![f] = {}] /\ crossed' = crossed \ {f} /\ lapped' = lapped \ {f}
  /\ due' = [due EXCEPT ![f] = FALSE] /\ raced' = raced \ {f} /\ doubled' = doubled \ {f}
  /\ UNCHANGED <<list, handle, drv, held, queues, brk, stuck, ghosts>>

Numbered(t) ==
  LET f == call[t].file IN
  /\ call[t].op = "adding"
  /\ node' = [node EXCEPT ![f].fd = get_free_fd]
  /\ call' = [call EXCEPT ![t].op = "numbered", ![t].fd = get_free_fd]
  /\ UNCHANGED <<list, handle, drv, held, queues, breaks, ghosts, masks, due, raced, reused>>

\* Where add_port's walk from the entry that was first ends, NoFile for the place
\* before all; from no entry or a freed one the process may die of it
Walk(t) ==
  LET index == call[t].tail  last == list[Len(list)] IN
  /\ call[t].op = "numbered"
  /\ \/ list = <<>> /\ call' = [call EXCEPT ![t].op = "linking", ![t].tail = NoFile]
     \/ /\ list # <<>> /\ index # NoFile
        /\ \E x \in IF index \in Listed THEN {last} ELSE {last, index} :
             call' = [call EXCEPT ![t].op = "linking", ![t].tail = x]
     \/ list # <<>> /\ index \notin Listed /\ call' = [call EXCEPT ![t].op = "crashed"]
  /\ UNCHANGED <<entries, queues, breaks, ghosts, masks, due, raced, reused>>

\* Stored after tail, whatever is linked there by now, or in a freed entry
add_port(t) ==
  LET f == call[t].file  tail == call[t].tail IN
  /\ call[t].op = "linking"
  /\ list' = IF tail = NoFile THEN <<f>>
             ELSE IF tail \in Listed THEN Append(Upto(tail), f) ELSE list
  /\ call' = [call EXCEPT ![t].op = "linked"]
  /\ Mingles(t)
  /\ UNCHANGED <<node, handle, drv, held, queues, breaks, gap, skipped, masks, due, raced, reused>>

\* port->next = NULL
NextIsNull(t) ==
  LET f == call[t].file IN
  /\ call[t].op = "linked"
  /\ list' = IF f \in Listed THEN Upto(f) ELSE list
  /\ call' = [call EXCEPT ![t].op = "open"]
  /\ Mingles(t)
  /\ UNCHANGED <<node, handle, drv, held, queues, breaks, gap, skipped, masks, due, raced, reused>>

\* Nobody has a handle to the device: it is opened without sharing
Shut(f) == f \notin handle /\ On(f, {"test"}) = {}

\* serial_test, the probe for ports, opens and closes the device unless somebody
\* has it open
serial_test(t, f) ==
  /\ Idle(t)
  /\ Shut(f)
  /\ call' = [call EXCEPT ![t] = [NoCall EXCEPT !.op = "test", !.file = f]]
  /\ UNCHANGED <<entries, queues, breaks, ghosts, masks, due, raced, reused>>
TestDone(t) ==
  /\ call[t].op = "test"
  /\ Return(t)
  /\ UNCHANGED <<entries, queues, breaks, ghosts, masks, due, raced, reused>>

\* open_port: a handle, or INVALID_HANDLE_VALUE, which is not NULL
CreateFile(t) ==
  LET f == call[t].file IN
  /\ call[t].op = "open" /\ node[f].hComm = "none"
  /\ \/ /\ Shut(f)
        /\ node' = [node EXCEPT ![f].hComm = "open"]
        /\ handle' = handle \cup {f} /\ drv' = [drv EXCEPT ![f] = {}]
     \/ node' = [node EXCEPT ![f].hComm = "invalid"] /\ UNCHANGED <<handle, drv>>
  /\ UNCHANGED <<list, held, queues, breaks, call, ghosts, masks, due, raced, reused>>

\* check_port_capabilities and the default parameters are done
OpenDone(t) ==
  LET f == call[t].file IN
  /\ call[t].op = "open" /\ node[f].hComm = "open"
  /\ held' = held \cup {[file |-> f, fd |-> call[t].fd]}
  /\ Return(t)
  /\ UNCHANGED <<list, node, handle, drv, queues, breaks, ghosts, masks, due, raced, reused>>

\* CreateFile, SetupComm, an event or the capabilities failed
OpenFails(t) ==
  /\ call[t].op = "open" /\ node[call[t].file].hComm # "none"
  /\ IF list = <<>> THEN UNCHANGED <<list, gap, skipped>> ELSE Unlink(call[t].fd)
  /\ Frees([call EXCEPT ![t] = NoCall])
  /\ Mingles(t)
  /\ UNCHANGED <<node, drv, held, queues, doubled, masks, due, raced, reused>>

serial_close(t, p) ==
  /\ Idle(t)
  /\ p \in held
  /\ held' = held \ {p}
  /\ IF list = <<>> THEN UNCHANGED <<list, gap, skipped>> ELSE Unlink(p.fd)
  /\ Frees(call)
  /\ Mingles(t)
  /\ UNCHANGED <<node, drv, queues, doubled, masks, due, raced, reused>>

-----------------------------------------------------------------------------
(* Calls on a port: find_port, a wait for the device, the rest. *)

Enter(t, p, c) ==
  LET f == find_port(p.fd) IN
  /\ Idle(t)
  /\ p \in held /\ f # NoFile
  /\ call' = [call EXCEPT ![t] = [c EXCEPT !.file = f, !.fd = p.fd]]

\* Thread t's use of a pointer to a freed entry, up to its return
Dangling(t) ==
  /\ ~Idle(t) /\ call[t].op # "crashed" /\ call[t].file = NoFile
  /\ Return(t)
  /\ UNCHANGED <<entries, queues, breaks, ghosts, masks, due, raced, reused>>

\* A call copies event_flag
Copies(f) ==
  /\ crossed' = IF On(f, {"setflags"}) # {} THEN crossed \cup {f} ELSE crossed
  /\ lapped' = IF \E t \in On(f, Masking) : call[t].at \in {"changed", "set"}
               THEN lapped \cup {f} ELSE lapped
  /\ UNCHANGED asked

\* event_flag = 0; the rest in ChangeMask and SetCommMask
termios_setflags(t, p, mask) ==
  LET f == find_port(p.fd) IN
  /\ Enter(t, p, [NoCall EXCEPT !.op = "setflags", !.old = mask])
  /\ node' = [node EXCEPT ![f].flag = {}]
  /\ asked' = [asked EXCEPT ![f] = mask]
  /\ crossed' = IF On(f, Masking \cup {"setflags"}) = {} /\ node[f].hComm = "open"
                THEN crossed ELSE crossed \cup {f}
  /\ UNCHANGED <<list, handle, drv, held, queues, breaks, ghosts, lapped, due, raced, reused>>

AtRegister(f) == On(f, {"look", "lsr"}) # {}

\* serial_write: WriteFile has put the data into the queue
serial_write(t, p) ==
  LET f == find_port(p.fd) IN
  /\ Enter(t, p, [NoCall EXCEPT !.op = "write", !.old = node[f].flag])
  /\ Copies(f)
  /\ outq' = [outq EXCEPT ![f] = TRUE]
  /\ raced' = IF AtRegister(f) THEN raced \cup {f} ELSE raced
  /\ UNCHANGED <<entries, inq, breaks, ghosts, due, reused>>

tcdrain(t, p) ==
  LET f == find_port(p.fd) IN
  /\ Enter(t, p, [NoCall EXCEPT !.op = "drain", !.old = node[f].flag])
  /\ Copies(f)
  /\ UNCHANGED <<entries, queues, breaks, ghosts, due, raced, reused>>

\* PurgeComm with TXABORT and RXABORT ends calls but empties no queue
tcflush(t, p) ==
  LET f == find_port(p.fd) IN
  /\ Enter(t, p, [NoCall EXCEPT !.op = "flush", !.old = node[f].flag])
  /\ Copies(f)
  /\ node' = [node EXCEPT ![f].tx = TRUE]
  /\ UNCHANGED <<list, handle, drv, held, queues, breaks, ghosts, due, raced, reused>>

\* Mutant: what is left to send is not looked at.
EmptyAnyway(f) == TRUE
\* ioctl(TIOCSERGETLSR): nothing is left to send
OutputEmpty(f) == ~outq[f]
TIOCSERGETLSR(t, p) ==
  /\ Enter(t, p, [NoCall EXCEPT !.op = "look"])
  /\ OutputEmpty(find_port(p.fd))
  /\ UNCHANGED <<entries, queues, breaks, ghosts, masks, due, raced, reused>>
\* and something was written
TxHappened(t) ==
  LET f == call[t].file IN
  /\ call[t].op = "look" /\ f # NoFile
  /\ IF node[f].tx
     THEN /\ call' = [call EXCEPT ![t].op = "lsr", ![t].old = node[f].flag]
          /\ Copies(f)
     ELSE Return(t) /\ UNCHANGED masks
  /\ UNCHANGED <<entries, queues, breaks, ghosts, due, raced, reused>>

\* FlushFileBuffers or PurgeComm fails: back before the mask is touched
ReturnsEarly(t) ==
  /\ call[t].op \in {"drain", "flush"} /\ call[t].at = "begun"
  /\ Return(t)
  /\ UNCHANGED <<entries, queues, breaks, ghosts, masks, due, raced, reused>>

\* Mutant: all events but the end of the output are dropped.
LosesOthers(op, flag, old) ==
  CASE op = "setflags" -> old
    [] op = "lsr" -> flag \cap {"TXEMPTY"}
    [] OTHER -> flag \cup {"TXEMPTY"}
\* With TXEMPTY to be told of the end of the output, without it when that was seen
Changed(op, flag, old) ==
  CASE op = "setflags" -> old
    [] op = "lsr" -> flag \ {"TXEMPTY"}
    [] OTHER -> flag \cup {"TXEMPTY"}
ChangeMask(t) ==
  LET f == call[t].file  op == call[t].op IN
  /\ op \in Masking \cup {"setflags"} /\ call[t].at = "begun" /\ f # NoFile
  /\ node' = [node EXCEPT ![f].flag = Changed(op, @, call[t].old)]
  /\ outq' = IF op = "drain" THEN [outq EXCEPT ![f] = FALSE] ELSE outq
  /\ call' = [call EXCEPT ![t].at = "changed"]
  /\ UNCHANGED <<list, handle, drv, held, inq, breaks, ghosts, masks, due, raced, reused>>

\* The driver's mask is what event_flag is by now
SetCommMask(t) ==
  LET f == call[t].file IN
  /\ call[t].at = "changed" /\ f # NoFile
  /\ drv' = IF node[f].hComm = "open" THEN [drv EXCEPT ![f] = node[f].flag] ELSE drv
  /\ IF call[t].op = "setflags" THEN Return(t) ELSE call' = [call EXCEPT ![t].at = "set"]
  /\ UNCHANGED <<list, node, handle, held, queues, breaks, ghosts, masks, due, raced, reused>>

\* Mutant: event_flag is left as the call has changed it.
FlagStays(flag, old) == flag
\* event_flag goes back to the copy made when the call began; the driver's mask does not
FlagAfter(flag, old) == old
RestoreFlag(t) ==
  LET f == call[t].file IN
  /\ call[t].at = "set" /\ f # NoFile
  /\ node' = [node EXCEPT ![f].flag = FlagAfter(@, call[t].old)]
  /\ IF call[t].op = "drain" THEN Return(t) ELSE call' = [call EXCEPT ![t].at = "restored"]
  /\ UNCHANGED <<list, handle, drv, held, queues, breaks, ghosts, masks, due, raced, reused>>

StoreTx(t) ==
  LET f == call[t].file  op == call[t].op IN
  /\ call[t].at = "restored" /\ f # NoFile
  /\ node' = [node EXCEPT ![f].tx = op # "lsr"]
  /\ due' = [due EXCEPT ![f] = op = "write" \/ (@ /\ (op = "lsr" => outq[f]))]
  /\ raced' = IF op = "write" /\ AtRegister(f) THEN raced \cup {f} ELSE raced
  /\ Return(t)
  /\ UNCHANGED <<list, handle, drv, held, queues, breaks, ghosts, masks, reused>>

-----------------------------------------------------------------------------
(* serial_read of a port opened with O_NONBLOCK, as SerialImp.c opens it. *)

BeginRead(t, p, size) ==
  /\ Enter(t, p, [NoCall EXCEPT !.op = "wait", !.size = size])
  /\ UNCHANGED <<entries, queues, breaks, ghosts, masks, due, raced, reused>>

\* Mutant: a read of more than one character does not wait for all of them.
NoWait(f, size) == TRUE
\* What a read waits for, for as long as VTIME says
EnoughThere(f, size) == size = 1 \/ inq[f] >= size
\* A register that cannot be read leaves the count unset: the wait may end
ReadWaits(t) ==
  /\ call[t].op = "wait" /\ call[t].file # NoFile
  /\ \/ /\ EnoughThere(call[t].file, call[t].size)
        /\ call' = [call EXCEPT ![t].op = "read"]
     \/ call' = [call EXCEPT ![t].op = "read", ![t].ok = FALSE]
     \/ Return(t)    \* the time is over: nothing is read
  /\ UNCHANGED <<entries, queues, breaks, ghosts, masks, due, raced, reused>>

\* ReadFile and GetOverlappedResult, again and again until all is read or the
\* time is over; ok: no other read has taken from the queue since the wait
serial_read(t) ==
  LET f == call[t].file IN
  /\ call[t].op = "read" /\ f # NoFile
  /\ \E n \in 0 .. call[t].size :
       /\ n <= inq[f]
       /\ inq' = [inq EXCEPT ![f] = @ - n]
       /\ \E again \in BOOLEAN :
            /\ again => n \in 1 .. call[t].size - 1
            /\ call' = [u \in Threads |->
                 CASE u = t -> IF again THEN [call[t] EXCEPT !.size = @ - n] ELSE NoCall
                   [] u # t -> IF call[u].op = "read" /\ call[u].file = f /\ n > 0
                               THEN [call[u] EXCEPT !.ok = FALSE] ELSE call[u]]
  /\ UNCHANGED <<entries, outq, breaks, ghosts, masks, due, raced, reused>>

-----------------------------------------------------------------------------
(* tcsendbreak: SetCommBreak, a sleep, ClearCommBreak of the entry found    *)
(* before the sleep.  RXTXPort.sendBreak counts as no call for close.       *)

Breaking(f) == On(f, {"break"})

\* sendBreak, as far as the sleep; ok: SetCommBreak has worked
sendBreak(t, p) ==
  LET f == find_port(p.fd) IN
  /\ \E works \in BOOLEAN :
       /\ Enter(t, p, [NoCall EXCEPT !.op = "break", !.ok = works])
       /\ works => node[f].hComm = "open"
       /\ brk' = [brk EXCEPT ![f] = @ \/ works]
  /\ doubled' = IF Breaking(f) = {} THEN doubled ELSE doubled \cup {f}
  /\ UNCHANGED <<entries, queues, stuck, ghosts, masks, due, raced, reused>>

\* Mutant: the break is not ended.
BreakStays(f) == brk
ClearCommBreak(f) == [brk EXCEPT ![f] = FALSE]
tcsendbreak(t) ==
  LET f == call[t].file IN
  /\ call[t].op = "break" /\ f # NoFile
  /\ \/ node[f].hComm = "open" /\ brk' = ClearCommBreak(f) /\ stuck' = stuck \ {f}
     \/ stuck' = (IF brk[f] THEN stuck \cup {f} ELSE stuck) /\ UNCHANGED brk   \* it fails
  /\ Return(t)
  /\ UNCHANGED <<entries, queues, doubled, ghosts, masks, due, raced, reused>>

-----------------------------------------------------------------------------
Calls ==
  \E t \in Threads :
    \/ \E f \in Files : serial_open(t, f) \/ serial_test(t, f)
    \/ \E p \in held :
         \/ serial_close(t, p)
         \/ \E mask \in {{"RXCHAR"}, {"RXCHAR", "TXEMPTY"}} : termios_setflags(t, p, mask)
         \/ serial_write(t, p) \/ tcdrain(t, p) \/ tcflush(t, p) \/ TIOCSERGETLSR(t, p)
         \/ sendBreak(t, p)
         \/ \E n \in Sizes : BeginRead(t, p, n)

Steps ==
  \E t \in Threads :
    \/ Numbered(t) \/ Walk(t) \/ add_port(t) \/ NextIsNull(t)
    \/ CreateFile(t) \/ OpenDone(t) \/ OpenFails(t) \/ TestDone(t)
    \/ Dangling(t) \/ ReturnsEarly(t)
    \/ TxHappened(t) \/ ChangeMask(t) \/ SetCommMask(t) \/ RestoreFlag(t) \/ StoreTx(t)
    \/ ReadWaits(t) \/ serial_read(t) \/ tcsendbreak(t)

\* The device sends what it has, or a character comes in
Device ==
  \E p \in held :
    /\ \/ outq[p.file] /\ outq' = [outq EXCEPT ![p.file] = FALSE] /\ UNCHANGED inq
       \/ inq[p.file] < MaxQueue /\ inq' = [inq EXCEPT ![p.file] = @ + 1] /\ UNCHANGED outq
    /\ UNCHANGED <<entries, breaks, call, ghosts, masks, due, raced, reused>>

Crashed == \E t \in Threads : call[t].op = "crashed"

Next ==
  /\ ~Crashed
  /\ \/ calls < MaxCalls /\ Calls /\ calls' = calls + 1
     \/ (Steps \/ Device) /\ UNCHANGED calls

Spec == Init /\ [][Next]_vars

-----------------------------------------------------------------------------
(* A descriptor leads to the port it was given out for, the entries are    *)
(* those of the ports held and of those being opened, and no walk of the   *)
(* list goes astray: as long as the list has not changed while another     *)
(* entry was added, only the last entry was ever removed (after that       *)
(* get_free_fd may give out a number in use) and no close was skipped.     *)
OwnPort ==
  ~gap /\ ~skipped /\ ~mingled =>
    /\ \A i, j \in DOMAIN list : i < j => Fd(i) < Fd(j)
    /\ \A p \in held : find_port(p.fd) = p.file
    /\ Listed = {p.file : p \in held} \cup
                {call[t].file : t \in {u \in Threads : call[u].op \in {"linked", "open"}}}
    /\ ~Crashed

(* The driver tells of the events asked for, the end of the output apart:  *)
(* whatever writes, drains, flushes and looks at the register overlap, and *)
(* under a port closed and opened again, its mask differs from the one     *)
(* last asked for in TXEMPTY alone once that call is over, unless it was   *)
(* asked for while another call had its copy of event_flag; and event_flag *)
(* itself comes back, unless it was copied while a call had it changed.    *)
MaskKept ==
  \A f \in Listed \ (crossed \cup reused) :
    On(f, {"setflags"}) = {} =>
      /\ node[f].hComm = "open" => drv[f] \ {"TXEMPTY"} = asked[f] \ {"TXEMPTY"}
      /\ f \notin lapped /\ (\A t \in On(f, Masking) : call[t].at \notin {"changed", "set"}) =>
           node[f].flag = asked[f]

(* A write whose empty buffer has not been reported yet is not forgotten,  *)
(* and none is reported while output is left, unless a write came while a  *)
(* look at the register was under way.                                     *)
TxRemembered == \A f \in Listed \ (raced \cup reused) : due[f] => node[f].tx

(* A read that has seen all it waited for finds it, as long as no other    *)
(* read takes from the queue: a partial read leaves what is still wanted.  *)
ReadWhole ==
  \A t \in Threads :
    call[t].op = "read" /\ call[t].ok /\ call[t].size > 1 /\ call[t].file # NoFile =>
      inq[call[t].file] >= call[t].size

(* A line is never left in the break state: there is a break to end it,    *)
(* or ending it has failed, however breaks overlap, and whatever ports are *)
(* closed and opened under them.  And a break lasts, unless two overlap    *)
(* (the first to end ends both) or its entry was freed.                    *)
BreakHeld ==
  \A f \in Files :
    /\ brk[f] => f \in stuck \/ \E t \in Breaking(f) : call[t].ok
    /\ f \notin doubled \cup reused => \A t \in Breaking(f) : call[t].ok => brk[f]
==============================================================================
