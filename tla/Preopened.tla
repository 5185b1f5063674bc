------------------------------ MODULE Preopened ------------------------------
(***************************************************************************)
(* Ports that are prepared before they are opened: the static methods of   *)
(* RXTXPort open and lock a device, set a modem line or the parameters,    *)
(* unlock it and keep the descriptor in a linked list (preopened_port), in *)
(* which open() finds it later; testRead and isPortPrefixValid open the    *)
(* same devices for a moment while the driver looks for ports.             *)
(*                                                                         *)
(* The list is C memory: a freed node keeps its links, its name may or may *)
(* not survive, and malloc may hand it out again.  A thread makes one list *)
(* operation in one step; the steps of several threads interleave.         *)
(*                                                                         *)
(* The specification is PreSpec, its parts PreInit, PreNext and so on: one *)
(* module proves about it and about LockFile.                              *)
(***************************************************************************)
EXTENDS Integers, FiniteSets

CONSTANTS
  Threads,      \* Java threads that make these calls
  Files,        \* device files
  Fds,          \* descriptors the process can get; 0 is taken by the JVM
  Nodes,        \* memory for struct preopened
  Nil,          \* the null pointer
  MaxCalls      \* bound: calls made

ASSUME FdsAssumption  == Fds \subseteq Nat \ {0}
ASSUME NodeAssumption == Nil \notin Nodes
ASSUME CallsAssumption == MaxCalls \in Nat

None    == "none"      \* no file: a closed descriptor, or a name overwritten by free
ASSUME FileAssumption == None \notin Files

Settings == {"sane", "set", "raw"}

VARIABLES
  heap,     \* node -> [file, fd, next, prev]
  alloc,    \* the nodes malloc has given out
  head,     \* preopened_port
  fdOf,     \* descriptor -> the file it is open on, or None
  locker,   \* file -> who holds its lock file
  port,     \* file -> fd of the RXTXPort open on it, or 0
  params,   \* file -> the device's termios settings
  line,     \* file -> its modem output (DTR or RTS: the same code with another
            \* bit), raised while nobody has it open
  call,     \* thread -> the rest of the call it is in
  kept,     \* history: file -> what the last static setters chose
  stray,    \* history: preopened_port was left on a freed node
  calls     \* calls made

list == <<heap, alloc, head>>
device == <<params, line>>
preVars == <<heap, alloc, head, fdOf, locker, port, params, line, call, kept, stray, calls>>

Idle == [op |-> "idle", file |-> None, fd |-> 0, saved |-> "sane"]
Blank == [file |-> None, fd |-> 0, next |-> Nil, prev |-> Nil]
Lost == [held |-> FALSE, params |-> "sane", line |-> TRUE]

NodeType == [file : Files \cup {None}, fd : Fds \cup {0},
             next : Nodes \cup {Nil}, prev : Nodes \cup {Nil}]

CallType == [op : {"idle", "add", "probe", "close"}, file : Files \cup {None},
             fd : Fds \cup {0}, saved : Settings]
KeptType == [held : BOOLEAN, params : Settings, line : BOOLEAN]

(* Every variable holds a value of its type. *)
PreTypeOK ==
  /\ heap \in [Nodes -> NodeType]
  /\ alloc \subseteq Nodes
  /\ head \in Nodes \cup {Nil}
  /\ fdOf \in [Fds -> Files \cup {None}]
  /\ locker \in [Files -> {"free", "probe", "port", "left"}]
  /\ port \in [Files -> Fds \cup {0}]
  /\ params \in [Files -> Settings]
  /\ line \in [Files -> BOOLEAN]
  /\ call \in [Threads -> CallType]
  /\ kept \in [Files -> KeptType]
  /\ stray \in BOOLEAN
  /\ calls \in 0..MaxCalls

PreInit ==
  /\ heap = [n \in Nodes |-> Blank]
  /\ alloc = {}
  /\ head = Nil
  /\ fdOf = [d \in Fds |-> None]
  /\ locker = [f \in Files |-> "free"]
  /\ port = [f \in Files |-> 0]
  /\ params = [f \in Files |-> "sane"]
  /\ line = [f \in Files |-> TRUE]
  /\ call = [t \in Threads |-> Idle]
  /\ kept = [f \in Files |-> Lost]
  /\ stray = FALSE
  /\ calls = 0

-----------------------------------------------------------------------------
(* The list. *)

\* The nodes a walk along next passes, beginning at a
From(a) ==
  {n \in Nodes : \A S \in SUBSET Nodes :
     a \in S /\ (\A x \in S : heap[x].next \in S \cup {Nil}) => n \in S}

Listed == IF head = Nil THEN {} ELSE From(head)

\* The first node of the walk that has the name f, as a set
Match(f) ==
  {n \in Listed : /\ heap[n].file = f
                  /\ \A o \in Listed : heap[o].file = f => o \in From(n)}

\* The removal of n leaves preopened_port on freed memory
Strays(n) == n = head /\ ~(heap[n].prev = Nil /\ heap[n].next = Nil)

\* Mutant: the entry before the removed one keeps its link to it.
UnlinkedOneWay(n, name) ==
  [x \in Nodes |->
    IF x = n THEN IF Strays(n) THEN [heap[n] EXCEPT !.file = name] ELSE Blank
    ELSE [heap[x] EXCEPT !.prev = IF x = heap[n].next THEN heap[n].prev ELSE @]]

\* The heap after n is linked out of its neighbours and freed; what freed
\* memory holds only matters when preopened_port still points to it: then the
\* name is overwritten or not, and the rest stays
Unlinked(n, name) ==
  [x \in Nodes |->
    IF x = n THEN IF Strays(n) THEN [heap[n] EXCEPT !.file = name] ELSE Blank
    ELSE [heap[x] EXCEPT !.next = IF x = heap[n].prev THEN heap[n].next ELSE @,
                         !.prev = IF x = heap[n].next THEN heap[n].prev ELSE @]]

\* What becomes of the history when the entry n of file f is taken
Forget(f, n) == [g \in Files |-> IF g = f \/ Strays(n) THEN Lost ELSE kept[g]]

\* find_preopened_ports takes the entry n of f out of the list
find_preopened_ports(f, n) ==
  /\ \E name \in {heap[n].file, None} : heap' = Unlinked(n, name)
  /\ alloc' = alloc \ {n}
  /\ head' = IF heap[n].prev = Nil /\ heap[n].next = Nil THEN Nil ELSE head
  /\ stray' = (stray \/ Strays(n))
  /\ kept' = Forget(f, n)

\* The settings of the device, or those a probe is about to restore
InForce(f) ==
  IF \E t \in Threads : call[t].op = "probe" /\ call[t].file = f
  THEN (CHOOSE r \in {call[t] : t \in Threads} : r.op = "probe" /\ r.file = f).saved
  ELSE params[f]

\* The entry is there from now on: kept is what the device looks like; the
\* entries before p can no longer be reached
Keep(f, p) ==
  [g \in Files |->
    CASE g = f -> [held |-> ~stray /\ port[f] = 0, params |-> InForce(f), line |-> line[f]]
      [] g # f /\ (\E n \in Listed \ {p} : heap[n].file = g) -> Lost
      [] OTHER -> kept[g]]

\* static_add_filename: newp is filled before the walk, so it may be the freed
\* node the walk begins at; a file that is listed already leaves newp unused
static_add_filename(f, d) ==
  \E newp \in Nodes \ alloc :
    LET name(n) == IF n = newp THEN f ELSE heap[n].file
        entry(p) == [file |-> f, fd |-> d, next |-> Nil, prev |-> p] IN
    \/ /\ head = Nil
       /\ heap' = [heap EXCEPT ![newp] = entry(Nil)]
       /\ head' = newp
       /\ alloc' = alloc \cup {newp}
       /\ kept' = Keep(f, Nil)
    \/ /\ \E n \in Listed : name(n) = f
       /\ heap' = IF newp = head THEN [heap EXCEPT ![newp].file = f, ![newp].fd = d] ELSE heap
       /\ alloc' = alloc \cup ({newp} \cap {head})
       /\ UNCHANGED <<head, kept>>
    \/ /\ \A n \in Listed : name(n) # f
       /\ \E p \in Listed :
            /\ heap[p].next = Nil
            /\ heap' = [heap EXCEPT ![newp] = entry(p), ![p].next = newp]
            /\ head' = p
            /\ alloc' = alloc \cup {newp}
            /\ kept' = Keep(f, p)

-----------------------------------------------------------------------------

(* Opening and configuring. *)

\* open(2) with the lowest free descriptor; it fails when there is none, and
\* when the device does not answer
Lowest == {d \in Fds : fdOf[d] = None /\ \A e \in Fds : e < d => fdOf[e] # None}

\* configure_port on a fresh descriptor: it succeeds, or stops anywhere
configure_port(f) == [params EXCEPT ![f] = "sane"]

\* A close that is the last one of the file drops the lines, and the next
\* open raises them
LinesAfterClose(d) ==
  [f \in Files |-> IF fdOf[d] = f /\ \A e \in Fds \ {d} : fdOf[e] # f
                   THEN TRUE ELSE line[f]]

-----------------------------------------------------------------------------
(* The static setters: LOCK, find or open, set, UNLOCK in one step; the    *)
(* entry is added in the next one, when the lock is free again.            *)

\* The device is reached through d: the setter succeeds
Chosen(t, f, d, setting, l) ==
  /\ params' = [params EXCEPT ![f] = setting]
  /\ line' = [line EXCEPT ![f] = l]
  /\ call' = [call EXCEPT ![t] = [Idle EXCEPT !.op = "add", !.file = f, !.fd = d]]
  /\ UNCHANGED locker

\* One of the returns that pass UNLOCK by
FailLocked(f) == locker' = [locker EXCEPT ![f] = "left"]

\* The part up to UNLOCK: l is the state of the lines the setter leaves,
\* sets that it is the one that sets the parameters and may be refused
StaticSet(t, f, l, sets) ==
  /\ call[t] = Idle
  /\ locker[f] = "free"
  /\ \/ \E n \in Match(f) :
          /\ find_preopened_ports(f, n)
          /\ \/ Chosen(t, f, heap[n].fd, IF sets THEN "set" ELSE params[f], l)
             \/ /\ sets
                /\ FailLocked(f)
                /\ UNCHANGED <<params, line, call>>
          /\ UNCHANGED fdOf
     \/ /\ Match(f) = {}
        /\ \E d \in Lowest :
             /\ fdOf' = [fdOf EXCEPT ![d] = f]
             /\ \/ Chosen(t, f, d, IF sets THEN "set" ELSE "sane", l)
                \/ /\ FailLocked(f)
                   /\ params' \in {params, configure_port(f)}
                   /\ UNCHANGED <<line, call>>
        /\ UNCHANGED <<list, stray, kept>>
     \/ /\ Match(f) = {}
        /\ FailLocked(f)
        /\ UNCHANGED <<list, stray, kept, fdOf, params, line, call>>
  /\ UNCHANGED port

nativeStaticSetRTS(t, f, flag) == StaticSet(t, f, flag, FALSE)
nativeStaticSetDTR(t, f, flag) == StaticSet(t, f, flag, FALSE)
\* DSR is an input: the kernel ignores it in TIOCMSET
nativeStaticSetDSR(t, f) == StaticSet(t, f, line[f], FALSE)
nativeStaticSetSerialPortParams(t, f) == StaticSet(t, f, line[f], TRUE)

\* The rest of a setter, after UNLOCK
AddEntry(t) ==
  /\ call[t].op = "add"
  /\ static_add_filename(call[t].file, call[t].fd)
  /\ call' = [call EXCEPT ![t] = Idle]
  /\ UNCHANGED <<fdOf, locker, port, device, stray>>

-----------------------------------------------------------------------------
(* The static queries take the entry they ask about out of the list, and   *)
(* nobody keeps the descriptor.                                            *)

Query(t, f) ==
  /\ call[t] = Idle
  /\ \E n \in Match(f) : find_preopened_ports(f, n)
  /\ UNCHANGED <<fdOf, locker, port, device, call>>

nativeStaticIs(t, f) == Query(t, f)       \* RTS, DSR, DTR, CD, CTS
nativeStaticIsRI(t, f) == Query(t, f)
nativeStaticGet(t, f) == Query(t, f)      \* baud rate, data bits, parity, stop bits

-----------------------------------------------------------------------------
(* The port itself. *)

\* Mutant: a descriptor that was found is configured like a new one.
OpenReconfigures(f) ==
  /\ locker[f] = "free"
  /\ \/ \E n \in Match(f) :
          /\ find_preopened_ports(f, n)
          /\ port' = [port EXCEPT ![f] = heap[n].fd]
          /\ locker' = [locker EXCEPT ![f] = "port"]
          /\ params' = configure_port(f)
          /\ UNCHANGED fdOf
     \/ /\ Match(f) = {}
        /\ \E d \in Lowest :
             /\ fdOf' = [fdOf EXCEPT ![d] = f]
             /\ \/ /\ params' = configure_port(f)
                   /\ port' = [port EXCEPT ![f] = d]
                   /\ locker' = [locker EXCEPT ![f] = "port"]
                \/ /\ FailLocked(f)
                   /\ UNCHANGED <<params, port>>
        /\ UNCHANGED <<list, stray, kept>>
     \/ /\ Match(f) = {}
        /\ FailLocked(f)
        /\ UNCHANGED <<list, stray, kept, fdOf, params, port>>
  /\ UNCHANGED <<line, call>>

\* open() of a device nobody has locked
open(f) ==
  /\ locker[f] = "free"
  /\ \/ \E n \in Match(f) :
          /\ find_preopened_ports(f, n)
          /\ port' = [port EXCEPT ![f] = heap[n].fd]
          /\ locker' = [locker EXCEPT ![f] = "port"]
          /\ UNCHANGED <<fdOf, params>>
     \/ /\ Match(f) = {}
        /\ \E d \in Lowest :
             /\ fdOf' = [fdOf EXCEPT ![d] = f]
             /\ \/ /\ params' = configure_port(f)
                   /\ port' = [port EXCEPT ![f] = d]
                   /\ locker' = [locker EXCEPT ![f] = "port"]
                \/ /\ FailLocked(f)
                   /\ UNCHANGED <<params, port>>
        /\ UNCHANGED <<list, stray, kept>>
     \/ /\ Match(f) = {}
        /\ FailLocked(f)
        /\ UNCHANGED <<list, stray, kept, fdOf, params, port>>
  /\ UNCHANGED <<line, call>>

Close(d) ==
  /\ fdOf' = [fdOf EXCEPT ![d] = None]
  /\ line' = LinesAfterClose(d)

nativeClose(f) ==
  /\ port[f] > 0
  /\ Close(port[f])
  /\ port' = [port EXCEPT ![f] = 0]
  /\ locker' = [locker EXCEPT ![f] = "free"]
  /\ UNCHANGED <<list, params, call, kept, stray>>

-----------------------------------------------------------------------------
(* The driver's probes. *)

\* Mutant: the probe does not look at the lock.
TestReadUnlocked(t, f) ==
  /\ call[t] = Idle
  /\ \E d \in Lowest :
       /\ fdOf' = [fdOf EXCEPT ![d] = f]
       /\ call' = [call EXCEPT ![t] = [op |-> "probe", file |-> f, fd |-> d, saved |-> params[f]]]
  /\ locker' = [locker EXCEPT ![f] = "probe"]
  /\ params' = [params EXCEPT ![f] = "raw"]
  /\ UNCHANGED <<list, port, line, kept, stray>>

\* testRead: LOCK, open, save the settings, go raw
testRead(t, f) ==
  /\ call[t] = Idle
  /\ locker[f] = "free"
  /\ \E d \in Lowest :
       /\ fdOf' = [fdOf EXCEPT ![d] = f]
       /\ call' = [call EXCEPT ![t] = [op |-> "probe", file |-> f, fd |-> d, saved |-> params[f]]]
  /\ locker' = [locker EXCEPT ![f] = "probe"]
  /\ params' = [params EXCEPT ![f] = "raw"]
  /\ UNCHANGED <<list, port, line, kept, stray>>

\* Mutant: the settings saved are not put back.
EndWithoutRestore(t) ==
  /\ call[t].op = "probe"
  /\ locker' = [locker EXCEPT ![call[t].file] = "free"]
  /\ call' = [call EXCEPT ![t].op = "close", ![t].saved = "sane"]
  /\ UNCHANGED <<list, fdOf, port, params, line, kept, stray>>

\* after the read, or the failure of tcsetattr: restore, UNLOCK
testRead_END(t) ==
  /\ call[t].op = "probe"
  /\ params' = [params EXCEPT ![call[t].file] = call[t].saved]
  /\ locker' = [locker EXCEPT ![call[t].file] = "free"]
  /\ call' = [call EXCEPT ![t].op = "close", ![t].saved = "sane"]
  /\ UNCHANGED <<list, fdOf, port, line, kept, stray>>

\* isPortPrefixValid opens a device without a lock, and closes it again
isPortPrefixValid(t, f) ==
  /\ call[t] = Idle
  /\ \E d \in Lowest :
       /\ fdOf' = [fdOf EXCEPT ![d] = f]
       /\ call' = [call EXCEPT ![t] = [Idle EXCEPT !.op = "close", !.file = f, !.fd = d]]
  /\ UNCHANGED <<list, locker, port, device, kept, stray>>

CloseProbe(t) ==
  /\ call[t].op = "close"
  /\ Close(call[t].fd)
  /\ call' = [call EXCEPT ![t] = Idle]
  /\ UNCHANGED <<list, locker, port, params, kept, stray>>

-----------------------------------------------------------------------------
Call ==
  /\ calls < MaxCalls
  /\ calls' = calls + 1
  /\ \/ \E f \in Files : open(f) \/ nativeClose(f)
     \/ \E t \in Threads, f \in Files :
          \/ \E flag \in BOOLEAN : nativeStaticSetRTS(t, f, flag) \/ nativeStaticSetDTR(t, f, flag)
          \/ nativeStaticSetDSR(t, f)
          \/ nativeStaticSetSerialPortParams(t, f)
          \/ nativeStaticIs(t, f) \/ nativeStaticIsRI(t, f)
          \/ nativeStaticGet(t, f)
          \/ testRead(t, f)
          \/ isPortPrefixValid(t, f)

Return ==
  /\ UNCHANGED calls
  /\ \E t \in Threads : AddEntry(t) \/ testRead_END(t) \/ CloseProbe(t)

PreNext == Call \/ Return

PreSpec == PreInit /\ [][PreNext]_preVars

-----------------------------------------------------------------------------
(* As long as preopened_port was never left on a freed node: every entry a *)
(* walk can reach is allocated, linked both ways to its neighbours, holds  *)
(* a descriptor that is open on its own device and that no open port and   *)
(* no other entry has, and no file is listed twice.                        *)
ListSound ==
  ~stray =>
    /\ Listed \subseteq alloc
    /\ \A n \in Listed :
         /\ fdOf[heap[n].fd] = heap[n].file
         /\ \A f \in Files : port[f] # heap[n].fd
         /\ heap[n].next # Nil => heap[heap[n].next].prev = n
         /\ \A o \in Listed \ {n} : heap[o].fd # heap[n].fd /\ heap[o].file # heap[n].file

(* What the static setters chose is still in force: until the port is      *)
(* opened or asked about, and while its entry can be reached, probes, other *)
(* ports, failures and closes leave the device as the setters left it, but *)
(* for the moment in which testRead has it.                                *)
PresetHolds ==
  \A f \in Files : kept[f].held =>
    /\ line[f] = kept[f].line
    /\ locker[f] # "probe" => params[f] = kept[f].params
    /\ \E n \in Listed : heap[n].file = f

(* open() of a prepared port takes over the descriptor of its entry and    *)
(* changes neither the lines nor the parameters: "This is used so DTR can  *)
(* remain low on 'open()'".                                                *)
OpenTakesOver ==
  [][\A f \in Files : kept[f].held /\ port[f] = 0 /\ port'[f] # 0 =>
       /\ UNCHANGED <<line[f], params[f]>>
       /\ \E n \in Listed : heap[n].file = f /\ heap[n].fd = port'[f] /\ n \notin alloc']_preVars

(* No port is open on a device that a probe has switched to raw mode.      *)
ProbeAlone == \A f \in Files : port[f] # 0 => params[f] # "raw"
==============================================================================
