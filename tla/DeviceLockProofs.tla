-------------------------- MODULE DeviceLockProofs --------------------------
(***************************************************************************)
(* A device's lock file, and what the static methods of RXTXPort, open and *)
(* the driver's probes do under it: the properties of LockFile, then those *)
(* of Preopened, proved for any number of threads, processes, devices,     *)
(* descriptors and list nodes.  LockFile shows what a lock file gives its  *)
(* owner; Preopened takes that for granted (locker) and shows what its     *)
(* callers make of it.  No definition of one module is used in the proofs  *)
(* about the other.                                                        *)
(***************************************************************************)
EXTENDS LockFile, Preopened, TLAPS

\* A thread inside a function runs in a living process.
RunningLives == \A t \in Thread : pc[t] # "idle" => PidOf[t] \in alive

\* Every inode referred to has been created, and holds nothing before that.
InodesKnown ==
  /\ file <= inodes
  /\ \A t \in Thread : seen[t] <= inodes
  /\ \A i \in Inode : i > inodes => content[i] = Unwritten
  /\ \A t \in Thread : Owns(t) => mine[t] \in 1 .. inodes

\* An inode has one creator, whose pid it contains once that is written.
InodesOwned ==
  /\ \A t, u \in Thread : Owns(t) /\ Owns(u) /\ mine[t] = mine[u] => t = u
  /\ \A t \in Thread :
       Owns(t) => content[mine[t]] = IF pc[t] = "write" THEN Unwritten ELSE PidOf[t]

\* A pid found dead is not that of a thread that owns the inode it was read from.
DeadIsNotOwner ==
  \A t, u \in Thread :
    pc[t] = "unlinkStale" /\ Owns(u) /\ mine[u] = seen[t] => readPid[t] # PidOf[u]

\* A thread about to remove its lock has read its pid or its parent's.
ChecksItsPid ==
  \A t \in Thread : pc[t] = "unlinkOwn" => readPid[t] \in {PidOf[t], Parent[PidOf[t]]}

\* Without a race, what a thread owns is what the path leads to.
OwnedIsOnDisk == ~raced => \A t \in Thread : Owns(t) => file = mine[t]

IInv ==
  /\ TypeOK
  /\ RunningLives
  /\ InodesKnown
  /\ InodesOwned
  /\ DeadIsNotOwner
  /\ ChecksItsPid
  /\ OwnedIsOnDisk

-----------------------------------------------------------------------------
\* The invariant rules out the removal of a live lock that was examined.
LEMMA StaleFromIInv == IInv => StaleMeansUnowned
  BY PidAssumption, InodeAssumption
  DEF IInv, TypeOK, InodesKnown, InodesOwned, DeadIsNotOwner, StaleMeansUnowned, Owns, Owning, Inode

\* What is owned is on the disk and has one creator, so there is one owner.
LEMMA ExclusiveFromIInv == IInv => ExclusiveUnlessRaced
  BY DEF IInv, InodesOwned, OwnedIsOnDisk, ExclusiveUnlessRaced

\* The initial state satisfies the invariant.
LEMMA IInvInit == Init => IInv
<1> SUFFICES ASSUME Init PROVE IInv
  OBVIOUS
<1>1. TypeOK
  <2>1. /\ file \in 0 .. MaxInode /\ inodes \in 0 .. MaxInode /\ alive \in SUBSET Pid
        /\ mine \in [Thread -> 0 .. MaxInode] /\ seen \in [Thread -> 0 .. MaxInode]
        /\ style \in {"fhs", "uucp"}
    BY InodeAssumption DEF Init
  <2>2. content \in [Inode -> Pid \cup {Unwritten}] /\ readPid \in [Thread -> Pid \cup {Nobody}]
    BY DEF Init
  <2>3. pc \in [Thread -> Location] /\ raced \in BOOLEAN
    BY DEF Init, Location
  <2>4. QED
    BY <2>1, <2>2, <2>3 DEF TypeOK
<1>2. InodesKnown
  BY InodeAssumption DEF Init, InodesKnown, Owns, Owning, Inode
<1>3. RunningLives /\ InodesOwned /\ DeadIsNotOwner /\ ChecksItsPid /\ OwnedIsOnDisk
  BY DEF Init, RunningLives, InodesOwned, DeadIsNotOwner, ChecksItsPid, OwnedIsOnDisk,
         Owns, Owning
<1>4. QED
  BY <1>1, <1>2, <1>3 DEF IInv

\* Every step of fhs_lock and uucp_lock preserves the invariant.
LEMMA LockPreserves ==
  ASSUME IInv, NEW t \in Thread, Lock(t), UNCHANGED style
  PROVE  IInv'
<1> USE PidAssumption, InodeAssumption
<1> USE DEF IInv, TypeOK, RunningLives, InodesKnown, InodesOwned, DeadIsNotOwner,
            ChecksItsPid, OwnedIsOnDisk, Owns, Owning, Inode, Location, At, Goto, Unlocked
<1>1. CASE BeginLock(t)
  BY <1>1 DEF BeginLock
<1>2. CASE StatLock(t)
  BY <1>2 DEF StatLock
<1>3. CASE OpenLock(t)
  BY <1>3 DEF OpenLock
<1>4. CASE ReadLock(t)
  BY <1>4 DEF ReadLock, PidRead
<1>5. CASE KillTest(t)
  BY <1>5 DEF KillTest
<1>6. CASE UnlinkStale(t)
  <2>1. /\ pc[t] = "unlinkStale" /\ PidOf[t] \in alive /\ file' = 0
        /\ pc' = [pc EXCEPT ![t] = IF file = 0 THEN "idle" ELSE Unlocked]
        /\ UNCHANGED <<inodes, content, alive, mine, seen, readPid>>
    BY <1>6 DEF UnlinkStale
  <2>2. TypeOK'
    BY <1>6, <2>1 DEF UnlinkStale, RacedUnlink
  <2>3. /\ RunningLives' /\ InodesKnown' /\ InodesOwned' /\ DeadIsNotOwner'
        /\ ChecksItsPid'
    BY <2>1
  <2>4. ~raced' => \A u \in Thread : ~Owns(u)
    <3> SUFFICES ASSUME ~raced', NEW u \in Thread, Owns(u)
                 PROVE  FALSE
      OBVIOUS
    <3>1. ~raced /\ ~RacedUnlink(t)
      BY <1>6 DEF UnlinkStale
    <3>2. file = mine[u] /\ file # 0
      BY <3>1
    <3>3. seen[t] = file /\ readPid[t] = content[file]
      BY <3>1, <3>2 DEF RacedUnlink
    <3>4. QED
      BY <2>1, <3>2, <3>3, StaleFromIInv DEF StaleMeansUnowned
  <2>5. OwnedIsOnDisk'
    BY <2>1, <2>4
  <2>6. QED
    BY <2>2, <2>3, <2>5
<1>7. CASE CreateLock(t)
  <2>1. CASE file # 0
    <3>1. /\ pc' = [pc EXCEPT ![t] = "idle"]
          /\ UNCHANGED <<file, inodes, mine, content, alive, seen, readPid, raced>>
      BY <1>7, <2>1 DEF CreateLock
    <3>2. QED
      BY <3>1
  <2>2. CASE file = 0
    <3>1. /\ inodes' \in Inode /\ inodes' = inodes + 1 /\ file' = inodes'
          /\ mine' = [mine EXCEPT ![t] = inodes'] /\ pc' = [pc EXCEPT ![t] = "write"]
          /\ UNCHANGED <<content, alive, seen, readPid, raced>>
          /\ pc[t] = "create" /\ PidOf[t] \in alive
      BY <1>7, <2>2 DEF CreateLock
    <3>2. TypeOK' /\ RunningLives' /\ InodesKnown' /\ ChecksItsPid'
      BY <3>1
    <3>3. InodesOwned'
      BY <3>1
    <3>4. DeadIsNotOwner'
      BY <3>1
    <3>5. ~raced => \A u \in Thread : ~Owns(u)
      BY <2>2
    <3>6. OwnedIsOnDisk'
      BY <3>1, <3>5
    <3>7. QED
      BY <3>2, <3>3, <3>4, <3>6
  <2>3. QED
    BY <2>1, <2>2
<1>8. CASE WriteLock(t)
  <2>1. /\ pc[t] = "write" /\ mine[t] \in Inode /\ PidOf[t] \in alive
        /\ content' = [content EXCEPT ![mine[t]] = PidOf[t]]
        /\ pc' = [pc EXCEPT ![t] = "held"]
        /\ UNCHANGED <<file, inodes, alive, mine, seen, readPid, raced>>
    BY <1>8 DEF WriteLock
  <2>2. TypeOK' /\ RunningLives' /\ InodesKnown' /\ ChecksItsPid' /\ OwnedIsOnDisk'
    BY <2>1
  <2>3. InodesOwned'
    BY <2>1
  <2>4. DeadIsNotOwner'
    BY <2>1
  <2>5. QED
    BY <2>2, <2>3, <2>4
<1>9. CASE CheckGroup(t)
  BY <1>9 DEF CheckGroup
<1>10. CASE RestatLock(t)
  BY <1>10 DEF RestatLock
<1>11. QED
  BY <1>1, <1>2, <1>3, <1>4, <1>5, <1>6, <1>7, <1>8, <1>9, <1>10 DEF Lock

\* Every step after the lock is taken, those of the unlock functions included, preserves the invariant.
LEMMA UnlockPreserves ==
  ASSUME IInv, NEW t \in Thread, Unlock(t), UNCHANGED style
  PROVE  IInv'
<1> USE PidAssumption, InodeAssumption
<1> USE DEF IInv, TypeOK, RunningLives, InodesKnown, InodesOwned, DeadIsNotOwner,
            ChecksItsPid, OwnedIsOnDisk, Owns, Owning, Inode, Location, At, Goto
<1>1. CASE FailAfterLock(t)
  BY <1>1 DEF FailAfterLock
<1>2. CASE BeginUnlock(t)
  BY <1>2 DEF BeginUnlock
<1>3. CASE UnlockOpen(t)
  BY <1>3 DEF UnlockOpen
<1>4. CASE UnlockRead(t)
  BY <1>4 DEF UnlockRead, PidRead
<1>5. CASE UnlinkOwn(t)
  BY <1>5 DEF UnlinkOwn
<1>6. CASE UnlockStat(t)
  BY <1>6 DEF UnlockStat
<1>7. QED
  BY <1>1, <1>2, <1>3, <1>4, <1>5, <1>6 DEF Unlock

\* So does a crash, which ends the threads of a process, and a restart.
LEMMA ProcessPreserves ==
  ASSUME IInv, NEW p \in Pid, Crash(p) \/ Restart(p), UNCHANGED style
  PROVE  IInv'
<1> USE PidAssumption, InodeAssumption
<1> USE DEF IInv, TypeOK, RunningLives, InodesKnown, InodesOwned, DeadIsNotOwner,
            ChecksItsPid, OwnedIsOnDisk, Owns, Owning, Inode, Location
<1>1. CASE Crash(p)
  BY <1>1 DEF Crash
<1>2. CASE Restart(p)
  BY <1>2 DEF Restart
<1>3. QED
  BY <1>1, <1>2

LEMMA StutterPreserves ==
  ASSUME IInv, UNCHANGED vars
  PROVE  IInv'
  BY DEF IInv, TypeOK, RunningLives, InodesKnown, InodesOwned, DeadIsNotOwner,
         ChecksItsPid, OwnedIsOnDisk, Owns, Owning, Inode, Location, vars

LEMMA IInvStep == IInv /\ [Next]_vars => IInv'
  BY LockPreserves, UnlockPreserves, ProcessPreserves, StutterPreserves DEF Next

LEMMA IInvAlways == Spec => []IInv
  BY IInvInit, IInvStep, PTL DEF Spec

-----------------------------------------------------------------------------
\* The variables of the lock files and their users keep their types.
THEOREM TypeCorrect == Spec => []TypeOK
<1>1. IInv => TypeOK
  BY DEF IInv
<1>2. QED
  BY <1>1, IInvAlways, PTL

\* The lock and unlock functions exclude all but one thread for as long as no unlink takes
\* away something else than its thread had examined.
THEOREM Exclusive == Spec => []ExclusiveUnlessRaced
  BY ExclusiveFromIInv, IInvAlways, PTL

\* The stale check of is_device_locked never condemns the lock of a living owner.
THEOREM StaleCheckSound == Spec => []StaleMeansUnowned
  BY StaleFromIInv, IInvAlways, PTL

\* A lock file at the path leaves its owner's hands only by the owner, a thread of
\* the same process or of a child, or a race.
THEOREM LockKept == Spec => KeepsItsLock
<1> DEFINE Kept ==
      \A t \in Thread :
        Owns(t) /\ mine[t] = file /\ file' # file
          => \E u \in Thread :
               \/ pc[u] \in {"unlinkStale", "unlinkOwn"} /\ RacedUnlink(u)
               \/ pc[u] = "unlinkOwn" /\ PidOf[t] \in {PidOf[u], Parent[PidOf[u]]}
<1>1. IInv /\ [Next]_vars => [Kept]_vars
  <2> SUFFICES ASSUME IInv, Next,
                      NEW t \in Thread, Owns(t), mine[t] = file, file' # file
               PROVE  \E u \in Thread :
                        \/ pc[u] \in {"unlinkStale", "unlinkOwn"} /\ RacedUnlink(u)
                        \/ pc[u] = "unlinkOwn" /\ PidOf[t] \in {PidOf[u], Parent[PidOf[u]]}
    BY DEF vars
  <2>1. file # 0 /\ file \in Inode
    BY InodeAssumption DEF IInv, TypeOK, InodesKnown, Inode
  <2>2. PICK u \in Thread : UnlinkStale(u) \/ UnlinkOwn(u)
    BY <2>1 DEF Next, Lock, Unlock, BeginLock, CheckGroup, StatLock, OpenLock, ReadLock,
                KillTest, RestatLock, CreateLock, WriteLock, FailAfterLock, BeginUnlock,
                UnlockStat, UnlockOpen, UnlockRead, Crash, Restart
  <2>3. CASE RacedUnlink(u)
    BY <2>2, <2>3 DEF UnlinkStale, UnlinkOwn, At
  <2>4. CASE ~RacedUnlink(u)
    <3>1. seen[u] = file /\ readPid[u] = content[file]
      BY <2>1, <2>4 DEF RacedUnlink
    <3>2. ~UnlinkStale(u)
      BY <2>1, <3>1, StaleFromIInv DEF StaleMeansUnowned, UnlinkStale, At
    <3>3. pc[u] = "unlinkOwn"
      BY <2>2, <3>2 DEF UnlinkOwn, At
    <3>4. readPid[u] = PidOf[t]
      BY <2>1, <3>1, PidAssumption DEF IInv, TypeOK, InodesOwned
    <3>5. QED
      BY <3>3, <3>4 DEF IInv, ChecksItsPid
  <2>5. QED
    BY <2>3, <2>4
<1>2. QED
  BY <1>1, IInvAlways, PTL DEF Spec, KeepsItsLock

-----------------------------------------------------------------------------
(***************************************************************************)
(* Preopened: ports that are prepared before they are opened.              *)
(***************************************************************************)

\* While preopened_port is sound it is on the last entry but one, whose links are right; the
\* entries before it cannot be reached.
ShortInv ==
  head # Nil =>
    /\ head \in alloc
    /\ heap[head].next # Nil =>
         /\ heap[head].next \in alloc /\ heap[head].next # head
         /\ heap[heap[head].next].next = Nil
         /\ heap[heap[head].next].prev = head

Entries == IF head = Nil THEN {} ELSE {head, heap[head].next} \ {Nil}

Busy(t) == call[t].op # "idle"
Probing(t, f) == call[t].op = "probe" /\ call[t].file = f

\* What the lock files are for: a port or one probe has a locked device, and raw mode is
\* the probe's.
LocksInv ==
  /\ \A f \in Files : params[f] = "raw" => locker[f] = "probe"
  /\ \A f \in Files : port[f] # 0 => locker[f] = "port"
  /\ \A t \in Threads : call[t].op = "probe" =>
       call[t].file \in Files /\ locker[call[t].file] = "probe" /\ call[t].saved # "raw"
  /\ \A t, u \in Threads :
       call[t].op = "probe" /\ call[u].op = "probe" /\ call[t].file = call[u].file => t = u

\* Every descriptor in use is open on the file it is used for, and has one user: an entry, a
\* call in progress or a port.
EntryFds ==
  \A n \in Entries :
    /\ heap[n].fd \in Fds /\ heap[n].file \in Files /\ fdOf[heap[n].fd] = heap[n].file
    /\ \A f \in Files : port[f] # heap[n].fd
    /\ \A t \in Threads : Busy(t) => call[t].fd # heap[n].fd
    /\ \A o \in Entries \ {n} : heap[o].fd # heap[n].fd /\ heap[o].file # heap[n].file
CallFds ==
  \A t \in Threads : Busy(t) =>
    /\ call[t].fd \in Fds /\ call[t].file \in Files /\ fdOf[call[t].fd] = call[t].file
    /\ \A f \in Files : port[f] # call[t].fd
    /\ \A u \in Threads \ {t} : Busy(u) => call[u].fd # call[t].fd
PortFds == \A f \in Files : port[f] # 0 => fdOf[port[f]] = f

\* What was chosen is in force, or will be when the probe is over, and has its entry.
KeptInv ==
  \A f \in Files : kept[f].held =>
    /\ line[f] = kept[f].line
    /\ locker[f] # "probe" => params[f] = kept[f].params
    /\ \A t \in Threads : Probing(t, f) => call[t].saved = kept[f].params
    /\ \E n \in Entries : heap[n].file = f

SoundInv == ShortInv /\ EntryFds /\ CallFds /\ PortFds /\ KeptInv

PreInv ==
  /\ LocksInv
  /\ stray => \A f \in Files : ~kept[f].held
  /\ ~stray => SoundInv

-----------------------------------------------------------------------------
\* The walk of a list of one node, and of two.
LEMMA FromOne ==
  ASSUME NEW a \in Nodes, heap[a].next = Nil
  PROVE  From(a) = {a}
<1>1. a \in From(a)
  BY DEF From
<1>2. \A n \in From(a) : n \in {a}
  BY DEF From
<1>3. QED
  BY <1>1, <1>2

LEMMA FromTwo ==
  ASSUME NEW a \in Nodes, NEW b \in Nodes, heap[a].next = b, heap[b].next = Nil
  PROVE  From(a) = {a, b}
<1>1. a \in From(a)
  BY DEF From
<1>2. b \in From(a)
  BY NodeAssumption DEF From
<1>3. \A n \in From(a) : n \in {a, b}
  BY DEF From
<1>4. QED
  BY <1>1, <1>2, <1>3

LEMMA ListedShort ==
  ASSUME PreTypeOK, ShortInv
  PROVE  Listed = Entries /\ Entries \subseteq Nodes
<1>1. CASE head = Nil
  BY <1>1 DEF Listed, Entries
<1>2. CASE head # Nil
  <2>1. head \in Nodes /\ heap[head].next \in Nodes \cup {Nil}
    BY <1>2 DEF PreTypeOK, NodeType
  <2>2. CASE heap[head].next = Nil
    BY <1>2, <2>1, <2>2, FromOne DEF Listed, Entries
  <2>3. CASE heap[head].next # Nil
    <3>1. heap[heap[head].next].next = Nil
      BY <1>2, <2>3 DEF ShortInv
    <3>2. From(head) = {head, heap[head].next}
      BY <2>1, <2>3, <3>1, FromTwo
    <3>3. QED
      BY <1>2, <2>1, <2>3, <3>2 DEF Listed, Entries
  <2>4. QED
    BY <2>2, <2>3
<1>3. QED
  BY <1>1, <1>2

LEMMA MatchShort ==
  ASSUME PreTypeOK, ShortInv, EntryFds, NEW f \in Files
  PROVE  Match(f) = {n \in Entries : heap[n].file = f}
<1>1. Listed = Entries /\ Entries \subseteq Nodes
  BY ListedShort
<1>2. \A n \in Entries : n \in From(n)
  BY <1>1 DEF From
<1>3. \A n, o \in Entries : heap[n].file = f /\ heap[o].file = f => n = o
  BY DEF EntryFds
<1>4. QED
  BY <1>1, <1>2, <1>3 DEF Match

\* What find_preopened_ports does to a sound list: it leaves preopened_port on the freed
\* node, or it takes the one entry out.
LEMMA Found ==
  ASSUME PreTypeOK, ~stray, ShortInv, EntryFds,
         NEW f \in Files, NEW n \in Match(f), find_preopened_ports(f, n)
  PROVE  /\ n \in Entries /\ n \in Nodes /\ heap[n].file = f /\ alloc' = alloc \ {n}
         /\ stray' = Strays(n)
         /\ Strays(n) => \A g \in Files : ~kept'[g].held
         /\ ~Strays(n) => /\ ShortInv'
                          /\ Entries' = Entries \ {n}
                          /\ \A o \in Entries \ {n} : heap'[o].fd = heap[o].fd
                                                     /\ heap'[o].file = heap[o].file
                          /\ kept' = [g \in Files |-> IF g = f THEN Lost ELSE kept[g]]
<1>1. n \in Entries /\ heap[n].file = f /\ n \in Nodes
  BY MatchShort, ListedShort
<1>2. /\ alloc' = alloc \ {n} /\ stray' = Strays(n)
      /\ kept' = [g \in Files |-> IF g = f \/ Strays(n) THEN Lost ELSE kept[g]]
  BY DEF find_preopened_ports, Forget, PreTypeOK, Strays
<1>3. PICK name : heap' = Unlinked(n, name)
  BY DEF find_preopened_ports
<1>4. head' = IF heap[n].prev = Nil /\ heap[n].next = Nil THEN Nil ELSE head
  BY DEF find_preopened_ports
<1>5. head \in Nodes /\ head # Nil
  BY <1>1, NodeAssumption DEF Entries, PreTypeOK
<1>6. ASSUME ~Strays(n)
      PROVE  /\ ShortInv' /\ Entries' = Entries \ {n}
             /\ \A o \in Entries \ {n} : heap'[o].fd = heap[o].fd /\ heap'[o].file = heap[o].file
  <2>1. CASE n = head
    <3>1. heap[n].next = Nil /\ head' = Nil
      BY <1>4, <1>6, <2>1 DEF Strays
    <3>2. QED
      BY <1>5, <2>1, <3>1 DEF Entries, ShortInv
  <2>2. CASE n # head
    <3>1. n = heap[head].next /\ heap[n].next = Nil /\ heap[n].prev = head
      BY <1>1, <1>5, <2>2, NodeAssumption DEF Entries, ShortInv
    <3>2. head' = head
      BY <1>4, <1>5, <3>1
    <3>3. heap'[head] = [heap[head] EXCEPT !.next = Nil]
      BY <1>1, <1>3, <1>5, <2>2, <3>1, NodeAssumption DEF Unlinked, PreTypeOK, NodeType
    <3>4. /\ heap'[head].next = Nil /\ heap'[head].fd = heap[head].fd
          /\ heap'[head].file = heap[head].file
      BY <1>5, <3>3 DEF PreTypeOK, NodeType
    <3>5. head \in alloc'
      BY <1>2, <1>5, <2>2 DEF ShortInv
    <3>6. Entries = {head, n} /\ Entries' = {head}
      BY <1>1, <1>5, <3>1, <3>2, <3>4, NodeAssumption DEF Entries
    <3>7. QED
      BY <2>2, <3>2, <3>4, <3>5, <3>6 DEF ShortInv
  <2>3. QED
    BY <2>1, <2>2
<1>7. \A g \in Files : Strays(n) => ~kept'[g].held
  BY <1>2 DEF Lost
<1>8. ~Strays(n) => kept' = [g \in Files |-> IF g = f THEN Lost ELSE kept[g]]
  BY <1>2
<1>9. QED
  BY <1>1, <1>2, <1>6, <1>7, <1>8

\* What static_add_filename does to a sound list: nothing, when the file is listed already, or
\* it adds the entry and leaves preopened_port on the one before it.
LEMMA Added ==
  ASSUME PreTypeOK, ~stray, ShortInv, EntryFds,
         NEW f \in Files, NEW d \in Fds, static_add_filename(f, d)
  PROVE  /\ ShortInv'
         /\ \/ Entries' = Entries /\ UNCHANGED <<heap, kept>>
            \/ \E e \in Nodes \ Entries :
                 /\ e \in Entries' /\ Entries' \subseteq Entries \cup {e}
                 /\ heap'[e].file = f /\ heap'[e].fd = d
                 /\ \A o \in Entries : /\ heap[o].file # f
                                       /\ heap'[o].fd = heap[o].fd /\ heap'[o].file = heap[o].file
                 /\ \A g \in Files :
                      kept'[g] = IF g = f THEN [held |-> port[f] = 0, params |-> InForce(f),
                                               line |-> line[f]]
                                 ELSE IF \E n \in Entries \ Entries' : heap[n].file = g THEN Lost
                                 ELSE kept[g]
<1>1. Listed = Entries /\ Entries \subseteq Nodes
  BY ListedShort
<1>2. Entries \subseteq alloc
  BY DEF Entries, ShortInv
<1>3. PICK e \in Nodes \ alloc :
        LET name(n) == IF n = e THEN f ELSE heap[n].file
            entry(p) == [file |-> f, fd |-> d, next |-> Nil, prev |-> p] IN
        \/ /\ head = Nil
           /\ heap' = [heap EXCEPT ![e] = entry(Nil)]
           /\ head' = e
           /\ alloc' = alloc \cup {e}
           /\ kept' = Keep(f, Nil)
        \/ /\ \E n \in Listed : name(n) = f
           /\ heap' = IF e = head THEN [heap EXCEPT ![e].file = f, ![e].fd = d] ELSE heap
           /\ alloc' = alloc \cup ({e} \cap {head})
           /\ UNCHANGED <<head, kept>>
        \/ /\ \A n \in Listed : name(n) # f
           /\ \E p \in Listed :
                /\ heap[p].next = Nil
                /\ heap' = [heap EXCEPT ![e] = entry(p), ![p].next = e]
                /\ head' = p
                /\ alloc' = alloc \cup {e}
                /\ kept' = Keep(f, p)
  BY DEF static_add_filename
<1>4. e \notin Entries /\ e # head /\ e # Nil
  BY <1>2, <1>3, NodeAssumption DEF ShortInv
<1>5. CASE /\ head = Nil
           /\ heap' = [heap EXCEPT ![e] = [file |-> f, fd |-> d, next |-> Nil, prev |-> Nil]]
           /\ head' = e
           /\ alloc' = alloc \cup {e}
           /\ kept' = Keep(f, Nil)
  <2>1. Entries = {}
    BY <1>5 DEF Entries
  <2>2. heap'[e] = [file |-> f, fd |-> d, next |-> Nil, prev |-> Nil]
    BY <1>5 DEF PreTypeOK
  <2>3. Entries' = {e} /\ ShortInv'
    BY <1>4, <1>5, <2>2 DEF Entries, ShortInv
  <2>4. \A g \in Files : kept'[g] = IF g = f THEN [held |-> port[f] = 0, params |-> InForce(f),
                                                   line |-> line[f]]
                                   ELSE kept[g]
    BY <1>1, <1>5, <2>1 DEF Keep
  <2>5. QED
    BY <1>4, <2>1, <2>2, <2>3, <2>4
<1>6. CASE /\ heap' = IF e = head THEN [heap EXCEPT ![e].file = f, ![e].fd = d] ELSE heap
           /\ alloc' = alloc \cup ({e} \cap {head})
           /\ UNCHANGED <<head, kept>>
  <2>1. UNCHANGED <<heap, alloc, head, kept>>
    BY <1>4, <1>6
  <2>2. QED
    BY <2>1 DEF ShortInv, Entries
<1>7. ASSUME \A n \in Listed : (IF n = e THEN f ELSE heap[n].file) # f,
             NEW p \in Listed, heap[p].next = Nil,
             heap' = [heap EXCEPT ![e] = [file |-> f, fd |-> d, next |-> Nil, prev |-> p],
                                  ![p].next = e],
             head' = p, alloc' = alloc \cup {e}, kept' = Keep(f, p)
      PROVE  /\ ShortInv' /\ e \in Entries' /\ Entries' \subseteq Entries \cup {e}
             /\ heap'[e].file = f /\ heap'[e].fd = d
             /\ \A o \in Entries : /\ heap[o].file # f
                                   /\ heap'[o].fd = heap[o].fd /\ heap'[o].file = heap[o].file
             /\ \A g \in Files :
                  kept'[g] = IF g = f THEN [held |-> port[f] = 0, params |-> InForce(f),
                                           line |-> line[f]]
                             ELSE IF \E n \in Entries \ Entries' : heap[n].file = g THEN Lost
                             ELSE kept[g]
  <2>1. p \in Entries /\ p # e /\ p \in Nodes /\ p # Nil
    BY <1>1, <1>4, <1>7, NodeAssumption
  <2>2. /\ heap'[e] = [file |-> f, fd |-> d, next |-> Nil, prev |-> p]
        /\ heap'[p] = [heap[p] EXCEPT !.next = e]
        /\ \A o \in Nodes \ {e, p} : heap'[o] = heap[o]
    BY <1>7, <2>1 DEF PreTypeOK
  <2>3. heap'[p].next = e /\ heap'[p].fd = heap[p].fd /\ heap'[p].file = heap[p].file
    BY <2>1, <2>2 DEF PreTypeOK, NodeType
  <2>4. Entries' = {p, e}
    BY <1>4, <1>7, <2>1, <2>3 DEF Entries
  <2>5. ShortInv'
    BY <1>2, <1>4, <1>7, <2>1, <2>2, <2>3 DEF ShortInv
  <2>6. \A o \in Entries : /\ heap[o].file # f
                           /\ heap'[o].fd = heap[o].fd /\ heap'[o].file = heap[o].file
    BY <1>1, <1>4, <1>7, <2>2, <2>3
  <2>7. Entries \ Entries' = Entries \ {p}
    BY <1>4, <2>4
  <2>8. \A g \in Files :
          kept'[g] = IF g = f THEN [held |-> port[f] = 0, params |-> InForce(f),
                                   line |-> line[f]]
                     ELSE IF \E n \in Entries \ {p} : heap[n].file = g THEN Lost
                     ELSE kept[g]
    BY <1>1, <1>7 DEF Keep
  <2>9. QED
    BY <2>1, <2>2, <2>4, <2>5, <2>6, <2>7, <2>8
<1>8. QED
  BY <1>3, <1>4, <1>5, <1>6, <1>7

-----------------------------------------------------------------------------
LEMMA PreTypeInit == PreInit => PreTypeOK
<1> SUFFICES ASSUME PreInit PROVE PreTypeOK
  OBVIOUS
<1>1. heap \in [Nodes -> NodeType]
  BY DEF PreInit, NodeType, Blank
<1>2. call \in [Threads -> CallType]
  BY DEF PreInit, Idle, CallType, Settings
<1>3. kept \in [Files -> KeptType]
  BY DEF PreInit, KeptType, Lost, Settings
<1>4. calls \in 0 .. MaxCalls
  BY CallsAssumption DEF PreInit
<1>5. params \in [Files -> Settings]
  BY DEF PreInit, Settings
<1>6. locker \in [Files -> {"free", "probe", "port", "left"}]
  BY DEF PreInit
<1>7. QED
  BY <1>1, <1>2, <1>3, <1>4, <1>5, <1>6 DEF PreInit, PreTypeOK

\* The parts of TypeOK about the list and the history.
ListType ==
  /\ heap \in [Nodes -> NodeType]
  /\ alloc \subseteq Nodes
  /\ head \in Nodes \cup {Nil}
  /\ kept \in [Files -> KeptType]
  /\ stray \in BOOLEAN

LEMMA FoundType ==
  ASSUME PreTypeOK, NEW f \in Files, NEW n \in Match(f), find_preopened_ports(f, n)
  PROVE  ListType' /\ n \in Nodes /\ heap[n].fd \in Fds \cup {0}
<1>1. n \in Nodes
  BY DEF Match, Listed, From
<1>2. PICK name \in {heap[n].file, None} : heap' = Unlinked(n, name)
  BY DEF find_preopened_ports
<1>3. heap' \in [Nodes -> NodeType]
  <2>1. SUFFICES ASSUME NEW x \in Nodes PROVE heap'[x] \in NodeType
    BY <1>2 DEF Unlinked
  <2>2. heap[x] \in NodeType /\ heap[n] \in NodeType
    BY <1>1 DEF PreTypeOK
  <2>3. name \in Files \cup {None}
    BY <1>2, <2>2 DEF NodeType
  <2>4. CASE x = n
    BY <1>2, <2>2, <2>3, <2>4 DEF Unlinked, Blank, NodeType
  <2>5. CASE x # n
    BY <1>2, <2>2, <2>5 DEF Unlinked, NodeType
  <2>6. QED
    BY <2>4, <2>5
<1>4. kept' \in [Files -> KeptType]
  BY DEF find_preopened_ports, Forget, Lost, KeptType, PreTypeOK, Settings
<1>5. QED
  BY <1>1, <1>3, <1>4 DEF ListType, find_preopened_ports, PreTypeOK, NodeType, Strays

LEMMA InForceType ==
  ASSUME PreTypeOK, NEW f \in Files
  PROVE  InForce(f) \in Settings
BY DEF InForce, PreTypeOK, CallType

LEMMA AddedType ==
  ASSUME PreTypeOK, NEW f \in Files \cup {None}, NEW d \in Fds \cup {0},
         static_add_filename(f, d), UNCHANGED stray
  PROVE  ListType'
<1>1. \A p : Keep(f, p) \in [Files -> KeptType]
  BY InForceType DEF Keep, Lost, PreTypeOK, KeptType, Settings
<1>2. Listed \subseteq Nodes
  BY DEF Listed, From
<1>3. /\ head' \in Nodes \cup {Nil} /\ alloc' \subseteq Nodes /\ stray' \in BOOLEAN
      /\ kept' \in [Files -> KeptType]
  <2>1. \/ head' \in Nodes /\ \E p : kept' = Keep(f, p)
        \/ UNCHANGED <<head, kept>>
    BY <1>2 DEF static_add_filename
  <2>2. alloc' \subseteq Nodes
    BY DEF static_add_filename, PreTypeOK
  <2>3. QED
    BY <1>1, <2>1, <2>2 DEF PreTypeOK
<1>4. heap' \in [Nodes -> NodeType]
  <2> DEFINE entry(p) == [file |-> f, fd |-> d, next |-> Nil, prev |-> p]
  <2>1. PICK e \in Nodes :
          \/ heap' = [heap EXCEPT ![e] = entry(Nil)]
          \/ heap' = IF e = head THEN [heap EXCEPT ![e].file = f, ![e].fd = d] ELSE heap
          \/ \E p \in Nodes : heap' = [heap EXCEPT ![e] = entry(p), ![p].next = e]
    BY <1>2 DEF static_add_filename
  <2>2. \A p \in Nodes \cup {Nil} : entry(p) \in NodeType
    BY DEF NodeType
  <2>3. CASE heap' = [heap EXCEPT ![e] = entry(Nil)]
    BY <2>2, <2>3 DEF PreTypeOK
  <2>4. CASE heap' = IF e = head THEN [heap EXCEPT ![e].file = f, ![e].fd = d] ELSE heap
    <3>1. CASE e # head
      BY <2>4, <3>1 DEF PreTypeOK
    <3>2. CASE e = head
      <4>1. heap' = [heap EXCEPT ![e] = [@ EXCEPT !.file = f, !.fd = d]]
        BY <2>4, <3>2 DEF PreTypeOK
      <4>2. \A r \in NodeType : [r EXCEPT !.file = f, !.fd = d] \in NodeType
        BY DEF NodeType
      <4>3. QED
        <5>1. heap[e] \in NodeType
          BY DEF PreTypeOK
        <5>2. QED
          BY <4>1, <4>2, <5>1 DEF PreTypeOK
    <3>3. QED
      BY <3>1, <3>2
  <2>5. ASSUME NEW p \in Nodes, heap' = [heap EXCEPT ![e] = entry(p), ![p].next = e]
        PROVE  heap' \in [Nodes -> NodeType]
    <3>1. [heap EXCEPT ![e] = entry(p)] \in [Nodes -> NodeType]
      BY <2>2 DEF PreTypeOK
    <3>2. \A h \in [Nodes -> NodeType] : [h EXCEPT ![p].next = e] \in [Nodes -> NodeType]
      BY DEF NodeType
    <3>3. QED
      BY <2>5, <3>1, <3>2
  <2>6. QED
    BY <2>1, <2>3, <2>4, <2>5
<1>5. QED
  BY <1>3, <1>4 DEF ListType

\* The records of the calls in progress.
LEMMA IdleType ==
  /\ Idle \in CallType
  /\ \A f \in Files : \A d \in Fds \cup {0} :
       /\ [Idle EXCEPT !.op = "add", !.file = f, !.fd = d] \in CallType
       /\ [Idle EXCEPT !.op = "close", !.file = f, !.fd = d] \in CallType
       /\ \A s \in Settings : [op |-> "probe", file |-> f, fd |-> d, saved |-> s] \in CallType
BY DEF Idle, CallType, Settings

\* The calls there are, in terms of what their copies in the source have in common.
LEMMA CallCases ==
  ASSUME PreTypeOK, Call
  PROVE  \/ \E f \in Files : open(f) \/ nativeClose(f)
         \/ \E t \in Threads, f \in Files :
              \/ \E l, sets \in BOOLEAN : StaticSet(t, f, l, sets)
              \/ Query(t, f) \/ testRead(t, f) \/ isPortPrefixValid(t, f)
<1>1. \A f \in Files : line[f] \in BOOLEAN
  BY DEF PreTypeOK
<1>2. CASE \E f \in Files : open(f) \/ nativeClose(f)
  BY <1>2
<1>3. ASSUME NEW t \in Threads, NEW f \in Files,
             \/ \E flag \in BOOLEAN : nativeStaticSetRTS(t, f, flag) \/ nativeStaticSetDTR(t, f, flag)
             \/ nativeStaticSetDSR(t, f)
             \/ nativeStaticSetSerialPortParams(t, f)
      PROVE  \E l, sets \in BOOLEAN : StaticSet(t, f, l, sets)
  BY <1>1, <1>3 DEF nativeStaticSetRTS, nativeStaticSetDTR, nativeStaticSetDSR,
                    nativeStaticSetSerialPortParams
<1>4. ASSUME NEW t \in Threads, NEW f \in Files,
             nativeStaticIs(t, f) \/ nativeStaticIsRI(t, f) \/ nativeStaticGet(t, f)
      PROVE  Query(t, f)
  BY <1>4 DEF nativeStaticIs, nativeStaticIsRI, nativeStaticGet
<1>5. QED
  BY <1>2, <1>3, <1>4 DEF Call

LEMMA PreTypeStep ==
  ASSUME PreTypeOK, [PreNext]_preVars
  PROVE  PreTypeOK'
<1>1. ASSUME NEW t \in Threads, NEW f \in Files, NEW l \in BOOLEAN, NEW sets \in BOOLEAN,
             StaticSet(t, f, l, sets), calls' \in 0 .. MaxCalls
      PROVE  PreTypeOK'
  <2>1. ListType'
    <3>1. CASE UNCHANGED <<list, stray, kept>>
      BY <3>1 DEF ListType, PreTypeOK, list
    <3>2. CASE \E n \in Match(f) : find_preopened_ports(f, n)
      BY <3>2, FoundType
    <3>3. QED
      BY <1>1, <3>1, <3>2 DEF StaticSet
  <2>2. \A d \in Fds \cup {0} : \A setting \in Settings :
          Chosen(t, f, d, setting, l)
            => /\ UNCHANGED locker /\ params' \in [Files -> Settings]
               /\ line' \in [Files -> BOOLEAN]
               /\ call' \in [Threads -> CallType]
    <3>1. SUFFICES ASSUME NEW d \in Fds \cup {0}, NEW setting \in Settings,
                          Chosen(t, f, d, setting, l)
                   PROVE  /\ UNCHANGED locker /\ params' \in [Files -> Settings]
                          /\ line' \in [Files -> BOOLEAN]
                          /\ call' \in [Threads -> CallType]
      OBVIOUS
    <3>2. [Idle EXCEPT !.op = "add", !.file = f, !.fd = d] \in CallType
      BY IdleType
    <3>3. QED
      BY <3>1, <3>2 DEF Chosen, PreTypeOK
  <2>3. FailLocked(f) => locker' \in [Files -> {"free", "probe", "port", "left"}]
    BY DEF FailLocked, PreTypeOK
  <2>4. /\ \A n \in Match(f) : heap[n].fd \in Fds \cup {0}
        /\ params[f] \in Settings
        /\ Lowest \subseteq Fds /\ configure_port(f) \in [Files -> Settings]
    BY DEF Settings, PreTypeOK, NodeType, Match, Listed, From, Lowest, configure_port
  <2>5. /\ fdOf' \in [Fds -> Files \cup {None}] /\ UNCHANGED port
    BY <1>1, <2>4 DEF StaticSet, PreTypeOK
  <2>6. \/ \E d \in Fds \cup {0} : \E setting \in Settings : Chosen(t, f, d, setting, l)
        \/ FailLocked(f) /\ UNCHANGED <<line, call>> /\ params' \in {params, configure_port(f)}
    <3>1. "set" \in Settings /\ "sane" \in Settings
      BY DEF Settings
    <3>2. QED
      BY <1>1, <2>4, <3>1 DEF StaticSet
  <2>7. /\ params' \in [Files -> Settings] /\ line' \in [Files -> BOOLEAN]
        /\ call' \in [Threads -> CallType]
        /\ locker' \in [Files -> {"free", "probe", "port", "left"}]
    BY <2>2, <2>3, <2>4, <2>6 DEF PreTypeOK
  <2>8. QED
    BY <1>1, <2>1, <2>5, <2>7 DEF ListType, PreTypeOK
<1>2. ASSUME NEW t \in Threads, NEW f \in Files, Query(t, f), calls' \in 0 .. MaxCalls
      PROVE  PreTypeOK'
  BY <1>2, FoundType DEF Query, ListType, PreTypeOK, device
<1>3. ASSUME NEW f \in Files, open(f), calls' \in 0 .. MaxCalls
      PROVE  PreTypeOK'
  <2>1. ListType'
    <3>1. CASE UNCHANGED <<list, stray, kept>>
      BY <3>1 DEF ListType, PreTypeOK, list
    <3>2. CASE \E n \in Match(f) : find_preopened_ports(f, n)
      BY <3>2, FoundType
    <3>3. QED
      BY <1>3, <3>1, <3>2 DEF open
  <2>2. /\ \A n \in Match(f) : heap[n].fd \in Fds \cup {0}
        /\ Lowest \subseteq Fds /\ configure_port(f) \in [Files -> Settings]
    BY DEF Settings, PreTypeOK, NodeType, Match, Listed, From, Lowest, configure_port
  <2>3. QED
    BY <1>3, <2>1, <2>2 DEF open, FailLocked, ListType, PreTypeOK
<1>4. ASSUME NEW f \in Files, nativeClose(f), calls' \in 0 .. MaxCalls
      PROVE  PreTypeOK'
  BY <1>4 DEF nativeClose, Close, LinesAfterClose, list, PreTypeOK
<1>5. ASSUME NEW t \in Threads, NEW f \in Files, testRead(t, f), calls' \in 0 .. MaxCalls
      PROVE  PreTypeOK'
  <2>1. params' \in [Files -> Settings] /\ locker' \in [Files -> {"free", "probe", "port", "left"}]
    BY <1>5 DEF testRead, PreTypeOK, Settings
  <2>2. Lowest \subseteq Fds /\ params[f] \in Settings
    BY DEF Lowest, PreTypeOK
  <2>3. call' \in [Threads -> CallType] /\ fdOf' \in [Fds -> Files \cup {None}]
    <3>1. PICK d \in Fds : /\ fdOf' = [fdOf EXCEPT ![d] = f]
                           /\ call' = [call EXCEPT ![t] = [op |-> "probe", file |-> f, fd |-> d,
                                                          saved |-> params[f]]]
      BY <1>5, <2>2 DEF testRead
    <3>2. [op |-> "probe", file |-> f, fd |-> d, saved |-> params[f]] \in CallType
      BY <2>2, IdleType
    <3>3. QED
      BY <3>1, <3>2 DEF PreTypeOK
  <2>4. QED
    BY <1>5, <2>1, <2>3 DEF testRead, list, PreTypeOK
<1>6. ASSUME NEW t \in Threads, NEW f \in Files, isPortPrefixValid(t, f), calls' \in 0 .. MaxCalls
      PROVE  PreTypeOK'
  <2>1. call' \in [Threads -> CallType] /\ fdOf' \in [Fds -> Files \cup {None}]
    <3>1. PICK d \in Fds : /\ fdOf' = [fdOf EXCEPT ![d] = f]
                           /\ call' = [call EXCEPT ![t] = [Idle EXCEPT !.op = "close", !.file = f,
                                                                      !.fd = d]]
      BY <1>6 DEF isPortPrefixValid, Lowest
    <3>2. [Idle EXCEPT !.op = "close", !.file = f, !.fd = d] \in CallType
      BY IdleType
    <3>3. QED
      BY <3>1, <3>2 DEF PreTypeOK
  <2>2. QED
    BY <1>6, <2>1 DEF isPortPrefixValid, list, device, PreTypeOK
<1>7. ASSUME NEW t \in Threads, AddEntry(t), UNCHANGED calls
      PROVE  PreTypeOK'
  <2>1. ListType'
    <3>1. call[t].file \in Files \cup {None} /\ call[t].fd \in Fds \cup {0}
      BY DEF PreTypeOK, CallType
    <3>2. QED
      BY <1>7, <3>1, AddedType DEF AddEntry
  <2>2. QED
    BY <1>7, <2>1, IdleType DEF AddEntry, device, ListType, PreTypeOK
<1>8. ASSUME NEW t \in Threads, testRead_END(t), UNCHANGED calls
      PROVE  PreTypeOK'
  <2>1. call[t] \in CallType /\ call[t].saved \in Settings
    BY DEF PreTypeOK, CallType
  <2>2. call' \in [Threads -> CallType]
    <3>1. [call[t] EXCEPT !.op = "close", !.saved = "sane"] \in CallType
      BY <2>1 DEF CallType, Settings
    <3>2. call' = [call EXCEPT ![t] = [call[t] EXCEPT !.op = "close", !.saved = "sane"]]
      BY <1>8 DEF testRead_END, PreTypeOK
    <3>3. QED
      BY <3>1, <3>2 DEF PreTypeOK
  <2>3. params' \in [Files -> Settings] /\ locker' \in [Files -> {"free", "probe", "port", "left"}]
    BY <1>8, <2>1 DEF testRead_END, PreTypeOK
  <2>4. QED
    BY <1>8, <2>2, <2>3 DEF testRead_END, list, PreTypeOK
<1>9. ASSUME NEW t \in Threads, CloseProbe(t), UNCHANGED calls
      PROVE  PreTypeOK'
  BY <1>9, IdleType DEF CloseProbe, Close, LinesAfterClose, list, PreTypeOK
<1>10. CASE UNCHANGED preVars
  BY <1>10 DEF preVars, PreTypeOK
<1>11. CASE Call
  <2>1. calls' \in 0 .. MaxCalls
    BY <1>11, CallsAssumption DEF Call, PreTypeOK
  <2>2. \/ \E f \in Files : open(f) \/ nativeClose(f)
        \/ \E t \in Threads, f \in Files :
             \/ \E l, sets \in BOOLEAN : StaticSet(t, f, l, sets)
             \/ Query(t, f) \/ testRead(t, f) \/ isPortPrefixValid(t, f)
    BY <1>11, CallCases
  <2>3. QED
    BY <1>1, <1>2, <1>3, <1>4, <1>5, <1>6, <2>1, <2>2
<1>12. CASE Return
  BY <1>7, <1>8, <1>9, <1>12 DEF Return
<1>13. QED
  BY <1>10, <1>11, <1>12 DEF PreNext

\* Every variable holds a value of its type.
THEOREM PreTypeCorrect == PreSpec => []PreTypeOK
  BY PreTypeInit, PreTypeStep, PTL DEF PreSpec

-----------------------------------------------------------------------------
LEMMA LocksInvInit == PreInit => LocksInv
  BY DEF PreInit, LocksInv, Idle

\* What a setter does, up to its UNLOCK, to everything but the list.
LEMMA SetterDoes ==
  ASSUME PreTypeOK, NEW t \in Threads, NEW f \in Files, NEW l, NEW sets,
         StaticSet(t, f, l, sets)
  PROVE  /\ call[t] = Idle /\ locker[f] = "free" /\ port' = port
         /\ \A g \in Files \ {f} : /\ params'[g] = params[g] /\ line'[g] = line[g]
                                   /\ locker'[g] = locker[g]
         /\ params'[f] \in {params[f], "set", "sane"}
         /\ \/ locker' = locker /\ \E d : call' = [call EXCEPT ![t] = [Idle EXCEPT !.op = "add",
                                                                   !.file = f, !.fd = d]]
            \/ locker'[f] = "left" /\ UNCHANGED <<line, call>>
<1>1. /\ call[t] = Idle /\ locker[f] = "free" /\ port' = port
      /\ \/ \E d : \E s \in {params[f], "set", "sane"} : Chosen(t, f, d, s, l)
         \/ FailLocked(f) /\ UNCHANGED <<line, call>> /\ params' \in {params, configure_port(f)}
  BY DEF StaticSet
<1>2. CASE FailLocked(f) /\ UNCHANGED <<line, call>> /\ params' \in {params, configure_port(f)}
  BY <1>1, <1>2 DEF FailLocked, configure_port, PreTypeOK
<1>3. ASSUME NEW d, NEW s \in {params[f], "set", "sane"}, Chosen(t, f, d, s, l)
      PROVE  /\ \A g \in Files \ {f} : /\ params'[g] = params[g] /\ line'[g] = line[g]
                                       /\ locker'[g] = locker[g]
             /\ params'[f] \in {params[f], "set", "sane"}
             /\ locker' = locker /\ call' = [call EXCEPT ![t] = [Idle EXCEPT !.op = "add",
                                                                !.file = f, !.fd = d]]
  BY <1>3 DEF Chosen, PreTypeOK
<1>4. QED
  BY <1>1, <1>2, <1>3

LEMMA LocksInvStep ==
  ASSUME PreTypeOK, LocksInv, [PreNext]_preVars
  PROVE  LocksInv'
<1>1. ASSUME NEW t \in Threads, NEW f \in Files, NEW l, NEW sets, StaticSet(t, f, l, sets)
      PROVE  LocksInv'
  <2>1. /\ call[t] = Idle /\ locker[f] = "free" /\ port' = port
        /\ \A g \in Files \ {f} : params'[g] = params[g] /\ locker'[g] = locker[g]
        /\ params'[f] \in {params[f], "set", "sane"}
        /\ \/ locker' = locker /\ \E d : call' = [call EXCEPT ![t] = [Idle EXCEPT !.op = "add",
                                                                  !.file = f, !.fd = d]]
           \/ locker'[f] = "left" /\ UNCHANGED call
    BY <1>1, SetterDoes
  <2>2. /\ port[f] = 0 /\ params'[f] # "raw"
        /\ \A u \in Threads : call[u].op = "probe" => call[u].file # f
    BY <2>1 DEF LocksInv
  <2>3. \A u \in Threads : call'[u].op = "probe" => call'[u] = call[u]
    BY <2>1 DEF PreTypeOK, Idle
  <2>4. \A g \in Files : /\ params'[g] = "raw" => locker'[g] = "probe"
                         /\ port'[g] # 0 => locker'[g] = "port"
    BY <2>1, <2>2 DEF LocksInv
  <2>5. \A u \in Threads : call'[u].op = "probe" =>
          call'[u].file \in Files /\ locker'[call'[u].file] = "probe" /\ call'[u].saved # "raw"
    <3>1. SUFFICES ASSUME NEW u \in Threads, call'[u].op = "probe"
                   PROVE  call'[u].file \in Files /\ locker'[call'[u].file] = "probe"
                          /\ call'[u].saved # "raw"
      OBVIOUS
    <3>2. call'[u] = call[u] /\ call[u].file # f /\ call[u].file \in Files
      BY <2>2, <2>3, <3>1 DEF LocksInv
    <3>3. locker'[call[u].file] = locker[call[u].file]
      BY <2>1, <3>2
    <3>4. QED
      BY <3>1, <3>2, <3>3 DEF LocksInv
  <2>6. \A u, v \in Threads :
          call'[u].op = "probe" /\ call'[v].op = "probe" /\ call'[u].file = call'[v].file => u = v
    BY <2>3 DEF LocksInv
  <2>7. QED
    BY <2>4, <2>5, <2>6 DEF LocksInv
<1>2. ASSUME NEW f \in Files, open(f)
      PROVE  LocksInv'
  <2>1. /\ locker[f] = "free" /\ call' = call
        /\ \/ locker' = [locker EXCEPT ![f] = "port"] /\ \E d : port' = [port EXCEPT ![f] = d]
           \/ locker' = [locker EXCEPT ![f] = "left"] /\ port' = port
        /\ \/ params' = params
           \/ params' = configure_port(f)
    BY <1>2 DEF open, FailLocked
  <2>2. /\ port[f] = 0 /\ params[f] # "raw" /\ params'[f] # "raw"
        /\ \A g \in Files \ {f} : params'[g] = params[g]
        /\ \A u \in Threads : call[u].op = "probe" => call[u].file # f
    BY <2>1 DEF LocksInv, configure_port, PreTypeOK
  <2>3. QED
    BY <2>1, <2>2 DEF LocksInv, PreTypeOK
<1>3. ASSUME NEW f \in Files, nativeClose(f)
      PROVE  LocksInv'
  <2>1. /\ locker[f] = "port" /\ port' = [port EXCEPT ![f] = 0]
        /\ locker' = [locker EXCEPT ![f] = "free"] /\ UNCHANGED <<params, call>>
    BY <1>3 DEF nativeClose, LocksInv
  <2>2. QED
    BY <2>1 DEF LocksInv, PreTypeOK
<1>4. ASSUME NEW t \in Threads, NEW f \in Files, testRead(t, f)
      PROVE  LocksInv'
  <2>1. PICK d : call' = [call EXCEPT ![t] = [op |-> "probe", file |-> f, fd |-> d,
                                             saved |-> params[f]]]
    BY <1>4 DEF testRead
  <2>2. /\ call[t] = Idle /\ locker[f] = "free" /\ locker' = [locker EXCEPT ![f] = "probe"]
        /\ params' = [params EXCEPT ![f] = "raw"] /\ UNCHANGED port
    BY <1>4 DEF testRead
  <2>3. /\ port[f] = 0 /\ params[f] # "raw"
        /\ \A u \in Threads : call[u].op = "probe" => call[u].file # f
    BY <2>2 DEF LocksInv
  <2>4. /\ call'[t].op = "probe" /\ call'[t].file = f /\ call'[t].saved = params[f]
        /\ \A u \in Threads \ {t} : call'[u] = call[u]
    BY <2>1 DEF PreTypeOK
  <2>5. QED
    BY <2>2, <2>3, <2>4 DEF LocksInv, PreTypeOK
<1>5. ASSUME NEW t \in Threads, testRead_END(t)
      PROVE  LocksInv'
  <2> DEFINE f == call[t].file
  <2>1. /\ f \in Files /\ locker[f] = "probe" /\ call[t].saved # "raw" /\ port[f] = 0
    BY <1>5 DEF testRead_END, LocksInv
  <2>2. /\ params' = [params EXCEPT ![f] = call[t].saved] /\ port' = port
        /\ locker' = [locker EXCEPT ![f] = "free"]
    BY <1>5 DEF testRead_END
  <2>3. \A u \in Threads : call'[u].op = "probe" => /\ call'[u] = call[u] /\ u # t
                                                  /\ call[u].file # f
    BY <1>5 DEF testRead_END, LocksInv, PreTypeOK, CallType
  <2>4. QED
    BY <2>1, <2>2, <2>3 DEF LocksInv, PreTypeOK
<1>6. ASSUME NEW t \in Threads, \E r : r.op # "probe" /\ call' = [call EXCEPT ![t] = r],
             UNCHANGED <<locker, port, params>>
      PROVE  LocksInv'
  BY <1>6 DEF LocksInv, PreTypeOK
<1>7. CASE UNCHANGED <<locker, port, params, call>>
  BY <1>7 DEF LocksInv
<1>8. CASE Call
  <2>1. ASSUME NEW t \in Threads, NEW f \in Files, isPortPrefixValid(t, f) PROVE LocksInv'
    <3>1. \E d : call' = [call EXCEPT ![t] = [Idle EXCEPT !.op = "close", !.file = f, !.fd = d]]
      BY <2>1 DEF isPortPrefixValid
    <3>2. \A d : [Idle EXCEPT !.op = "close", !.file = f, !.fd = d].op # "probe"
      BY DEF Idle
    <3>3. QED
      BY <1>6, <2>1, <3>1, <3>2 DEF isPortPrefixValid, device
  <2>2. QED
    BY <1>1, <1>2, <1>3, <1>4, <1>7, <1>8, <2>1, CallCases DEF Query, device
<1>9. CASE Return
  <2>1. Idle.op # "probe"
    BY DEF Idle
  <2>2. QED
    BY <1>5, <1>6, <1>9, <2>1 DEF Return, AddEntry, CloseProbe, device
<1>10. QED
  BY <1>7, <1>8, <1>9 DEF PreNext, preVars

\* No port is open on a device that a probe has switched to raw mode, whatever threads open,
\* prepare, query and probe it.
THEOREM ProbesAlone == PreSpec => []ProbeAlone
<1>1. LocksInv => ProbeAlone
  BY DEF LocksInv, ProbeAlone
<1>2. QED
  BY <1>1, LocksInvInit, LocksInvStep, PreTypeCorrect, PTL DEF PreSpec

-----------------------------------------------------------------------------
(* The descriptors. *)

\* A descriptor that nobody uses, because it was closed or its entry has just been taken out
\* of the list, is given to a call, to the port, or to nobody.
LEMMA HandOver ==
  ASSUME PreTypeOK, EntryFds, CallFds, PortFds, NEW f \in Files, NEW d \in Fds,
         fdOf'[d] = f, \A e \in Fds \ {d} : fdOf'[e] = fdOf[e],
         Entries' \subseteq Entries,
         \A o \in Entries' : /\ heap'[o].fd = heap[o].fd /\ heap'[o].file = heap[o].file
                             /\ heap[o].fd # d,
         \A u \in Threads : Busy(u) => call[u].fd # d,
         \A g \in Files : port[g] # d,
         \/ /\ port' = port
            /\ \E t \in Threads : /\ call'[t].fd = d /\ call'[t].file = f
                                  /\ \A u \in Threads \ {t} : call'[u] = call[u]
         \/ port' = [port EXCEPT ![f] = d] /\ call' = call
         \/ UNCHANGED <<port, call>>
  PROVE  EntryFds' /\ CallFds' /\ PortFds'
<1>1. EntryFds'
  <2>1. SUFFICES ASSUME NEW n \in Entries'
                 PROVE  /\ heap[n].fd \in Fds /\ heap[n].file \in Files
                        /\ fdOf'[heap[n].fd] = heap[n].file
                        /\ \A g \in Files : port'[g] # heap[n].fd
                        /\ \A t \in Threads : Busy(t)' => call'[t].fd # heap[n].fd
                        /\ \A o \in Entries' \ {n} : /\ heap[o].fd # heap[n].fd
                                                     /\ heap[o].file # heap[n].file
    BY DEF EntryFds
  <2>2. n \in Entries /\ heap[n].fd # d
    BY <2>1
  <2>3. \A t \in Threads : Busy(t)' => call'[t].fd # heap[n].fd
    BY <2>2 DEF EntryFds, Busy
  <2>4. \A g \in Files : port'[g] # heap[n].fd
    BY <2>2 DEF EntryFds, PreTypeOK
  <2>5. QED
    BY <2>2, <2>3, <2>4 DEF EntryFds
<1>2. CallFds'
  BY DEF CallFds, Busy, PreTypeOK
<1>3. PortFds'
  BY DEF PortFds, PreTypeOK
<1>4. QED
  BY <1>1, <1>2, <1>3

\* open(2) returns a descriptor nobody uses.
LEMMA LowestUnused ==
  ASSUME PreTypeOK, EntryFds, CallFds, PortFds, NEW d \in Lowest
  PROVE  /\ d \in Fds
         /\ \A o \in Entries : heap[o].fd # d
         /\ \A u \in Threads : Busy(u) => call[u].fd # d
         /\ \A g \in Files : port[g] # d
<1>1. d \in Fds /\ fdOf[d] = None /\ d # 0
  BY FdsAssumption DEF Lowest
<1>2. QED
  BY <1>1, FileAssumption DEF EntryFds, CallFds, PortFds

\* The entry that was taken out of the list was the only user of its descriptor.
LEMMA TakenUnused ==
  ASSUME EntryFds, NEW n \in Entries
  PROVE  /\ heap[n].fd \in Fds /\ fdOf[heap[n].fd] = heap[n].file
         /\ \A o \in Entries \ {n} : heap[o].fd # heap[n].fd
         /\ \A u \in Threads : Busy(u) => call[u].fd # heap[n].fd
         /\ \A g \in Files : port[g] # heap[n].fd
BY DEF EntryFds

\* A close by the one user of a descriptor.
LEMMA Closed ==
  ASSUME PreTypeOK, EntryFds, CallFds, PortFds, KeptInv, UNCHANGED list, NEW d \in Fds,
         fdOf' = [fdOf EXCEPT ![d] = None], line' = LinesAfterClose(d),
         \/ call' = call /\ \E f \in Files : port[f] = d /\ port' = [port EXCEPT ![f] = 0]
         \/ port' = port /\ \E t \in Threads : /\ Busy(t) /\ call[t].fd = d
                                               /\ call' = [call EXCEPT ![t] = Idle]
  PROVE  /\ EntryFds' /\ CallFds' /\ PortFds'
         /\ \A g \in Files : kept[g].held => line'[g] = line[g]
<1>1. /\ Entries' = Entries /\ heap' = heap
      /\ \A n \in Entries : heap[n].fd # d
  BY DEF Entries, list, EntryFds
<1>2. \A g \in Files : kept[g].held => line'[g] = line[g]
  <2>1. SUFFICES ASSUME NEW g \in Files, kept[g].held PROVE line'[g] = line[g]
    OBVIOUS
  <2>2. PICK n \in Entries : heap[n].file = g
    BY <2>1 DEF KeptInv
  <2>3. heap[n].fd \in Fds \ {d} /\ fdOf[heap[n].fd] = g
    BY <1>1, <2>2 DEF EntryFds
  <2>4. QED
    BY <2>3 DEF LinesAfterClose
<1>3. CASE call' = call /\ \E f \in Files : port[f] = d /\ port' = [port EXCEPT ![f] = 0]
  <2>1. PICK f \in Files : port[f] = d /\ port' = [port EXCEPT ![f] = 0]
    BY <1>3
  <2>2. d # 0 /\ \A g \in Files \ {f} : port[g] # d
    BY <2>1, FdsAssumption DEF PortFds
  <2>3. \A t \in Threads : Busy(t) => call[t].fd # d
    BY <2>1 DEF CallFds
  <2>4. EntryFds'
    BY <1>1, <1>3, <2>1, FdsAssumption DEF EntryFds, Busy, PreTypeOK
  <2>5. CallFds'
    BY <1>3, <2>1, <2>3, FdsAssumption DEF CallFds, Busy, PreTypeOK
  <2>6. PortFds'
    BY <2>1, <2>2 DEF PortFds, PreTypeOK
  <2>7. QED
    BY <1>2, <2>4, <2>5, <2>6
<1>4. CASE port' = port /\ \E t \in Threads : /\ Busy(t) /\ call[t].fd = d
                                              /\ call' = [call EXCEPT ![t] = Idle]
  <2>1. PICK t \in Threads : /\ Busy(t) /\ call[t].fd = d
                             /\ call' = [call EXCEPT ![t] = Idle]
    BY <1>4
  <2>2. /\ ~Busy(t)' /\ \A u \in Threads \ {t} : call'[u] = call[u]
        /\ \A u \in Threads \ {t} : Busy(u) => call[u].fd # d
        /\ \A g \in Files : port[g] # d
    BY <2>1 DEF Busy, Idle, CallFds, PreTypeOK
  <2>3. EntryFds'
    BY <1>1, <1>4, <2>2 DEF EntryFds, Busy, PreTypeOK
  <2>4. CallFds'
    BY <1>4, <2>2 DEF CallFds, Busy, PreTypeOK
  <2>5. PortFds'
    BY <1>4, <2>2 DEF PortFds, PreTypeOK
  <2>6. QED
    BY <1>2, <2>3, <2>4, <2>5
<1>5. QED
  BY <1>3, <1>4

\* A step that changes no device but f, of which nothing is kept after it.
LEMMA KeptApart ==
  ASSUME KeptInv, NEW f \in Files,
         \A g \in Files \ {f} : /\ params'[g] = params[g] /\ line'[g] = line[g]
                                /\ locker'[g] = locker[g] /\ kept'[g] = kept[g],
         ~kept'[f].held,
         \A u \in Threads, g \in Files \ {f} : Probing(u, g)' => call'[u] = call[u],
         \A n \in Entries : heap[n].file # f => n \in Entries' /\ heap'[n].file = heap[n].file
  PROVE  KeptInv'
<1>1. SUFFICES ASSUME NEW g \in Files, kept'[g].held
               PROVE  /\ line'[g] = kept'[g].line
                      /\ locker'[g] # "probe" => params'[g] = kept'[g].params
                      /\ \A t \in Threads : Probing(t, g)' => call'[t].saved = kept'[g].params
                      /\ \E n \in Entries' : heap'[n].file = g
  BY DEF KeptInv
<1>2. g # f /\ kept[g].held /\ kept'[g] = kept[g]
  BY <1>1
<1>3. PICK n \in Entries : heap[n].file = g
  BY <1>2 DEF KeptInv
<1>4. QED
  BY <1>2, <1>3 DEF KeptInv, Probing

-----------------------------------------------------------------------------
LEMMA PreInvInit == PreInit => PreInv
<1> SUFFICES ASSUME PreInit PROVE PreInv
  OBVIOUS
<1>1. LocksInv
  BY LocksInvInit
<1>2. ShortInv /\ Entries = {}
  BY DEF PreInit, ShortInv, Entries
<1>3. \A f \in Files : ~kept[f].held
  BY DEF PreInit, Lost
<1>4. CallFds /\ PortFds
  BY DEF PreInit, CallFds, PortFds, Busy, Idle
<1>5. QED
  BY <1>1, <1>2, <1>3, <1>4 DEF PreInv, SoundInv, EntryFds, KeptInv

\* After a step that leaves preopened_port on a freed node nothing is kept, ever.
LEMMA StrayKeeps ==
  ASSUME PreTypeOK, stray, \A f \in Files : ~kept[f].held, [PreNext]_preVars
  PROVE  stray' /\ \A f \in Files : ~kept'[f].held
<1>1. ASSUME NEW f \in Files, NEW n, find_preopened_ports(f, n)
      PROVE  stray' /\ \A g \in Files : ~kept'[g].held
  <2>1. stray' = (stray \/ Strays(n)) /\ kept' = Forget(f, n)
    BY <1>1 DEF find_preopened_ports
  <2>2. \A g \in Files : ~Forget(f, n)[g].held
    BY DEF Forget, Lost
  <2>3. QED
    BY <2>1, <2>2
<1>2. CASE UNCHANGED <<stray, kept>>
  BY <1>2
<1>3. CASE Call
  <2>1. UNCHANGED <<stray, kept>> \/ \E f \in Files : \E n : find_preopened_ports(f, n)
    <3>1. ASSUME NEW f \in Files, open(f) \/ nativeClose(f)
          PROVE  UNCHANGED <<stray, kept>> \/ \E n : find_preopened_ports(f, n)
      BY <3>1 DEF open, nativeClose
    <3>2. ASSUME NEW t \in Threads, NEW f \in Files,
                 \/ \E l, sets \in BOOLEAN : StaticSet(t, f, l, sets)
                 \/ Query(t, f) \/ testRead(t, f) \/ isPortPrefixValid(t, f)
          PROVE  UNCHANGED <<stray, kept>> \/ \E n : find_preopened_ports(f, n)
      BY <3>2 DEF StaticSet, Query, testRead, isPortPrefixValid
    <3>3. QED
      BY <1>3, <3>1, <3>2, CallCases
  <2>2. QED
    BY <1>1, <1>2, <2>1
<1>4. ASSUME NEW t \in Threads, AddEntry(t)
      PROVE  stray' /\ \A f \in Files : ~kept'[f].held
  <2>1. stray' = stray
    BY <1>4 DEF AddEntry
  <2>2. kept' = kept \/ \E p : kept' = Keep(call[t].file, p)
    BY <1>4 DEF AddEntry, static_add_filename
  <2>3. \A p : \A g \in Files : ~Keep(call[t].file, p)[g].held
    BY DEF Keep, Lost
  <2>4. QED
    BY <2>1, <2>2, <2>3
<1>5. CASE Return
  BY <1>2, <1>4, <1>5 DEF Return, testRead_END, CloseProbe
<1>6. QED
  BY <1>2, <1>3, <1>5 DEF PreNext, preVars

LEMMA InForceIs ==
  ASSUME PreTypeOK, LocksInv, NEW f \in Files
  PROVE  /\ (\A u \in Threads : ~Probing(u, f)) => InForce(f) = params[f]
         /\ \A u \in Threads : Probing(u, f) => InForce(f) = call[u].saved
<1>1. (\A u \in Threads : ~Probing(u, f)) => InForce(f) = params[f]
  BY DEF InForce, Probing
<1>2. ASSUME NEW u \in Threads, Probing(u, f)
      PROVE  InForce(f) = call[u].saved
  <2> DEFINE P(r) == r.op = "probe" /\ r.file = f
  <2>1. \A r \in {call[t] : t \in Threads} : P(r) => r = call[u]
    BY <1>2 DEF Probing, LocksInv
  <2>2. call[u] \in {call[t] : t \in Threads} /\ P(call[u])
    BY <1>2 DEF Probing
  <2>3. (CHOOSE r \in {call[t] : t \in Threads} : P(r)) = call[u]
    BY <2>1, <2>2
  <2>4. QED
    BY <1>2, <2>3 DEF InForce, Probing
<1>3. QED
  BY <1>1, <1>2

LEMMA SetterKeepsSound ==
  ASSUME PreTypeOK, LocksInv, ~stray, SoundInv,
         NEW t \in Threads, NEW f \in Files, NEW l, NEW sets, StaticSet(t, f, l, sets)
  PROVE  IF stray' THEN \A g \in Files : ~kept'[g].held ELSE SoundInv'
<1>0. ShortInv /\ EntryFds /\ CallFds /\ PortFds /\ KeptInv
  BY DEF SoundInv
<1>1. /\ call[t] = Idle /\ locker[f] = "free" /\ port' = port
      /\ \A g \in Files \ {f} : /\ params'[g] = params[g] /\ line'[g] = line[g]
                                /\ locker'[g] = locker[g]
      /\ \/ \E d : call' = [call EXCEPT ![t] = [Idle EXCEPT !.op = "add", !.file = f, !.fd = d]]
         \/ call' = call
  BY SetterDoes
<1>2. \A u \in Threads, g \in Files \ {f} : Probing(u, g)' => call'[u] = call[u]
  BY <1>1 DEF Probing, PreTypeOK, Idle
<1>3. ASSUME NEW d, call' = [call EXCEPT ![t] = [Idle EXCEPT !.op = "add", !.file = f, !.fd = d]]
      PROVE  /\ call'[t].fd = d /\ call'[t].file = f
             /\ \A u \in Threads \ {t} : call'[u] = call[u]
  BY <1>3 DEF PreTypeOK, Idle
<1>4. ASSUME NEW n \in Match(f), find_preopened_ports(f, n), fdOf' = fdOf,
             \/ call' = [call EXCEPT ![t] = [Idle EXCEPT !.op = "add", !.file = f, !.fd = heap[n].fd]]
             \/ call' = call
      PROVE  IF stray' THEN \A g \in Files : ~kept'[g].held ELSE SoundInv'
  <2>1. /\ n \in Entries /\ heap[n].file = f /\ stray' = Strays(n)
        /\ Strays(n) => \A g \in Files : ~kept'[g].held
        /\ ~Strays(n) => /\ ShortInv' /\ Entries' = Entries \ {n}
                         /\ \A o \in Entries \ {n} : /\ heap'[o].fd = heap[o].fd
                                                     /\ heap'[o].file = heap[o].file
                         /\ kept' = [g \in Files |-> IF g = f THEN Lost ELSE kept[g]]
    BY <1>0, <1>4, Found
  <2>2. CASE ~Strays(n)
    <3>1. EntryFds' /\ CallFds' /\ PortFds'
      <4>1. \/ call' = call
            \/ /\ call'[t].fd = heap[n].fd /\ call'[t].file = f
               /\ \A u \in Threads \ {t} : call'[u] = call[u]
        BY <1>3, <1>4
      <4>2. /\ heap[n].fd \in Fds /\ fdOf[heap[n].fd] = f
            /\ \A o \in Entries \ {n} : heap[o].fd # heap[n].fd
            /\ \A u \in Threads : Busy(u) => call[u].fd # heap[n].fd
            /\ \A g \in Files : port[g] # heap[n].fd
        BY <1>0, <2>1, TakenUnused
      <4>3. /\ Entries' \subseteq Entries
            /\ \A o \in Entries' : /\ heap'[o].fd = heap[o].fd /\ heap'[o].file = heap[o].file
                                   /\ heap[o].fd # heap[n].fd
        BY <2>1, <2>2, <4>2
      <4>4. \/ UNCHANGED <<port, call>>
            \/ /\ port' = port
               /\ \E u \in Threads : /\ call'[u].fd = heap[n].fd /\ call'[u].file = f
                                     /\ \A v \in Threads \ {u} : call'[v] = call[v]
        BY <1>1, <4>1
      <4>5. fdOf'[heap[n].fd] = f /\ \A e \in Fds \ {heap[n].fd} : fdOf'[e] = fdOf[e]
        BY <1>4, <4>2
      <4>6. QED
        BY <1>0, <4>2, <4>3, <4>4, <4>5, HandOver
    <3>2. ~kept'[f].held /\ \A g \in Files \ {f} : kept'[g] = kept[g]
      BY <2>1, <2>2 DEF Lost
    <3>3. \A o \in Entries : heap[o].file # f => o \in Entries' /\ heap'[o].file = heap[o].file
      BY <2>1, <2>2
    <3>4. \A g \in Files \ {f} : /\ params'[g] = params[g] /\ line'[g] = line[g]
                                 /\ locker'[g] = locker[g] /\ kept'[g] = kept[g]
      BY <1>1, <3>2
    <3>5. KeptInv'
      BY <1>0, <1>2, <3>2, <3>3, <3>4, KeptApart
    <3>6. QED
      BY <2>1, <2>2, <3>1, <3>5 DEF SoundInv
  <2>3. QED
    BY <2>1, <2>2
<1>5. ASSUME Match(f) = {}, UNCHANGED <<list, stray, kept>>,
             EntryFds' /\ CallFds' /\ PortFds'
      PROVE  IF stray' THEN \A g \in Files : ~kept'[g].held ELSE SoundInv'
  <2>1. ShortInv' /\ Entries' = Entries /\ heap' = heap
    BY <1>0, <1>5 DEF list, ShortInv, Entries
  <2>2. ~kept[f].held
    BY <1>0, <1>5, MatchShort DEF KeptInv
  <2>3. KeptInv'
    BY <1>0, <1>1, <1>2, <1>5, <2>1, <2>2, KeptApart
  <2>4. QED
    BY <1>5, <2>1, <2>3 DEF SoundInv
<1>6. ASSUME Match(f) = {}, UNCHANGED <<list, stray, kept>>, NEW d \in Lowest,
             fdOf' = [fdOf EXCEPT ![d] = f],
             \/ call' = [call EXCEPT ![t] = [Idle EXCEPT !.op = "add", !.file = f, !.fd = d]]
             \/ call' = call
      PROVE  IF stray' THEN \A g \in Files : ~kept'[g].held ELSE SoundInv'
  <2>1. /\ d \in Fds /\ \A o \in Entries : heap[o].fd # d
        /\ \A u \in Threads : Busy(u) => call[u].fd # d
        /\ \A g \in Files : port[g] # d
    BY <1>0, LowestUnused
  <2>2. Entries' = Entries /\ heap' = heap
    BY <1>6 DEF list, Entries
  <2>3. \/ call' = call
        \/ /\ call'[t].fd = d /\ call'[t].file = f
           /\ \A u \in Threads \ {t} : call'[u] = call[u]
    BY <1>3, <1>6
  <2>4. fdOf'[d] = f /\ \A e \in Fds \ {d} : fdOf'[e] = fdOf[e]
    BY <1>6, <2>1 DEF PreTypeOK
  <2>5. EntryFds' /\ CallFds' /\ PortFds'
    <3>1. /\ Entries' \subseteq Entries
          /\ \A o \in Entries' : /\ heap'[o].fd = heap[o].fd /\ heap'[o].file = heap[o].file
                                 /\ heap[o].fd # d
      BY <2>1, <2>2
    <3>2. \/ UNCHANGED <<port, call>>
          \/ /\ port' = port
             /\ \E u \in Threads : /\ call'[u].fd = d /\ call'[u].file = f
                                   /\ \A v \in Threads \ {u} : call'[v] = call[v]
      BY <1>1, <2>3
    <3>3. QED
      BY <1>0, <2>1, <2>4, <3>1, <3>2, HandOver
  <2>6. QED
    BY <1>5, <1>6, <2>5
<1>7. ASSUME Match(f) = {}, UNCHANGED <<list, stray, kept, fdOf, call>>
      PROVE  IF stray' THEN \A g \in Files : ~kept'[g].held ELSE SoundInv'
  <2>1. EntryFds' /\ CallFds' /\ PortFds'
    BY <1>0, <1>1, <1>7 DEF list, EntryFds, CallFds, PortFds, Entries, Busy
  <2>2. QED
    BY <1>5, <1>7, <2>1
<1>8. QED
  BY <1>4, <1>6, <1>7 DEF StaticSet, Chosen

LEMMA QueryKeepsSound ==
  ASSUME PreTypeOK, ~stray, SoundInv, NEW t \in Threads, NEW f \in Files, Query(t, f)
  PROVE  IF stray' THEN \A g \in Files : ~kept'[g].held ELSE SoundInv'
<1>0. ShortInv /\ EntryFds /\ CallFds /\ PortFds /\ KeptInv
  BY DEF SoundInv
<1>1. PICK n \in Match(f) : find_preopened_ports(f, n)
  BY DEF Query
<1>2. UNCHANGED <<fdOf, locker, port, params, line, call>>
  BY DEF Query, device
<1>3. /\ n \in Entries /\ heap[n].file = f /\ stray' = Strays(n)
      /\ Strays(n) => \A g \in Files : ~kept'[g].held
      /\ ~Strays(n) => /\ ShortInv' /\ Entries' = Entries \ {n}
                       /\ \A o \in Entries \ {n} : /\ heap'[o].fd = heap[o].fd
                                                   /\ heap'[o].file = heap[o].file
                       /\ kept' = [g \in Files |-> IF g = f THEN Lost ELSE kept[g]]
  BY <1>0, <1>1, Found
<1>4. CASE ~Strays(n)
  <2>1. EntryFds' /\ CallFds' /\ PortFds'
    BY <1>0, <1>2, <1>3, <1>4 DEF EntryFds, CallFds, PortFds, Busy
  <2>2. \A o \in Entries : heap[o].file # f => o \in Entries' /\ heap'[o].file = heap[o].file
    BY <1>3, <1>4
  <2>3. ~kept'[f].held /\ \A g \in Files \ {f} : kept'[g] = kept[g]
    BY <1>3, <1>4 DEF Lost
  <2>4. KeptInv'
    BY <1>0, <1>2, <2>2, <2>3, KeptApart
  <2>5. QED
    BY <1>3, <1>4, <2>1, <2>4 DEF SoundInv
<1>5. QED
  BY <1>3, <1>4

LEMMA OpenKeepsSound ==
  ASSUME PreTypeOK, LocksInv, ~stray, SoundInv, NEW f \in Files, open(f)
  PROVE  IF stray' THEN \A g \in Files : ~kept'[g].held ELSE SoundInv'
<1>0. ShortInv /\ EntryFds /\ CallFds /\ PortFds /\ KeptInv
  BY DEF SoundInv
<1>1. /\ line' = line /\ call' = call
      /\ \A g \in Files \ {f} : params'[g] = params[g] /\ locker'[g] = locker[g]
  BY DEF open, FailLocked, configure_port, PreTypeOK
<1>2. ASSUME NEW n \in Match(f), find_preopened_ports(f, n), fdOf' = fdOf,
             port' = [port EXCEPT ![f] = heap[n].fd]
      PROVE  IF stray' THEN \A g \in Files : ~kept'[g].held ELSE SoundInv'
  <2>1. /\ n \in Entries /\ heap[n].file = f /\ stray' = Strays(n)
        /\ Strays(n) => \A g \in Files : ~kept'[g].held
        /\ ~Strays(n) => /\ ShortInv' /\ Entries' = Entries \ {n}
                         /\ \A o \in Entries \ {n} : /\ heap'[o].fd = heap[o].fd
                                                     /\ heap'[o].file = heap[o].file
                         /\ kept' = [g \in Files |-> IF g = f THEN Lost ELSE kept[g]]
    BY <1>0, <1>2, Found
  <2>2. CASE ~Strays(n)
    <3>1. EntryFds' /\ CallFds' /\ PortFds'
      <4>1. /\ heap[n].fd \in Fds /\ fdOf[heap[n].fd] = f
            /\ \A o \in Entries \ {n} : heap[o].fd # heap[n].fd
            /\ \A u \in Threads : Busy(u) => call[u].fd # heap[n].fd
            /\ \A g \in Files : port[g] # heap[n].fd
        BY <1>0, <2>1, TakenUnused
      <4>2. /\ Entries' \subseteq Entries
            /\ \A o \in Entries' : /\ heap'[o].fd = heap[o].fd /\ heap'[o].file = heap[o].file
                                   /\ heap[o].fd # heap[n].fd
        BY <2>1, <2>2, <4>1
      <4>3. fdOf'[heap[n].fd] = f /\ \A e \in Fds \ {heap[n].fd} : fdOf'[e] = fdOf[e]
        BY <1>2, <4>1
      <4>4. QED
        BY <1>0, <1>1, <1>2, <4>1, <4>2, <4>3, HandOver
    <3>2. ~kept'[f].held /\ \A g \in Files \ {f} : kept'[g] = kept[g]
      BY <2>1, <2>2 DEF Lost
    <3>3. \A o \in Entries : heap[o].file # f => o \in Entries' /\ heap'[o].file = heap[o].file
      BY <2>1, <2>2
    <3>4. KeptInv'
      BY <1>0, <1>1, <3>2, <3>3, KeptApart
    <3>5. QED
      BY <2>1, <2>2, <3>1, <3>4 DEF SoundInv
  <2>3. QED
    BY <2>1, <2>2
<1>3. ASSUME Match(f) = {}, UNCHANGED <<list, stray, kept>>,
             EntryFds' /\ CallFds' /\ PortFds'
      PROVE  SoundInv' /\ ~stray'
  <2>1. ShortInv' /\ Entries' = Entries /\ heap' = heap
    BY <1>0, <1>3 DEF list, ShortInv, Entries
  <2>2. ~kept[f].held
    BY <1>0, <1>3, MatchShort DEF KeptInv
  <2>3. KeptInv'
    BY <1>0, <1>1, <1>3, <2>1, <2>2, KeptApart
  <2>4. QED
    BY <1>3, <2>1, <2>3 DEF SoundInv
<1>4. ASSUME Match(f) = {}, UNCHANGED <<list, stray, kept>>, NEW d \in Lowest,
             fdOf' = [fdOf EXCEPT ![d] = f],
             port' = [port EXCEPT ![f] = d] \/ port' = port
      PROVE  SoundInv' /\ ~stray'
  <2>1. /\ d \in Fds /\ \A o \in Entries : heap[o].fd # d
        /\ \A u \in Threads : Busy(u) => call[u].fd # d
        /\ \A g \in Files : port[g] # d
    BY <1>0, LowestUnused
  <2>2. Entries' = Entries /\ heap' = heap
    BY <1>4 DEF list, Entries
  <2>3. /\ Entries' \subseteq Entries
        /\ \A o \in Entries' : /\ heap'[o].fd = heap[o].fd /\ heap'[o].file = heap[o].file
                               /\ heap[o].fd # d
    BY <2>1, <2>2
  <2>4. fdOf'[d] = f /\ \A e \in Fds \ {d} : fdOf'[e] = fdOf[e]
    BY <1>4, <2>1 DEF PreTypeOK
  <2>5. EntryFds' /\ CallFds' /\ PortFds'
    BY <1>0, <1>1, <1>4, <2>1, <2>3, <2>4, HandOver
  <2>6. QED
    BY <1>3, <1>4, <2>5
<1>5. ASSUME Match(f) = {}, UNCHANGED <<list, stray, kept, fdOf, port>>
      PROVE  SoundInv' /\ ~stray'
  <2>1. EntryFds' /\ CallFds' /\ PortFds'
    BY <1>0, <1>1, <1>5 DEF list, EntryFds, CallFds, PortFds, Entries, Busy
  <2>2. QED
    BY <1>3, <1>5, <2>1
<1>6. QED
  <2>1. CASE \E n \in Match(f) : /\ find_preopened_ports(f, n) /\ fdOf' = fdOf
                                 /\ port' = [port EXCEPT ![f] = heap[n].fd]
    BY <1>2, <2>1
  <2>2. CASE /\ Match(f) = {} /\ UNCHANGED <<list, stray, kept>>
             /\ \E d \in Lowest : /\ fdOf' = [fdOf EXCEPT ![d] = f]
                                  /\ port' = [port EXCEPT ![f] = d] \/ port' = port
    BY <1>4, <2>2
  <2>3. CASE Match(f) = {} /\ UNCHANGED <<list, stray, kept, fdOf, port>>
    BY <1>5, <2>3
  <2>4. QED
    BY <2>1, <2>2, <2>3 DEF open

LEMMA CloseKeepsSound ==
  ASSUME PreTypeOK, LocksInv, SoundInv, NEW f \in Files, nativeClose(f)
  PROVE  SoundInv'
<1>0. ShortInv /\ EntryFds /\ CallFds /\ PortFds /\ KeptInv
  BY DEF SoundInv
<1>1. /\ port[f] \in Fds /\ UNCHANGED <<list, params, call, kept>>
      /\ fdOf' = [fdOf EXCEPT ![port[f]] = None] /\ line' = LinesAfterClose(port[f])
      /\ port' = [port EXCEPT ![f] = 0] /\ locker' = [locker EXCEPT ![f] = "free"]
  BY DEF nativeClose, Close, PreTypeOK
<1>2. /\ EntryFds' /\ CallFds' /\ PortFds'
      /\ \A g \in Files : kept[g].held => line'[g] = line[g]
  BY <1>0, <1>1, Closed
<1>3. \A g \in Files : locker'[g] # "probe" => locker[g] # "probe"
  BY <1>1, FdsAssumption DEF LocksInv, PreTypeOK
<1>4. ShortInv' /\ Entries' = Entries /\ heap' = heap
  BY <1>0, <1>1 DEF list, ShortInv, Entries
<1>5. KeptInv'
  BY <1>0, <1>1, <1>2, <1>3, <1>4 DEF KeptInv, Probing
<1>6. QED
  BY <1>2, <1>4, <1>5 DEF SoundInv

LEMMA ProbeKeepsSound ==
  ASSUME PreTypeOK, LocksInv, SoundInv, NEW t \in Threads, NEW f \in Files,
         testRead(t, f) \/ isPortPrefixValid(t, f)
  PROVE  SoundInv'
<1>0. ShortInv /\ EntryFds /\ CallFds /\ PortFds /\ KeptInv
  BY DEF SoundInv
<1>1. call[t] = Idle /\ UNCHANGED <<list, port, line, kept>>
  BY DEF testRead, isPortPrefixValid, device
<1>2. PICK d \in Lowest :
        /\ fdOf' = [fdOf EXCEPT ![d] = f] /\ call'[t].fd = d /\ call'[t].file = f
        /\ \A u \in Threads \ {t} : call'[u] = call[u]
        /\ \/ /\ call'[t].saved = params[f] /\ locker[f] = "free"
              /\ locker' = [locker EXCEPT ![f] = "probe"]
              /\ params' = [params EXCEPT ![f] = "raw"]
           \/ call'[t].op # "probe" /\ UNCHANGED <<locker, params>>
  <2>1. CASE testRead(t, f)
    <3>1. PICK d \in Lowest :
            /\ fdOf' = [fdOf EXCEPT ![d] = f]
            /\ call' = [call EXCEPT ![t] = [op |-> "probe", file |-> f, fd |-> d,
                                           saved |-> params[f]]]
      BY <2>1 DEF testRead
    <3>2. /\ call'[t].fd = d /\ call'[t].file = f /\ call'[t].saved = params[f]
          /\ \A u \in Threads \ {t} : call'[u] = call[u]
      BY <3>1 DEF PreTypeOK
    <3>3. QED
      BY <2>1, <3>1, <3>2 DEF testRead
  <2>2. CASE isPortPrefixValid(t, f)
    <3>1. PICK d \in Lowest :
            /\ fdOf' = [fdOf EXCEPT ![d] = f]
            /\ call' = [call EXCEPT ![t] = [Idle EXCEPT !.op = "close", !.file = f, !.fd = d]]
      BY <2>2 DEF isPortPrefixValid
    <3>2. /\ call'[t].fd = d /\ call'[t].file = f /\ call'[t].op # "probe"
          /\ \A u \in Threads \ {t} : call'[u] = call[u]
      BY <3>1 DEF PreTypeOK, Idle
    <3>3. QED
      BY <2>2, <3>1, <3>2 DEF isPortPrefixValid, device
  <2>3. QED
    BY <2>1, <2>2
<1>3. Entries' = Entries /\ heap' = heap /\ ShortInv'
  BY <1>0, <1>1 DEF list, Entries, ShortInv
<1>4. EntryFds' /\ CallFds' /\ PortFds'
  <2>1. /\ d \in Fds /\ \A o \in Entries : heap[o].fd # d
        /\ \A u \in Threads : Busy(u) => call[u].fd # d
        /\ \A g \in Files : port[g] # d
    BY <1>0, LowestUnused
  <2>2. /\ Entries' \subseteq Entries
        /\ \A o \in Entries' : /\ heap'[o].fd = heap[o].fd /\ heap'[o].file = heap[o].file
                               /\ heap[o].fd # d
    BY <1>3, <2>1
  <2>3. fdOf'[d] = f /\ \A e \in Fds \ {d} : fdOf'[e] = fdOf[e]
    BY <1>2, <2>1 DEF PreTypeOK
  <2>4. /\ port' = port
        /\ \E u \in Threads : /\ call'[u].fd = d /\ call'[u].file = f
                              /\ \A v \in Threads \ {u} : call'[v] = call[v]
    BY <1>1, <1>2
  <2>5. QED
    BY <1>0, <2>1, <2>2, <2>3, <2>4, HandOver
<1>5. KeptInv'
  <2>1. SUFFICES ASSUME NEW g \in Files, kept[g].held
                 PROVE  /\ locker'[g] # "probe" => params'[g] = kept[g].params
                        /\ \A u \in Threads : Probing(u, g)' => call'[u].saved = kept[g].params
    BY <1>0, <1>1, <1>3 DEF KeptInv
  <2>2. locker'[g] # "probe" => params'[g] = kept[g].params
    BY <1>0, <1>2, <2>1 DEF KeptInv, PreTypeOK
  <2>3. ASSUME NEW u \in Threads, Probing(u, g)'
        PROVE  call'[u].saved = kept[g].params
    BY <1>0, <1>2, <2>1, <2>3 DEF KeptInv, Probing
  <2>4. QED
    BY <2>2, <2>3
<1>6. QED
  BY <1>3, <1>4, <1>5 DEF SoundInv

LEMMA EndKeepsSound ==
  ASSUME PreTypeOK, LocksInv, SoundInv, NEW t \in Threads, testRead_END(t)
  PROVE  SoundInv'
<1>0. ShortInv /\ EntryFds /\ CallFds /\ PortFds /\ KeptInv
  BY DEF SoundInv
<1> DEFINE f == call[t].file
<1>1. /\ f \in Files /\ Probing(t, f) /\ UNCHANGED <<list, fdOf, port, line, kept>>
      /\ params' = [params EXCEPT ![f] = call[t].saved]
      /\ locker' = [locker EXCEPT ![f] = "free"]
  BY DEF testRead_END, LocksInv, Probing
<1>2. /\ call'[t].fd = call[t].fd /\ call'[t].file = f /\ call'[t].op = "close" /\ Busy(t)
      /\ \A u \in Threads \ {t} : call'[u] = call[u]
  BY DEF testRead_END, PreTypeOK, CallType, Busy
<1>3. Entries' = Entries /\ heap' = heap /\ ShortInv'
  BY <1>0, <1>1 DEF list, Entries, ShortInv
<1>4. \A u \in Threads : /\ Busy(u)' => Busy(u)
                         /\ call'[u].fd = call[u].fd /\ call'[u].file = call[u].file
  BY <1>2 DEF Busy
<1>5. EntryFds' /\ CallFds' /\ PortFds'
  BY <1>0, <1>1, <1>3, <1>4 DEF EntryFds, CallFds, PortFds
<1>6. KeptInv'
  <2>1. SUFFICES ASSUME NEW g \in Files, kept[g].held
                 PROVE  /\ locker'[g] # "probe" => params'[g] = kept[g].params
                        /\ \A u \in Threads : Probing(u, g)' => call'[u].saved = kept[g].params
    BY <1>0, <1>1, <1>3 DEF KeptInv
  <2>2. locker'[g] # "probe" => params'[g] = kept[g].params
    <3>1. CASE g = f
      BY <1>0, <1>1, <2>1, <3>1 DEF KeptInv, PreTypeOK
    <3>2. CASE g # f
      BY <1>0, <1>1, <2>1, <3>2 DEF KeptInv, PreTypeOK
    <3>3. QED
      BY <3>1, <3>2
  <2>3. ASSUME NEW u \in Threads, Probing(u, g)'
        PROVE  call'[u].saved = kept[g].params
    BY <1>0, <1>2, <2>1, <2>3 DEF KeptInv, Probing
  <2>4. QED
    BY <2>2, <2>3
<1>7. QED
  BY <1>3, <1>5, <1>6 DEF SoundInv

LEMMA CloseProbeKeepsSound ==
  ASSUME PreTypeOK, SoundInv, NEW t \in Threads, CloseProbe(t)
  PROVE  SoundInv'
<1>0. ShortInv /\ EntryFds /\ CallFds /\ PortFds /\ KeptInv
  BY DEF SoundInv
<1>1. /\ Busy(t) /\ call[t].fd \in Fds /\ UNCHANGED <<list, locker, port, params, kept>>
      /\ fdOf' = [fdOf EXCEPT ![call[t].fd] = None] /\ line' = LinesAfterClose(call[t].fd)
      /\ call' = [call EXCEPT ![t] = Idle]
  BY <1>0 DEF CloseProbe, Close, Busy, CallFds
<1>2. /\ EntryFds' /\ CallFds' /\ PortFds'
      /\ \A g \in Files : kept[g].held => line'[g] = line[g]
  BY <1>0, <1>1, Closed
<1>3. ShortInv' /\ Entries' = Entries /\ heap' = heap
  BY <1>0, <1>1 DEF list, ShortInv, Entries
<1>4. \A u \in Threads, g \in Files : Probing(u, g)' => Probing(u, g) /\ call'[u] = call[u]
  BY <1>1 DEF Probing, Idle, PreTypeOK
<1>5. KeptInv'
  BY <1>0, <1>1, <1>2, <1>3, <1>4 DEF KeptInv
<1>6. QED
  BY <1>2, <1>3, <1>5 DEF SoundInv

LEMMA AddKeepsSound ==
  ASSUME PreTypeOK, LocksInv, ~stray, SoundInv, NEW t \in Threads, AddEntry(t)
  PROVE  SoundInv'
<1>0. ShortInv /\ EntryFds /\ CallFds /\ PortFds /\ KeptInv
  BY DEF SoundInv
<1> DEFINE f == call[t].file
           d == call[t].fd
<1>1. /\ call[t].op = "add" /\ Busy(t) /\ f \in Files /\ d \in Fds /\ fdOf[d] = f
      /\ static_add_filename(f, d) /\ UNCHANGED <<fdOf, locker, port, params, line>>
  BY <1>0 DEF AddEntry, Busy, CallFds, device
<1>2. /\ ~Busy(t)' /\ \A u \in Threads \ {t} : call'[u] = call[u]
      /\ \A u \in Threads, g \in Files : Probing(u, g)' => Probing(u, g) /\ call'[u] = call[u]
  BY DEF AddEntry, Busy, Probing, Idle, PreTypeOK
<1>3. CallFds' /\ PortFds'
  BY <1>0, <1>1, <1>2 DEF CallFds, PortFds, Busy
<1>4. /\ ShortInv'
      /\ \/ Entries' = Entries /\ UNCHANGED <<heap, kept>>
         \/ \E e \in Nodes \ Entries :
              /\ e \in Entries' /\ Entries' \subseteq Entries \cup {e}
              /\ heap'[e].file = f /\ heap'[e].fd = d
              /\ \A o \in Entries : /\ heap[o].file # f
                                    /\ heap'[o].fd = heap[o].fd /\ heap'[o].file = heap[o].file
              /\ \A g \in Files :
                   kept'[g] = IF g = f THEN [held |-> port[f] = 0, params |-> InForce(f),
                                            line |-> line[f]]
                              ELSE IF \E n \in Entries \ Entries' : heap[n].file = g THEN Lost
                              ELSE kept[g]
  BY <1>0, <1>1, Added
<1>5. CASE Entries' = Entries /\ UNCHANGED <<heap, kept>>
  <2>1. EntryFds'
    BY <1>0, <1>1, <1>2, <1>5 DEF EntryFds, Busy
  <2>2. KeptInv'
    BY <1>0, <1>1, <1>2, <1>5 DEF KeptInv
  <2>3. QED
    BY <1>3, <1>4, <2>1, <2>2 DEF SoundInv
<1>6. ASSUME NEW e \in Nodes \ Entries, e \in Entries', Entries' \subseteq Entries \cup {e},
             heap'[e].file = f, heap'[e].fd = d,
             \A o \in Entries : /\ heap[o].file # f
                                /\ heap'[o].fd = heap[o].fd /\ heap'[o].file = heap[o].file,
             \A g \in Files :
               kept'[g] = IF g = f THEN [held |-> port[f] = 0, params |-> InForce(f),
                                        line |-> line[f]]
                          ELSE IF \E n \in Entries \ Entries' : heap[n].file = g THEN Lost
                          ELSE kept[g]
      PROVE  SoundInv'
  <2>1. /\ \A g \in Files : port[g] # d
        /\ \A u \in Threads \ {t} : Busy(u) => call[u].fd # d
        /\ \A o \in Entries : heap[o].fd # d
    BY <1>0, <1>1 DEF EntryFds, CallFds
  <2>2. ASSUME NEW n \in Entries'
        PROVE  /\ heap'[n].fd \in Fds /\ heap'[n].file \in Files
               /\ fdOf'[heap'[n].fd] = heap'[n].file
               /\ \A g \in Files : port'[g] # heap'[n].fd
               /\ \A u \in Threads : Busy(u)' => call'[u].fd # heap'[n].fd
               /\ \A o \in Entries' \ {n} : /\ heap'[o].fd # heap'[n].fd
                                            /\ heap'[o].file # heap'[n].file
    <3>1. CASE n = e
      BY <1>1, <1>2, <1>6, <2>1, <3>1 DEF Busy
    <3>2. CASE n \in Entries
      BY <1>0, <1>1, <1>2, <1>6, <2>1, <3>2 DEF EntryFds, Busy
    <3>3. QED
      BY <1>6, <2>2, <3>1, <3>2
  <2>3. EntryFds'
    BY <2>2 DEF EntryFds
  <2>4. ASSUME NEW g \in Files, kept'[g].held
        PROVE  /\ line'[g] = kept'[g].line
               /\ locker'[g] # "probe" => params'[g] = kept'[g].params
               /\ \A u \in Threads : Probing(u, g)' => call'[u].saved = kept'[g].params
               /\ \E n \in Entries' : heap'[n].file = g
    <3>1. CASE g = f
      <4>1. kept'[f].params = InForce(f) /\ kept'[f].line = line[f]
        BY <1>1, <1>6
      <4>2. locker[f] # "probe" => \A u \in Threads : ~Probing(u, f)
        BY DEF LocksInv, Probing
      <4>3. QED
        BY <1>1, <1>2, <1>6, <3>1, <4>1, <4>2, InForceIs
    <3>2. CASE g # f
      <4>1. /\ kept'[g] = kept[g] /\ kept[g].held
            /\ \A n \in Entries : heap[n].file = g => n \in Entries'
        BY <1>6, <2>4, <3>2 DEF Lost
      <4>2. QED
        BY <1>0, <1>1, <1>2, <1>6, <4>1 DEF KeptInv
    <3>3. QED
      BY <3>1, <3>2
  <2>5. KeptInv'
    BY <2>4 DEF KeptInv
  <2>6. QED
    BY <1>3, <1>4, <2>3, <2>5 DEF SoundInv
<1>7. QED
  BY <1>4, <1>5, <1>6

LEMMA PreInvStep ==
  ASSUME PreTypeOK, PreInv, [PreNext]_preVars
  PROVE  PreInv'
<1>1. LocksInv /\ LocksInv'
  BY LocksInvStep DEF PreInv
<1>2. CASE stray
  BY <1>1, <1>2, StrayKeeps DEF PreInv
<1>3. CASE ~stray
  <2>1. SoundInv
    BY <1>3 DEF PreInv
  <2>2. SUFFICES IF stray' THEN \A g \in Files : ~kept'[g].held ELSE SoundInv'
    BY <1>1 DEF PreInv
  <2>3. CASE SoundInv' /\ stray' = stray
    BY <1>3, <2>3
  <2>4. CASE UNCHANGED preVars
    <3>1. SoundInv'
      BY <2>1, <2>4
      DEF preVars, SoundInv, ShortInv, EntryFds, CallFds, PortFds, KeptInv, Entries, Busy, Probing
    <3>2. QED
      BY <2>3, <2>4, <3>1 DEF preVars
  <2>5. CASE Call
    <3>1. ASSUME NEW f \in Files, open(f) \/ nativeClose(f)
          PROVE  IF stray' THEN \A g \in Files : ~kept'[g].held ELSE SoundInv'
      BY <1>1, <1>3, <2>1, <2>3, <3>1, OpenKeepsSound, CloseKeepsSound DEF nativeClose
    <3>2. ASSUME NEW t \in Threads, NEW f \in Files, NEW l \in BOOLEAN, NEW sets \in BOOLEAN,
                 StaticSet(t, f, l, sets)
          PROVE  IF stray' THEN \A g \in Files : ~kept'[g].held ELSE SoundInv'
      BY <1>1, <1>3, <2>1, <3>2, SetterKeepsSound
    <3>3. ASSUME NEW t \in Threads, NEW f \in Files, Query(t, f)
          PROVE  IF stray' THEN \A g \in Files : ~kept'[g].held ELSE SoundInv'
      BY <1>3, <2>1, <3>3, QueryKeepsSound
    <3>4. ASSUME NEW t \in Threads, NEW f \in Files, testRead(t, f) \/ isPortPrefixValid(t, f)
          PROVE  IF stray' THEN \A g \in Files : ~kept'[g].held ELSE SoundInv'
      BY <1>1, <2>1, <2>3, <3>4, ProbeKeepsSound DEF testRead, isPortPrefixValid
    <3>5. QED
      BY <2>5, <3>1, <3>2, <3>3, <3>4, CallCases
  <2>6. CASE Return
    BY <1>1, <1>3, <2>1, <2>3, <2>6, AddKeepsSound, EndKeepsSound, CloseProbeKeepsSound
    DEF Return, AddEntry, testRead_END, CloseProbe
  <2>7. QED
    BY <2>4, <2>5, <2>6 DEF PreNext
<1>4. QED
  BY <1>2, <1>3 DEF PreInv, PreTypeOK

LEMMA PreInvCorrect == PreSpec => []PreInv
  BY PreInvInit, PreInvStep, PreTypeCorrect, PTL DEF PreSpec

\* The list is sound until preopened_port is left on a freed node, for any threads, devices,
\* descriptors and number of calls.
THEOREM ListStaysSound == PreSpec => []ListSound
<1>1. PreTypeOK /\ PreInv => ListSound
  <2> SUFFICES ASSUME PreTypeOK, SoundInv PROVE ListSound
    BY DEF PreInv, ListSound
  <2>1. Listed = Entries /\ Entries \subseteq Nodes
    BY ListedShort DEF SoundInv
  <2>2. Listed \subseteq alloc
    BY <2>1 DEF SoundInv, ShortInv, Entries
  <2>3. \A n \in Listed : heap[n].next # Nil => heap[heap[n].next].prev = n
    BY <2>1 DEF SoundInv, ShortInv, Entries
  <2>4. QED
    BY <2>1, <2>2, <2>3 DEF ListSound, SoundInv, EntryFds
<1>2. QED
  BY <1>1, PreInvCorrect, PreTypeCorrect, PTL

\* What the static setters chose stays in force while its entry can be reached.
THEOREM PresetsHold == PreSpec => []PresetHolds
<1>1. PreTypeOK /\ PreInv => PresetHolds
  <2> SUFFICES ASSUME PreTypeOK, PreInv, NEW f \in Files, kept[f].held
               PROVE  /\ line[f] = kept[f].line
                      /\ locker[f] # "probe" => params[f] = kept[f].params
                      /\ \E n \in Listed : heap[n].file = f
    BY DEF PresetHolds
  <2>1. SoundInv
    BY DEF PreInv, PreTypeOK
  <2>2. Listed = Entries
    BY <2>1, ListedShort DEF SoundInv
  <2>3. QED
    BY <2>1, <2>2 DEF SoundInv, KeptInv
<1>2. QED
  BY <1>1, PreInvCorrect, PreTypeCorrect, PTL

\* open() of a prepared port gets the descriptor that was prepared, and leaves the settings and
\* the lines of the device as they are.
THEOREM OpensPrepared == PreSpec => OpenTakesOver
<1> DEFINE Takes == \A f \in Files : kept[f].held /\ port[f] = 0 /\ port'[f] # 0 =>
       /\ UNCHANGED <<line[f], params[f]>>
       /\ \E n \in Listed : heap[n].file = f /\ heap[n].fd = port'[f] /\ n \notin alloc'
<1>1. PreTypeOK /\ PreInv /\ [PreNext]_preVars => [Takes]_preVars
  <2> SUFFICES ASSUME PreTypeOK, PreInv, PreNext, NEW f \in Files,
                      kept[f].held, port[f] = 0, port'[f] # 0
               PROVE  /\ UNCHANGED <<line[f], params[f]>>
                      /\ \E n \in Listed : heap[n].file = f /\ heap[n].fd = port'[f] /\ n \notin alloc'
    BY DEF preVars
  <2>1. SoundInv /\ ~stray
    BY DEF PreInv, PreTypeOK
  <2>2. open(f)
    <3>1. \A g \in Files : open(g) => port' = port \/ \E d : port' = [port EXCEPT ![g] = d]
      BY DEF open
    <3>2. \A g \in Files : nativeClose(g) => port' = [port EXCEPT ![g] = 0]
      BY DEF nativeClose
    <3>3. port' # port /\ (\A g \in Files \ {f} : \A d : port' # [port EXCEPT ![g] = d])
          /\ port' # [port EXCEPT ![f] = 0]
      BY DEF PreTypeOK
    <3>4. \E g \in Files : open(g) \/ nativeClose(g)
      <4>1. CASE Call
        BY <3>3, <4>1, CallCases DEF StaticSet, Query, testRead, isPortPrefixValid
      <4>2. CASE Return
        BY <3>3, <4>2 DEF Return, AddEntry, testRead_END, CloseProbe
      <4>3. QED
        BY <4>1, <4>2 DEF PreNext
    <3>5. QED
      BY <3>1, <3>2, <3>3, <3>4
  <2>3. Match(f) # {}
    BY <2>1, MatchShort DEF SoundInv, KeptInv
  <2>4. PICK n \in Match(f) : /\ find_preopened_ports(f, n) /\ UNCHANGED <<params, line>>
                              /\ port' = [port EXCEPT ![f] = heap[n].fd]
    BY <2>2, <2>3 DEF open
  <2>5. n \in Listed /\ heap[n].file = f /\ n \notin alloc'
    BY <2>4 DEF Match, find_preopened_ports
  <2>6. QED
    BY <2>4, <2>5 DEF PreTypeOK
<1>2. QED
  BY <1>1, PreInvCorrect, PreTypeCorrect, PTL DEF PreSpec, OpenTakesOver
=============================================================================
