------------------------------ MODULE LockFile ------------------------------
(***************************************************************************)
(* The lock file of one device (SerialImp.c: fhs_lock, fhs_unlock,         *)
(* uucp_lock, uucp_unlock, check_lock_status, check_group_uucp,            *)
(* is_device_locked, check_lock_pid), as the LOCK and UNLOCK macros of the *)
(* builds with FHS or UUCP lock files use it.  Threads of several          *)
(* processes run the functions one system call at a time; processes may    *)
(* crash at any point, and a pid may be given to a new process.            *)
(*                                                                         *)
(* The file has a path and, under it, an inode: two files that had the     *)
(* path one after the other are different inodes, which is what an unlink  *)
(* by path does not notice.                                                *)
(***************************************************************************)
EXTENDS Integers

CONSTANTS Thread,    \* threads that lock and unlock the device
          Pid,       \* pids of the processes that run them
          PidOf,     \* the process of each thread
          Parent,    \* getppid() of each process
          Nobody,    \* a pid that no process has
          Unwritten, \* the contents of a lock file before its pid is written
          MaxInode   \* bound on the lock files created in a behaviour

ASSUME PidAssumption ==
  /\ PidOf \in [Thread -> Pid]
  /\ Parent \in [Pid -> Pid \cup {Nobody}]
  /\ Nobody \notin Pid
  /\ Unwritten \notin Pid \cup {Nobody}

ASSUME InodeAssumption == MaxInode \in Nat

VARIABLES style,    \* which functions the build's LOCK and UNLOCK are
          file,     \* the inode at LOCKDIR/LCK..<device>, 0 when there is none
          inodes,   \* how many lock files have been created
          content,  \* what each inode contains: the pid of its creator, once written
          alive,    \* the processes that exist
          pc,       \* where each thread is
          mine,     \* the inode a thread created in its last fhs_lock
          seen,     \* the inode a thread has opened for reading (0: open failed)
          readPid,  \* the pid a thread has read from it
          raced     \* history: an unlink removed something else than it had examined

vars == <<style, file, inodes, content, alive, pc, mine, seen, readPid, raced>>

Inode == 1 .. MaxInode

Location == {"idle", "group", "stat", "open", "read", "kill", "unlinkStale", "restat",
             "create", "write", "held", "unlockStat", "unlockOpen", "unlockRead", "unlinkOwn"}

\* A thread owns the inode it created from the creation to the end of the unlock.
Owning == {"write", "held", "unlockStat", "unlockOpen", "unlockRead", "unlinkOwn"}

TypeOK ==
  /\ style \in {"fhs", "uucp"}
  /\ file \in 0 .. MaxInode
  /\ inodes \in 0 .. MaxInode
  /\ content \in [Inode -> Pid \cup {Unwritten}]
  /\ alive \in SUBSET Pid
  /\ pc \in [Thread -> Location]
  /\ mine \in [Thread -> 0 .. MaxInode]
  /\ seen \in [Thread -> 0 .. MaxInode]
  /\ readPid \in [Thread -> Pid \cup {Nobody}]
  /\ raced \in BOOLEAN

Init ==
  /\ style \in {"fhs", "uucp"}
  /\ file = 0
  /\ inodes = 0
  /\ content = [i \in Inode |-> Unwritten]
  /\ alive = Pid
  /\ pc = [t \in Thread |-> "idle"]
  /\ mine = [t \in Thread |-> 0]
  /\ seen = [t \in Thread |-> 0]
  /\ readPid = [t \in Thread |-> Nobody]
  /\ raced = FALSE

-----------------------------------------------------------------------------
(* Taking the lock: fhs_lock, uucp_lock.                                   *)

At(t, l) == pc[t] = l /\ PidOf[t] \in alive
Goto(t, l) == pc' = [pc EXCEPT ![t] = l]

\* Where a lock goes on once check_lock_status has found nothing.
Unlocked == IF style = "uucp" THEN "restat" ELSE "create"

\* open(), a nativeStaticSet* or testRead calls LOCK; the lock directory is there.
BeginLock(t) ==
  /\ At(t, "idle")
  /\ Goto(t, "group")
  /\ UNCHANGED <<file, inodes, content, alive, mine, seen, readPid, raced>>

\* check_group_uucp creates a temporary file in the lock directory and removes it, to
\* know that it may write there.
CheckGroup(t) ==
  /\ At(t, "group")
  /\ \E writable \in BOOLEAN : Goto(t, IF writable THEN "stat" ELSE "idle")
  /\ UNCHANGED <<file, inodes, content, alive, mine, seen, readPid, raced>>

\* is_device_locked gives up when another program's lock file for the device is in a
\* directory that is not ours; then it looks for our lock file.
StatLock(t) ==
  /\ At(t, "stat")
  /\ \E elsewhere \in BOOLEAN :
       Goto(t, IF elsewhere THEN "idle" ELSE IF file = 0 THEN Unlocked ELSE "open")
  /\ UNCHANGED <<file, inodes, content, alive, mine, seen, readPid, raced>>

\* Opens it for reading.  The result of open() is not tested.
OpenLock(t) ==
  /\ At(t, "open")
  /\ seen' = [seen EXCEPT ![t] = file]
  /\ Goto(t, "read")
  /\ UNCHANGED <<file, inodes, content, alive, mine, readPid, raced>>

\* What read() and the conversion leave in pid: the pid of the file, or, when the
\* open failed or nothing is written yet, whatever the uninitialized buffer holds.
PidRead(i) ==
  IF i # 0 /\ content[i] # Unwritten THEN {content[i]} ELSE Pid \cup {Nobody}

ReadLock(t) ==
  /\ At(t, "read")
  /\ \E p \in PidRead(seen[t]) : readPid' = [readPid EXCEPT ![t] = p]
  /\ Goto(t, "kill")
  /\ UNCHANGED <<file, inodes, content, alive, mine, seen, raced>>

\* Mutant: any pid but our own is taken for a dead one.
KillTestOwnOnly(t) ==
  /\ At(t, "kill")
  /\ Goto(t, IF readPid[t] = PidOf[t] THEN Unlocked ELSE "unlinkStale")
  /\ UNCHANGED <<file, inodes, content, alive, mine, seen, readPid, raced>>

\* kill( pid, 0 ): ESRCH makes the lock stale.  A live one is left where it is, and
\* is_device_locked still returns 0: it is the exclusive create that refuses.
KillTest(t) ==
  /\ At(t, "kill")
  /\ Goto(t, IF readPid[t] \in alive THEN Unlocked ELSE "unlinkStale")
  /\ UNCHANGED <<file, inodes, content, alive, mine, seen, readPid, raced>>

\* The file at the path is not what this thread examined.
RacedUnlink(t) == file # 0 /\ (seen[t] # file \/ readPid[t] # content[file])

\* Removes the stale lock by its path; the lock fails when that does.
UnlinkStale(t) ==
  /\ At(t, "unlinkStale")
  /\ file' = 0
  /\ Goto(t, IF file = 0 THEN "idle" ELSE Unlocked)
  /\ raced' = (raced \/ RacedUnlink(t))
  /\ UNCHANGED <<inodes, content, alive, mine, seen, readPid>>

\* uucp_lock looks once more: it does not take the lock when the file is there (a live
\* lock that is_device_locked has left) or the device is gone.
RestatLock(t) ==
  /\ At(t, "restat")
  /\ \E device \in BOOLEAN : Goto(t, IF file = 0 /\ device THEN "create" ELSE "idle")
  /\ UNCHANGED <<file, inodes, content, alive, mine, seen, readPid, raced>>

\* Mutant: opens the file without O_EXCL, taking the one that is there.
CreateLockShared(t) ==
  /\ At(t, "create")
  /\ inodes < MaxInode
  /\ inodes' = IF file = 0 THEN inodes + 1 ELSE inodes
  /\ file' = IF file = 0 THEN inodes' ELSE file
  /\ mine' = [mine EXCEPT ![t] = file']
  /\ Goto(t, "write")
  /\ UNCHANGED <<content, alive, seen, readPid, raced>>

\* open( file, O_CREAT | O_WRONLY | O_EXCL ).
CreateLock(t) ==
  /\ At(t, "create")
  /\ \/ /\ file # 0
        /\ Goto(t, "idle")
        /\ UNCHANGED <<file, inodes, mine>>
     \/ /\ file = 0
        /\ inodes < MaxInode
        /\ inodes' = inodes + 1
        /\ file' = inodes'
        /\ mine' = [mine EXCEPT ![t] = inodes']
        /\ Goto(t, "write")
  /\ UNCHANGED <<content, alive, seen, readPid, raced>>

\* write( fd, lockinfo, 11 ): to the inode, wherever the path now leads.
WriteLock(t) ==
  /\ At(t, "write")
  /\ content' = [content EXCEPT ![mine[t]] = PidOf[t]]
  /\ Goto(t, "held")
  /\ UNCHANGED <<file, inodes, alive, mine, seen, readPid, raced>>

-----------------------------------------------------------------------------
(* Giving it back: fhs_unlock, uucp_unlock, and the paths that do not.     *)

\* configure_port or set_port_params fails after the LOCK: open() and the
\* nativeStaticSet* functions return without UNLOCK.
FailAfterLock(t) ==
  /\ At(t, "held")
  /\ Goto(t, "idle")
  /\ UNCHANGED <<file, inodes, content, alive, mine, seen, readPid, raced>>

\* nativeClose, testRead or a nativeStaticSet* reaches its UNLOCK.
BeginUnlock(t) ==
  /\ At(t, "held")
  /\ Goto(t, IF style = "uucp" THEN "unlockStat" ELSE "unlockOpen")
  /\ UNCHANGED <<file, inodes, content, alive, mine, seen, readPid, raced>>

\* uucp_unlock leaves everything as it is when the device or the lock file is gone.
UnlockStat(t) ==
  /\ At(t, "unlockStat")
  /\ \E device \in BOOLEAN : Goto(t, IF file # 0 /\ device THEN "unlockOpen" ELSE "idle")
  /\ UNCHANGED <<file, inodes, content, alive, mine, seen, readPid, raced>>

\* check_lock_pid opens the file at the path; it returns 1 when there is none.
UnlockOpen(t) ==
  /\ At(t, "unlockOpen")
  /\ seen' = [seen EXCEPT ![t] = file]
  /\ Goto(t, IF file = 0 THEN "idle" ELSE "unlockRead")
  /\ UNCHANGED <<file, inodes, content, alive, mine, readPid, raced>>

\* Mutant: the pid in the file is read and not compared.
UnlockReadAnyPid(t) ==
  /\ At(t, "unlockRead")
  /\ \E p \in PidRead(seen[t]) : readPid' = [readPid EXCEPT ![t] = p]
  /\ Goto(t, "unlinkOwn")
  /\ UNCHANGED <<file, inodes, content, alive, mine, seen, raced>>

\* check_lock_pid takes the lock for ours when its pid is that of this process (the
\* openpid passed in is the same) or of its parent.
UnlockRead(t) ==
  /\ At(t, "unlockRead")
  /\ \E p \in PidRead(seen[t]) :
       /\ readPid' = [readPid EXCEPT ![t] = p]
       /\ Goto(t, IF p \in {PidOf[t], Parent[PidOf[t]]} THEN "unlinkOwn" ELSE "idle")
  /\ UNCHANGED <<file, inodes, content, alive, mine, seen, raced>>

UnlinkOwn(t) ==
  /\ At(t, "unlinkOwn")
  /\ file' = 0
  /\ Goto(t, "idle")
  /\ raced' = (raced \/ RacedUnlink(t))
  /\ UNCHANGED <<inodes, content, alive, mine, seen, readPid>>

-----------------------------------------------------------------------------
(* The operating system: a process dies where it stands and leaves its     *)
(* file behind; its pid is used again.                                     *)

Crash(p) ==
  /\ p \in alive
  /\ alive' = alive \ {p}
  /\ pc' = [t \in Thread |-> IF PidOf[t] = p THEN "idle" ELSE pc[t]]
  /\ UNCHANGED <<file, inodes, content, mine, seen, readPid, raced>>

Restart(p) ==
  /\ p \in Pid \ alive
  /\ alive' = alive \cup {p}
  /\ UNCHANGED <<file, inodes, content, pc, mine, seen, readPid, raced>>

Lock(t) ==
  \/ BeginLock(t) \/ CheckGroup(t) \/ StatLock(t) \/ OpenLock(t) \/ ReadLock(t)
  \/ KillTest(t) \/ UnlinkStale(t) \/ RestatLock(t) \/ CreateLock(t) \/ WriteLock(t)

Unlock(t) ==
  \/ FailAfterLock(t) \/ BeginUnlock(t) \/ UnlockStat(t) \/ UnlockOpen(t) \/ UnlockRead(t)
  \/ UnlinkOwn(t)

\* The style is the build's: it never changes.
Next ==
  /\ \/ \E t \in Thread : Lock(t) \/ Unlock(t)
     \/ \E p \in Pid : Crash(p) \/ Restart(p)
  /\ UNCHANGED style

Spec == Init /\ [][Next]_vars

\* The same, with no process dying.
CrashFreeSpec ==
  Init /\ [][UNCHANGED style /\ \E t \in Thread : Lock(t) \/ Unlock(t)]_vars

-----------------------------------------------------------------------------
(* Properties.                                                             *)

Holds(t) == pc[t] = "held"
Owns(t) == pc[t] \in Owning

\* "Lock files are used to prevent more than one program accessing a port at a
\* time" (INSTALL): no two threads are past the lock of one device.
MutualExclusion == \A t, u \in Thread : Holds(t) /\ Holds(u) => t = u

\* Unless an unlink removed a file (or a content) other than the one its thread had
\* examined, no two threads ever own a lock file of the device at the same time, from
\* the creation to the end of the unlock.  The check-then-unlink of is_device_locked
\* and of the unlock functions is thus the only hole: crashes, reuse of pids, files left behind
\* and files caught before their pid is written open no other.
ExclusiveUnlessRaced == ~raced => \A t, u \in Thread : Owns(t) /\ Owns(u) => t = u

\* A thread about to remove a lock it judged stale in is_device_locked would not, if
\* the file at the path is the one it read and holds the pid it read, take it away
\* from a thread that owns it, even when the pid lives again by now.
StaleMeansUnowned ==
  \A t, u \in Thread :
    pc[t] = "unlinkStale" /\ file # 0 /\ seen[t] = file /\ readPid[t] = content[file]
      => ~(Owns(u) /\ mine[u] = file)

\* check_lock_pid: "make sure the lock file is ours".  A thread whose lock file is at
\* the path loses it only to itself, to another thread of its process or of a child
\* of it, or to an unlink that takes away something else than it had examined: never
\* to the stale check or to the unlock of a stranger that looked at this file.
KeepsItsLock ==
  [][\A t \in Thread :
       Owns(t) /\ mine[t] = file /\ file' # file
         => \E u \in Thread :
              \/ pc[u] \in {"unlinkStale", "unlinkOwn"} /\ RacedUnlink(u)
              \/ pc[u] = "unlinkOwn" /\ PidOf[t] \in {PidOf[u], Parent[PidOf[u]]}]_vars

=============================================================================
