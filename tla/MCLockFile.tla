----------------------------- MODULE MCLockFile -----------------------------
(* Instances of LockFile: two processes, the second a child of the first; the *)
(* first with two threads in the larger one.                                  *)
EXTENDS LockFile

CONSTANTS t1, t2, t3, p1, p2

MCPidOf == [t \in Thread |-> IF t = t2 THEN p2 ELSE p1]
MCParent == [p \in Pid |-> IF p = p2 THEN p1 ELSE Nobody]

\* The local variables of a thread that is outside the functions using them, and the
\* contents of inodes that no path, descriptor or owner leads to, decide nothing.
View ==
  LET reads(t) == pc[t] \in {"read", "kill", "unlinkStale", "unlockRead", "unlinkOwn"}
      used(i) ==
        \/ i = file
        \/ \E t \in Thread : (reads(t) /\ seen[t] = i) \/ (Owns(t) /\ mine[t] = i)
  IN <<style, file, inodes, alive, pc, raced,
       [i \in Inode |-> IF used(i) THEN content[i] ELSE Unwritten],
       [t \in Thread |-> IF Owns(t) THEN mine[t] ELSE 0],
       [t \in Thread |-> IF reads(t) THEN seen[t] ELSE 0],
       [t \in Thread |-> IF reads(t) /\ pc[t] # "read" /\ pc[t] # "unlockRead"
                        THEN readPid[t] ELSE Nobody]>>
=============================================================================
