---------------------------- MODULE WinPortsProofs ----------------------------
(***************************************************************************)
(* The port list of termios.c and the calls on its entries, proved for any *)
(* devices, threads, sizes of reads and numbers of calls.                  *)
(***************************************************************************)
EXTENDS WinPorts, TLAPS, WellFoundedInduction, SequenceTheorems

CallType == [op : Ops, at : {"begun", "changed", "set", "restored"},
             file : Files \cup {NoFile}, fd : Nat, tail : Files \cup {NoFile},
             old : Masks, size : Nat, ok : BOOLEAN]
NodeType == [fd : Nat, hComm : {"none", "open", "invalid"}, flag : Masks, tx : BOOLEAN]
Opening == Adding \cup {"open"}
Unlinked == {"adding", "numbered", "linking"}

\* What one thread's call is: an open has a file to itself, and a number as soon as it
\* has taken one; only calls that change the mask go beyond their beginning.
Proper(c) ==
  /\ c \in CallType
  /\ c.op = "none" => c.file = NoFile
  /\ c.op \in Opening => c.file # NoFile
  /\ c.op \in Opening \ {"adding"} => c.fd # 0 
  /\ c.at # "begun" => c.op \in Masking \cup {"setflags"}
  /\ c.op = "setflags" => c.at \in {"begun", "changed"}
CallInv ==
  \A t \in Threads :
    /\ Proper(call[t])
    /\ call[t].op \in Unlinked => call[t].file \notin Listed
    /\ call[t].op \in Opening \ {"adding"} => node[call[t].file].fd # 0
    /\ \A u \in Threads \ {t} :
         call[t].op \in Opening /\ call[u].op \in Opening => call[t].file # call[u].file

\* No file is listed twice.
ListInv == \A i, j \in DOMAIN list : list[i] = list[j] => i = j

TInv == TypeOK /\ CallInv /\ ListInv

-----------------------------------------------------------------------------
(* The list.                                                               *)

LEMMA Least ==
  ASSUME NEW T, T \subseteq Nat, T # {}
  PROVE  \E x \in T : \A y \in T : x <= y
<1>1. PICK x \in T : \A y \in T : ~ (<<y, x>> \in OpToRel(<, Nat))
  BY Zenon, NatLessThanWellFounded, WFMin
<1>2. \A y \in T : ~ (y < x)
  <2>1. SUFFICES ASSUME NEW y \in T, y < x PROVE FALSE
    OBVIOUS
  <2>2. <<y, x>> \in OpToRel(<, Nat)
    BY Zenon, <2>1 DEF OpToRel
  <2>3. QED
    BY Zenon, <1>1, <2>2
<1>3. QED
  BY <1>2

\* What find_port finds is an entry with the number.
LEMMA FindPort ==
  ASSUME TypeOK, NEW fd, find_port(fd) # NoFile
  PROVE  /\ \E i \in DOMAIN list : find_port(fd) = list[i] /\ Fd(i) = fd
         /\ find_port(fd) \in Files /\ find_port(fd) \in Listed
<1>1. First(fd) # {} /\ find_port(fd) = list[CHOOSE i \in First(fd) : TRUE]
  BY DEF find_port
<1>2. (CHOOSE i \in First(fd) : TRUE) \in First(fd)
  BY <1>1
<1>3. First(fd) \subseteq DOMAIN list /\ \A i \in First(fd) : Fd(i) = fd
  BY DEF First
<1>4. \A i \in DOMAIN list : list[i] \in Files /\ list[i] \in Listed
  BY DEF TypeOK, Listed
<1>5. QED
  BY <1>1, <1>2, <1>3, <1>4

\* A number given out is one more than that of an entry, or 1.
LEMMA FreeFd ==
  ASSUME TypeOK
  PROVE  get_free_fd \in Nat \ {0}
<1>1. CASE list = <<>> \/ Fd(1) > 1
  BY <1>1 DEF get_free_fd
<1>2. CASE ~ (list = <<>> \/ Fd(1) > 1)
  <2>. DEFINE G == {i \in DOMAIN list : Gap(i)}
              n == CHOOSE i \in DOMAIN list : Gap(i) /\ \A j \in 1 .. i - 1 : ~ Gap(j)
  <2>1. /\ Len(list) \in Nat \ {0} /\ DOMAIN list = 1 .. Len(list)
        /\ list # <<>>
    BY <1>2 DEF TypeOK
  <2>2. G \subseteq Nat /\ Len(list) \in G
    BY <2>1 DEF Gap
  <2>3. PICK i \in G : \A j \in G : i <= j
    BY <2>2, Least
  <2>4. Gap(i) /\ \A j \in 1 .. i - 1 : ~ Gap(j)
    BY <2>1, <2>3
  <2>5. n \in DOMAIN list
    BY <2>3, <2>4
  <2>. HIDE DEF n
  <2>6. Fd(n) \in Nat
    BY <2>5 DEF TypeOK, Fd
  <2>7. get_free_fd = Fd(n) + 1
    BY <1>2 DEF get_free_fd, n
  <2>8. QED
    BY <2>6, <2>7
<1>3. QED
  BY <1>1, <1>2

\* A function on 1 .. n is a sequence.
LEMMA IsSeq ==
  ASSUME NEW n \in Nat, NEW s \in [1 .. n -> Files]
  PROVE  s \in Seq(Files) /\ Len(s) = n /\ DOMAIN s = 1 .. n
<1>1. s \in Seq(Files)
  BY SeqDef
<1>2. DOMAIN s = 1 .. n /\ DOMAIN s = 1 .. Len(s) /\ Len(s) \in Nat
  BY <1>1, LenProperties
<1>3. QED
  BY <1>1, <1>2

\* The list without one of its entries.
LEMMA RemoveEntry ==
  ASSUME TypeOK, ListInv, NEW i \in DOMAIN list, list' = Without(i)
  PROVE  /\ list' \in Seq(Files) /\ ListInv' /\ Len(list') = Len(list) - 1
         /\ Listed' = Listed \ {list[i]}
<1>1. /\ Len(list) \in Nat /\ DOMAIN list = 1 .. Len(list) /\ Len(list) - 1 \in Nat
      /\ \A k \in 1 .. Len(list) : list[k] \in Files
  BY DEF TypeOK
<1>2. /\ list' = [k \in 1 .. Len(list) - 1 |-> IF k < i THEN list[k] ELSE list[k + 1]]
      /\ \A k \in 1 .. Len(list) - 1 : k \in 1 .. Len(list) /\ k + 1 \in 1 .. Len(list)
  BY <1>1 DEF Without
<1>3. list' \in [1 .. Len(list) - 1 -> Files]
  BY <1>1, <1>2
<1>4. list' \in Seq(Files) /\ Len(list') = Len(list) - 1
      /\ DOMAIN list' = 1 .. Len(list) - 1
  BY <1>1, <1>3, IsSeq
<1>5. ListInv'
  <2>1. SUFFICES ASSUME NEW j \in 1 .. Len(list) - 1, NEW k \in 1 .. Len(list) - 1,
                        list'[j] = list'[k]
                 PROVE  j = k
    BY <1>4 DEF ListInv
  <2>. DEFINE At(m) == IF m < i THEN m ELSE m + 1
  <2>2. At(j) \in DOMAIN list /\ At(k) \in DOMAIN list
    BY <1>1
  <2>3. list'[j] = list[At(j)] /\ list'[k] = list[At(k)]
    BY <1>2
  <2>4. At(j) = At(k)
    BY <2>1, <2>2, <2>3 DEF ListInv
  <2>5. QED
    BY <1>1, <2>4
<1>6. Listed' = Listed \ {list[i]}
  <2>1. ASSUME NEW k \in 1 .. Len(list) - 1
        PROVE  list'[k] \in Listed \ {list[i]}
    <3>1. PICK m \in DOMAIN list : m # i /\ list'[k] = list[m]
      <4>1. CASE k < i
        BY <1>1, <1>2, <4>1
      <4>2. CASE ~ (k < i)
        <5>1. k + 1 \in DOMAIN list /\ k + 1 # i /\ list'[k] = list[k + 1]
          BY <1>1, <1>2, <4>2
        <5>2. QED
          BY <5>1
      <4>3. QED
        BY <4>1, <4>2
    <3>2. QED
      BY <3>1 DEF Listed, ListInv
  <2>2. ASSUME NEW k \in 1 .. Len(list), k # i
        PROVE  \E j \in 1 .. Len(list) - 1 : list'[j] = list[k]
    <3>1. CASE k < i
      <4>1. k \in 1 .. Len(list) - 1 /\ list'[k] = list[k]
        BY <1>1, <1>2, <3>1
      <4>2. QED
        BY <4>1
    <3>2. CASE k > i
      <4>1. k - 1 \in 1 .. Len(list) - 1 /\ list'[k - 1] = list[k]
        BY <1>1, <1>2, <3>2
      <4>2. QED
        BY <4>1
    <3>3. QED
      BY <1>1, <2>2, <3>1, <3>2
  <2>3. Listed' \subseteq Listed \ {list[i]}
    BY <1>4, <2>1 DEF Listed
  <2>4. ASSUME NEW f \in Listed, f # list[i]
        PROVE  f \in Listed'
    <3>1. PICK k \in 1 .. Len(list) : f = list[k]
      BY <1>1 DEF Listed
    <3>2. PICK j \in 1 .. Len(list) - 1 : list'[j] = f
      BY <2>2, <2>4, <3>1
    <3>3. QED
      BY <1>4, <3>2 DEF Listed
  <2>5. QED
    BY <2>3, <2>4
<1>7. QED
  BY <1>4, <1>5, <1>6

\* The list with one entry more.
LEMMA AppendEntry ==
  ASSUME TypeOK, ListInv, NEW f \in Files, f \notin Listed, list' = Append(list, f)
  PROVE  /\ list' \in Seq(Files) /\ ListInv' /\ Len(list') = Len(list) + 1
         /\ Listed' = Listed \cup {f}
         /\ \A i \in DOMAIN list : list'[i] = list[i]
         /\ list'[Len(list) + 1] = f
<1>1. /\ Len(list) \in Nat /\ DOMAIN list = 1 .. Len(list)
      /\ list' \in Seq(Files) /\ Len(list') = Len(list) + 1
      /\ DOMAIN list' = 1 .. Len(list) + 1
      /\ \A i \in DOMAIN list : list'[i] = list[i]
      /\ list'[Len(list) + 1] = f
  BY DEF TypeOK
<1>2. \A i \in DOMAIN list : list[i] \in Listed
  BY DEF Listed
<1>3. ListInv'
  BY <1>1, <1>2 DEF ListInv
<1>4. Listed' = Listed \cup {f}
  <2>1. Listed' \subseteq Listed \cup {f}
    BY <1>1, <1>2 DEF Listed
  <2>2. Listed \subseteq Listed'
    BY <1>1 DEF Listed
  <2>3. f \in Listed'
    BY <1>1 DEF Listed
  <2>4. QED
    BY <2>1, <2>2, <2>3
<1>5. QED
  BY <1>1, <1>3, <1>4

\* The list as far as an entry.
LEMMA UptoEntry ==
  ASSUME TypeOK, ListInv, NEW i \in DOMAIN list
  PROVE  /\ Upto(list[i]) \in Seq(Files) /\ Len(Upto(list[i])) = i
         /\ \A k \in 1 .. i : Upto(list[i])[k] = list[k]
         /\ i = Len(list) => Upto(list[i]) = list
<1>1. /\ list \in Seq(Files) /\ Len(list) \in Nat /\ DOMAIN list = 1 .. Len(list)
      /\ \A k \in 1 .. Len(list) : list[k] \in Files
  BY DEF TypeOK
<1>2. (CHOOSE j \in DOMAIN list : list[j] = list[i]) = i
  BY DEF ListInv
<1>3. Upto(list[i]) = SubSeq(list, 1, i)
  BY <1>2 DEF Upto
<1>4. i \in Int /\ 1 <= i /\ i <= Len(list) /\ \A k \in 1 .. i : list[k] \in Files
  BY <1>1
<1>5. /\ SubSeq(list, 1, i) \in Seq(Files)
      /\ Len(SubSeq(list, 1, i)) = IF 1 <= i THEN i - 1 + 1 ELSE 0
      /\ \A k \in 1 .. i - 1 + 1 : SubSeq(list, 1, i)[k] = list[1 + k - 1]
  BY <1>4, SubSeqProperties
<1>6. SubSeq(list, 1, Len(list)) = list
  BY <1>1, SubSeqFull
<1>7. i - 1 + 1 = i /\ \A k \in 1 .. i : k \in Int /\ 1 + k - 1 = k
  BY <1>4
<1>8. QED
  BY <1>3, <1>4, <1>5, <1>6, <1>7

-----------------------------------------------------------------------------
(* Types.                                                                  *)

ListPart == list \in Seq(Files) /\ ListInv
NodePart == node \in [Files -> NodeType] /\ \A f \in Listed : node[f].fd # 0
CallPart == call \in [Threads -> CallType] /\ CallInv
DataPart ==
  /\ handle \subseteq Files /\ drv \in [Files -> Masks]
  /\ held \subseteq [file : Files, fd : Nat \ {0}]
  /\ outq \in [Files -> BOOLEAN] /\ inq \in [Files -> 0 .. MaxQueue]
  /\ brk \in [Files -> BOOLEAN]
  /\ asked \in [Files -> Masks] /\ due \in [Files -> BOOLEAN]
  /\ gap \in BOOLEAN /\ skipped \in BOOLEAN /\ mingled \in BOOLEAN
  /\ crossed \subseteq Files /\ lapped \subseteq Files /\ raced \subseteq Files
  /\ stuck \subseteq Files /\ doubled \subseteq Files /\ reused \subseteq Files

LEMMA Parts == TInv <=> ListPart /\ NodePart /\ CallPart /\ DataPart /\ calls \in 0 .. MaxCalls
BY DEF TInv, TypeOK, ListPart, NodePart, CallPart, DataPart, CallType, NodeType

LEMMA PartsNext ==
  ASSUME TRUE
  PROVE  ListPart' /\ NodePart' /\ CallPart' /\ DataPart' /\ calls' \in 0 .. MaxCalls => TInv'
BY DEF TInv, TypeOK, ListPart, NodePart, CallPart, DataPart, CallType, NodeType

LEMMA NoCallIs ==
  /\ Proper(NoCall) /\ NoCall \in CallType /\ NoCall.op = "none" /\ NoCall.file = NoFile
  /\ NoCall.at = "begun" /\ NoCall.fd = 0
BY DEF NoCall, Proper, CallType, Ops, Masks, Masking, Opening, Adding

LEMMA ListedFiles == TypeOK => Listed \subseteq Files /\ \A f \in Listed : f # NoFile
BY FilesAssumption DEF TypeOK, Listed

\* One thread goes on, and opens what it opened before.
LEMMA SetCall ==
  ASSUME TInv, NEW t \in Threads, NEW c, Proper(c),
         call' = [call EXCEPT ![t] = c],
         \/ Listed' \subseteq Listed
         \/ /\ call[t].op \in Opening /\ c.op \notin Unlinked
            /\ Listed' \subseteq Listed \cup {call[t].file},
         \A f \in Files : node[f].fd # 0 => node'[f].fd # 0,
         c.op \in Opening => call[t].op \in Opening /\ c.file = call[t].file,
         c.op \in Unlinked => call[t].op \in Unlinked,
         c.op \in Opening \ {"adding"} => node'[c.file].fd # 0
  PROVE  CallPart'
<1>0. call \in [Threads -> CallType] /\ CallInv
  BY Parts DEF CallPart
<1>1. call' \in [Threads -> CallType]
  BY <1>0 DEF Proper
<1>2. \A u \in Threads : call'[u] = IF u = t THEN c ELSE call[u]
  BY <1>0
<1>3. \A u \in Threads : call[u].op \in Opening => call[u].file \in Files
  BY <1>0 DEF CallInv, Proper, CallType
<1>. SUFFICES ASSUME NEW u \in Threads
              PROVE  /\ Proper(call'[u])
                     /\ call'[u].op \in Unlinked => call'[u].file \notin Listed'
                     /\ call'[u].op \in Opening \ {"adding"} => node'[call'[u].file].fd # 0
                     /\ \A v \in Threads \ {u} :
                          call'[u].op \in Opening /\ call'[v].op \in Opening =>
                            call'[u].file # call'[v].file
  BY <1>1 DEF CallPart, CallInv
<1>4. Proper(call'[u])
  BY <1>0, <1>2 DEF CallInv
<1>5. call'[u].op \in Unlinked => call'[u].file \notin Listed'
  <2>1. CASE u = t
    BY <1>0, <1>2, <2>1 DEF CallInv, Unlinked, Opening, Adding
  <2>2. CASE u # t
    BY <1>0, <1>2, <2>2 DEF CallInv, Unlinked, Opening, Adding
  <2>3. QED
    BY <2>1, <2>2
<1>6. call'[u].op \in Opening \ {"adding"} => node'[call'[u].file].fd # 0
  BY <1>0, <1>2, <1>3 DEF CallInv
<1>7. ASSUME NEW v \in Threads \ {u}, call'[u].op \in Opening, call'[v].op \in Opening
      PROVE  call'[u].file # call'[v].file
  <2>1. /\ call[u].op \in Opening /\ call'[u].file = call[u].file
        /\ call[v].op \in Opening /\ call'[v].file = call[v].file
    BY <1>2, <1>7
  <2>2. QED
    BY <1>0, <2>1 DEF CallInv
<1>8. QED
  BY <1>4, <1>5, <1>6, <1>7

\* Threads go on with calls that open nothing, or stay.
LEMMA SetCalls ==
  ASSUME TInv, call' \in [Threads -> CallType], Listed' \subseteq Listed,
         \A f \in Files : node[f].fd # 0 => node'[f].fd # 0,
         \A u \in Threads :
           call'[u] = call[u] \/ (Proper(call'[u]) /\ call'[u].op \notin Opening)
  PROVE  CallPart'
<1>0. CallInv /\ call \in [Threads -> CallType]
  BY Parts DEF CallPart
<1>1. \A u \in Threads : Proper(call'[u])
  BY <1>0 DEF CallInv
<1>2. \A u \in Threads : call'[u].op \in Opening => call'[u] = call[u]
  OBVIOUS
<1>3. Unlinked \subseteq Opening
  BY DEF Unlinked, Opening, Adding
<1>4. \A u \in Threads : call[u].op \in Opening => call[u].file \in Files
  BY <1>0 DEF CallInv, Proper, CallType
<1>5. \A u \in Threads : call'[u].op \in Unlinked => call'[u].file \notin Listed'
  BY <1>0, <1>2, <1>3 DEF CallInv
<1>6. \A u \in Threads : call'[u].op \in Opening \ {"adding"} => node'[call'[u].file].fd # 0
  BY <1>0, <1>2, <1>4 DEF CallInv
<1>7. \A u, v \in Threads : u # v /\ call'[u].op \in Opening /\ call'[v].op \in Opening =>
        call'[u].file # call'[v].file
  BY <1>0, <1>2 DEF CallInv
<1>8. QED
  BY <1>1, <1>5, <1>6, <1>7 DEF CallPart, CallInv

LEMMA ReturnCall ==
  ASSUME TInv, NEW t \in Threads, Return(t), Listed' \subseteq Listed,
         \A f \in Files : node[f].fd # 0 => node'[f].fd # 0
  PROVE  CallPart'
<1>1. call' = [call EXCEPT ![t] = NoCall] /\ NoCall.op \notin Opening \cup Unlinked
  BY NoCallIs DEF Return, Opening, Unlinked, Adding
<1>2. QED
  BY <1>1, NoCallIs, SetCall

\* The call goes on with another operation or step of its own, and opens nothing.
LEMMA GoesOn ==
  ASSUME TInv, NEW t \in Threads, NEW c, Proper(c), c.op \notin Opening,
         call' = [call EXCEPT ![t] = c], Listed' \subseteq Listed,
         \A f \in Files : node[f].fd # 0 => node'[f].fd # 0
  PROVE  CallPart'
<1>1. c.op \notin Unlinked
  BY DEF Unlinked, Opening, Adding
<1>2. QED
  BY <1>1, SetCall

LEMMA EnterCall ==
  ASSUME TInv, NEW t \in Threads, NEW p \in held, NEW c \in CallType, Enter(t, p, c),
         c.op \notin Opening \cup {"none"}, c.at = "begun",
         UNCHANGED list, \A f \in Files : node[f].fd # 0 => node'[f].fd # 0
  PROVE  CallPart' /\ find_port(p.fd) \in Files /\ find_port(p.fd) \in Listed
<1>. DEFINE f == find_port(p.fd)
            d == [c EXCEPT !.file = f, !.fd = p.fd]
<1>1. f \in Files /\ f # NoFile /\ p.fd \in Nat /\ f \in Listed
  BY FindPort, Parts DEF Enter, TInv, DataPart
<1>2. Proper(d) /\ d.op = c.op
  BY <1>1 DEF Proper, CallType
<1>3. Listed' = Listed
  BY DEF Listed
<1>4. call' = [call EXCEPT ![t] = d]
  BY DEF Enter
<1>. HIDE DEF d
<1>5. QED
  BY <1>1, <1>2, <1>3, <1>4, GoesOn

LEMMA NodeSame == TInv /\ UNCHANGED <<list, node>> => ListPart' /\ NodePart'
BY Parts DEF ListPart, NodePart, ListInv, Listed

\* A step that changes one entry, and not to have no number.
LEMMA SetNode ==
  ASSUME TInv, NEW f \in Files, NEW n \in NodeType, n.fd # 0 \/ n.fd = node[f].fd,
         node' = [node EXCEPT ![f] = n], UNCHANGED list
  PROVE  /\ NodePart' /\ ListPart'
         /\ \A g \in Files : node[g].fd # 0 => node'[g].fd # 0
<1>1. NodePart /\ ListPart
  BY Parts
<1>2. Listed' = Listed /\ Listed \subseteq Files
  BY ListedFiles DEF Listed, TInv
<1>3. \A g \in Files : node'[g] = IF g = f THEN n ELSE node[g]
  BY <1>1 DEF NodePart
<1>4. node' \in [Files -> NodeType]
  BY <1>1 DEF NodePart
<1>5. QED
  BY <1>1, <1>2, <1>3, <1>4 DEF NodePart, ListPart, ListInv

\* Every call under way is what a call can be.
LEMMA CallOf ==
  ASSUME TInv, NEW t \in Threads
  PROVE  /\ Proper(call[t]) /\ call[t] \in CallType
         /\ call[t].file # NoFile => call[t].file \in Files /\ node[call[t].file] \in NodeType
         /\ call[t].op \in Opening => call[t].file \in Files
BY Parts DEF CallPart, CallInv, Proper, CallType, NodePart

\* What a close of a number does to the list.
LEMMA UnlinkType ==
  ASSUME TInv, NEW fd,
         IF list = <<>> THEN UNCHANGED <<list, gap, skipped>> ELSE Unlink(fd), UNCHANGED node
  PROVE  /\ ListPart' /\ NodePart' /\ gap' \in BOOLEAN /\ skipped' \in BOOLEAN
         /\ Listed' \subseteq Listed
<1>0. gap \in BOOLEAN /\ skipped \in BOOLEAN
  BY Parts DEF DataPart
<1>1. CASE UNCHANGED list
  <2>1. Listed' = Listed
    BY <1>1 DEF Listed
  <2>2. gap' \in BOOLEAN /\ skipped' \in BOOLEAN
    <3>1. CASE UNCHANGED <<gap, skipped>>
      BY <1>0, <3>1
    <3>2. CASE Unlink(fd)
      <4>1. gap' \in BOOLEAN
        BY Zenon, <1>0, <3>2 DEF Unlink
      <4>2. skipped' \in BOOLEAN
        BY Zenon, <1>0, <3>2 DEF Unlink
      <4>3. QED
        BY <4>1, <4>2
    <3>3. QED
      BY <3>1, <3>2
  <2>3. QED
    BY <1>1, <2>1, <2>2, NodeSame
<1>2. CASE Unlink(fd) /\ list' # list
  <2>1. PICK i \in DOMAIN list : list' = Without(i) /\ gap' = (gap \/ i # Len(list))
    BY <1>2 DEF Unlink
  <2>2. /\ list' \in Seq(Files) /\ ListInv' /\ Listed' = Listed \ {list[i]}
    BY <2>1, RemoveEntry DEF TInv
  <2>3. gap' \in BOOLEAN /\ skipped' = skipped
    <3>1. gap' \in BOOLEAN
      BY Zenon, <2>1
    <3>2. QED
      BY <1>2, <3>1 DEF Unlink
  <2>4. NodePart
    BY Parts
  <2>5. QED
    BY <1>0, <2>2, <2>3, <2>4 DEF ListPart, NodePart
<1>3. QED
  BY <1>1, <1>2

\* The list as far as an entry of it, and possibly one more entry after that.
LEMMA CutList ==
  ASSUME TInv, NEW x \in Listed, list' = Upto(x)
  PROVE  ListPart' /\ Listed' \subseteq Listed
<1>0. TypeOK /\ ListInv /\ DOMAIN list = 1 .. Len(list) /\ Len(list) \in Nat
  BY DEF TInv, TypeOK
<1>1. PICK i \in DOMAIN list : x = list[i]
  BY DEF Listed
<1>2. /\ list' \in Seq(Files) /\ Len(list') = i /\ \A k \in 1 .. i : list'[k] = list[k]
  BY <1>0, <1>1, UptoEntry
<1>3. DOMAIN list' = 1 .. i /\ 1 .. i \subseteq DOMAIN list
  BY <1>0, <1>2
<1>4. ListInv'
  BY <1>0, <1>2, <1>3 DEF ListInv
<1>5. Listed' \subseteq Listed
  BY <1>2, <1>3 DEF Listed
<1>6. QED
  BY <1>2, <1>4, <1>5 DEF ListPart

LEMMA LinkList ==
  ASSUME TInv, NEW x \in Listed, NEW f \in Files, f \notin Listed, list' = Append(Upto(x), f)
  PROVE  ListPart' /\ Listed' \subseteq Listed \cup {f} /\ f \in Listed'
<1>0. TypeOK /\ ListInv /\ DOMAIN list = 1 .. Len(list) /\ Len(list) \in Nat
  BY DEF TInv, TypeOK
<1>1. PICK i \in DOMAIN list : x = list[i]
  BY DEF Listed
<1>. DEFINE s == Upto(x)
<1>2. /\ s \in Seq(Files) /\ Len(s) = i /\ \A k \in 1 .. i : s[k] = list[k]
  BY <1>0, <1>1, UptoEntry
<1>. HIDE DEF s
<1>3. /\ list' = Append(s, f) /\ list' \in Seq(Files) /\ Len(list') = i + 1
      /\ DOMAIN list' = 1 .. i + 1 /\ list'[i + 1] = f
      /\ \A k \in 1 .. i : list'[k] = s[k]
  BY <1>0, <1>2 DEF s
<1>4. \A k \in 1 .. i : list'[k] = list[k] /\ k \in DOMAIN list /\ list[k] \in Listed
  BY <1>0, <1>2, <1>3 DEF Listed
<1>5. i \in Nat /\ 1 .. i + 1 = 1 .. i \cup {i + 1}
  BY <1>0
<1>6. ListInv'
  BY <1>0, <1>3, <1>4, <1>5 DEF ListInv
<1>7. Listed' \subseteq Listed \cup {f}
  BY <1>3, <1>4, <1>5 DEF Listed
<1>8. f \in Listed'
  BY <1>3, <1>5 DEF Listed
<1>9. QED
  BY <1>3, <1>6, <1>7, <1>8 DEF ListPart

\* What Frees makes of the calls, of the devices and of the breaks.
LEMMA FreedCalls ==
  ASSUME TInv, NEW c0, Frees(c0), NEW t \in Threads,
         c0 = call \/ c0 = [call EXCEPT ![t] = NoCall],
         Listed' \subseteq Listed, UNCHANGED node
  PROVE  /\ CallPart'
         /\ handle' \subseteq Files /\ brk' \in [Files -> BOOLEAN] /\ stuck' \subseteq Files
<1>. DEFINE gone == Listed \ {list'[i] : i \in DOMAIN list'}
            shut == {f \in gone : node[f].hComm = "open"}
<1>0. call \in [Threads -> CallType] /\ \A u \in Threads : Proper(call[u])
  BY Parts DEF CallPart, CallInv
<1>1. \A u \in Threads : c0[u] = call[u] \/ c0[u] = NoCall
  BY <1>0
<1>2. call' = [u \in Threads |->
                 IF c0[u].file \in gone /\ c0[u].op \notin Adding \cup {"open", "test"}
                 THEN [c0[u] EXCEPT !.file = NoFile] ELSE c0[u]]
  BY DEF Frees
<1>3. \A u \in Threads : \/ call'[u] = call[u]
                         \/ Proper(call'[u]) /\ call'[u].op \notin Opening
  <2>1. SUFFICES ASSUME NEW u \in Threads, call'[u] # call[u]
                 PROVE  Proper(call'[u]) /\ call'[u].op \notin Opening
    OBVIOUS
  <2>2. CASE call'[u] = c0[u]
    <3>1. call'[u] = NoCall
      BY <1>1, <2>1, <2>2
    <3>2. QED
      BY <3>1, NoCallIs DEF Opening, Adding
  <2>3. CASE call'[u] # c0[u]
    <3>1. call'[u] = [c0[u] EXCEPT !.file = NoFile] /\ c0[u].op \notin Opening
      BY <1>2, <2>3 DEF Opening
    <3>2. Proper(c0[u])
      BY <1>0, <1>1, NoCallIs
    <3>. DEFINE d == [c0[u] EXCEPT !.file = NoFile]
    <3>3. /\ d \in CallType /\ d.file = NoFile /\ d.op = c0[u].op /\ d.at = c0[u].at
          /\ d.fd = c0[u].fd
      BY <3>2 DEF Proper, CallType
    <3>. HIDE DEF d
    <3>4. Proper(d)
      BY <3>1, <3>2, <3>3 DEF Proper
    <3>5. QED
      BY <3>1, <3>3, <3>4 DEF d
  <2>4. QED
    BY <2>2, <2>3
<1>4. call' \in [Threads -> CallType]
  <2>1. \A u \in Threads : call'[u] \in CallType
    BY <1>0, <1>3 DEF Proper
  <2>2. QED
    BY <1>2, <2>1
<1>5. CallPart'
  BY <1>3, <1>4, SetCalls
<1>6. handle' \subseteq Files /\ stuck' \subseteq Files
  BY Parts DEF DataPart, Frees
<1>7. brk' \in [Files -> BOOLEAN]
  <2>1. brk' = [f \in Files |-> brk[f] /\ f \notin shut]
    BY DEF Frees
  <2>2. \A f \in Files : (brk[f] /\ f \notin shut) \in BOOLEAN
    BY Zenon
  <2>3. QED
    BY <2>1, <2>2
<1>8. QED
  BY <1>5, <1>6, <1>7

LEMMA MinglesType == \A t : Mingles(t) => mingled' \in BOOLEAN
<1> SUFFICES ASSUME NEW t, Mingles(t) PROVE mingled' \in BOOLEAN
  OBVIOUS
<1>1. QED
  BY Zenon DEF Mingles

\* An open, up to the linked entry.
LEMMA OpenType ==
  ASSUME TInv, NEW t \in Threads, NEW f \in Files, serial_open(t, f)
  PROVE  ListPart' /\ NodePart' /\ CallPart' /\ DataPart'
<1>0. /\ call \in [Threads -> CallType] /\ CallInv /\ NodePart /\ ListPart /\ DataPart
      /\ f \notin Listed /\ UNCHANGED list /\ Listed' = Listed
  BY Parts DEF CallPart, serial_open, Opens, port_opened, Listed
<1>1. PICK S \in SUBSET {u \in Threads : ~Idle(u) /\ call[u].file = NoFile} :
        /\ call' = [u \in Threads |->
             IF u = t THEN [NoCall EXCEPT !.op = "adding", !.file = f,
                                          !.tail = IF list = <<>> THEN NoFile ELSE list[1]]
             ELSE IF u \in S THEN [call[u] EXCEPT !.file = f, !.ok = FALSE] ELSE call[u]]
        /\ reused' = IF S = {} THEN reused \ {f} ELSE reused \cup {f}
  BY DEF serial_open
<1>. DEFINE c == [NoCall EXCEPT !.op = "adding", !.file = f,
                                !.tail = IF list = <<>> THEN NoFile ELSE list[1]]
<1>2. Proper(c) /\ c.op = "adding" /\ c.file = f
  <2>1. (IF list = <<>> THEN NoFile ELSE list[1]) \in Files \cup {NoFile}
    BY <1>0 DEF ListPart
  <2>2. QED
    BY <2>1, FilesAssumption
       DEF Proper, NoCall, CallType, Ops, Masks, Masking, Opening, Adding
<1>. HIDE DEF c
<1>3. \A u \in Threads : call'[u] = IF u = t THEN c ELSE IF u \in S
                                    THEN [call[u] EXCEPT !.file = f, !.ok = FALSE] ELSE call[u]
  BY <1>1 DEF c
<1>4. \A u \in S : /\ u \in Threads /\ (call'[u].op \notin Opening \/ u = t)
                   /\ u # t => Proper(call'[u]) /\ call'[u].op = call[u].op
  <2>1. SUFFICES ASSUME NEW u \in S, u # t
                 PROVE  /\ call'[u].op \notin Opening /\ Proper(call'[u])
                        /\ call'[u].op = call[u].op
    BY <1>1
  <2>2. u \in Threads /\ call[u].op # "none" /\ Proper(call[u]) /\ call[u].file = NoFile
    BY <1>0, <1>1 DEF Idle, CallInv
  <2>3. call[u].op \notin Opening
    BY <2>2 DEF Proper
  <2>. DEFINE d == [call[u] EXCEPT !.file = f, !.ok = FALSE]
  <2>4. d \in CallType /\ d.op = call[u].op /\ d.at = call[u].at
    BY <2>2 DEF Proper, CallType
  <2>. HIDE DEF d
  <2>5. Proper(d)
    BY <2>2, <2>3, <2>4 DEF Proper
  <2>6. call'[u] = d
    BY <1>3, <2>1, <2>2 DEF d
  <2>7. QED
    BY <2>3, <2>4, <2>5, <2>6
<1>5. \A u \in Threads \ {t} : call'[u] = call[u] \/
                                 (Proper(call'[u]) /\ call'[u].op \notin Opening)
  BY <1>3, <1>4
<1>6. call'[t] = c /\ call[t].op = "none" /\ \A u \in Threads : Proper(call'[u])
  BY <1>0, <1>2, <1>3, <1>5 DEF CallInv, serial_open, Idle
<1>7. call' \in [Threads -> CallType]
  <2>1. \A u \in Threads : call'[u] \in CallType
    BY <1>6 DEF Proper
  <2>2. QED
    BY <1>1, <2>1
<1>8. node' = [node EXCEPT ![f] = NewNode] /\ NewNode \in NodeType
  BY DEF serial_open, NewNode, NodeType, Masks
<1>9. \A g \in Files : node'[g] = IF g = f THEN NewNode ELSE node[g]
  BY <1>0, <1>8 DEF NodePart
<1>10. NodePart' /\ ListPart'
  <2>1. node' \in [Files -> NodeType]
    BY <1>0, <1>8 DEF NodePart
  <2>2. Listed \subseteq Files
    BY ListedFiles DEF TInv
  <2>3. QED
    BY <1>0, <1>9, <2>1, <2>2 DEF NodePart, ListPart, ListInv
<1>11. \A u \in Threads \ {t} : call[u].op \in Opening => call[u].file # f
  BY DEF serial_open, Opens, Opening, Adding
<1>12. Unlinked \subseteq Opening /\ \A u \in Threads : call[u].op \in Opening => call[u].file \in Files
  BY <1>0 DEF Unlinked, Opening, Adding, CallInv, Proper, CallType
<1>13. \A u \in Threads : call'[u].op \in Unlinked => call'[u].file \notin Listed'
  <2>1. SUFFICES ASSUME NEW u \in Threads, u # t, call'[u].op \in Unlinked
                 PROVE  call'[u].file \notin Listed'
    BY <1>0, <1>2, <1>6
  <2>2. call'[u] = call[u]
    BY <1>5, <1>12, <2>1
  <2>3. QED
    BY <1>0, <2>1, <2>2 DEF CallInv
<1>14. \A u \in Threads : call'[u].op \in Opening \ {"adding"} => node'[call'[u].file].fd # 0
  <2>1. SUFFICES ASSUME NEW u \in Threads, u # t, call'[u].op \in Opening \ {"adding"}
                 PROVE  node'[call'[u].file].fd # 0
    BY <1>2, <1>6
  <2>2. call'[u] = call[u]
    BY <1>5, <2>1
  <2>3. node'[call[u].file] = node[call[u].file]
    BY <1>9, <1>11, <1>12, <2>1, <2>2
  <2>4. QED
    BY <1>0, <2>1, <2>2, <2>3 DEF CallInv
<1>15. \A u, v \in Threads : u # v /\ call'[u].op \in Opening /\ call'[v].op \in Opening =>
         call'[u].file # call'[v].file
  <2>1. SUFFICES ASSUME NEW u \in Threads, NEW v \in Threads, u # v,
                        call'[u].op \in Opening, call'[v].op \in Opening
                 PROVE  call'[u].file # call'[v].file
    OBVIOUS
  <2>2. (u # t => call'[u] = call[u]) /\ (v # t => call'[v] = call[v])
    BY <1>5, <2>1
  <2>3. CASE u # t /\ v # t
    BY <1>0, <2>1, <2>2, <2>3 DEF CallInv
  <2>4. CASE u = t
    BY <1>2, <1>6, <1>11, <2>1, <2>2, <2>4
  <2>5. CASE v = t
    BY <1>2, <1>6, <1>11, <2>1, <2>2, <2>5
  <2>6. QED
    BY <2>3, <2>4, <2>5
<1>16. CallPart'
  BY <1>6, <1>7, <1>13, <1>14, <1>15 DEF CallPart, CallInv
<1>17. DataPart'
  BY <1>0, <1>1 DEF serial_open, DataPart, queues, ghosts, Masks
<1>18. QED
  BY <1>10, <1>16, <1>17

LEMMA AddingType ==
  ASSUME TInv, NEW t \in Threads
  PROVE  Numbered(t) \/ Walk(t) \/ add_port(t) \/ NextIsNull(t) =>
           ListPart' /\ NodePart' /\ CallPart' /\ DataPart'
<1>. DEFINE f == call[t].file
<1>0. /\ ListPart /\ NodePart /\ CallPart /\ DataPart
      /\ Proper(call[t]) /\ call[t] \in CallType
      /\ call[t].op \in Opening => f \in Files /\ node[f] \in NodeType
  BY Parts, CallOf, FilesAssumption
<1>1. CASE Numbered(t)
  <2>. DEFINE n == get_free_fd
              c == [call[t] EXCEPT !.op = "numbered", !.fd = n]
              d == [node[f] EXCEPT !.fd = n]
  <2>1. n \in Nat \ {0} /\ call[t].op = "adding" /\ f \in Files /\ node[f] \in NodeType
    BY <1>0, <1>1, FreeFd DEF Numbered, Opening, Adding, TInv
  <2>. HIDE DEF n
  <2>2. Proper(c) /\ c.op = "numbered" /\ c.file = f
    BY <1>0, <2>1 DEF Proper, CallType, Ops, Opening, Adding, Masking
  <2>3. d \in NodeType /\ d.fd = n
    BY <2>1 DEF NodeType
  <2>4. node' = [node EXCEPT ![f] = d] /\ UNCHANGED list /\ call' = [call EXCEPT ![t] = c]
    BY <1>0, <1>1, <2>1 DEF Numbered, n, NodePart, CallPart
  <2>. HIDE DEF c, d
  <2>5. /\ NodePart' /\ ListPart' /\ \A g \in Files : node[g].fd # 0 => node'[g].fd # 0
    BY <2>1, <2>3, <2>4, SetNode
  <2>6. node'[f].fd # 0 /\ Listed' = Listed
    BY <1>0, <2>1, <2>3, <2>4 DEF NodePart, Listed
  <2>7. "numbered" \in Opening \cap Unlinked /\ "adding" \in Opening \cap Unlinked
    BY DEF Opening, Unlinked, Adding
  <2>8. CallPart'
    BY <2>1, <2>2, <2>4, <2>5, <2>6, <2>7, SetCall
  <2>9. DataPart'
    BY <1>0, <1>1 DEF Numbered, DataPart, queues, breaks, ghosts, masks
  <2>10. QED
    BY <2>5, <2>8, <2>9
<1>2. CASE Walk(t)
  <2>1. UNCHANGED <<list, node>> /\ call[t].op = "numbered" /\ Listed' = Listed
    BY <1>2 DEF Walk, entries, Listed
  <2>2. call[t].at = "begun" /\ call[t].fd # 0 /\ f \in Files /\ node[f].fd # 0
    BY <1>0, <2>1 DEF Proper, Opening, Adding, Masking, CallPart, CallInv
  <2>3. CallPart'
    <3>1. ASSUME NEW x \in Files \cup {NoFile},
                 call' = [call EXCEPT ![t].op = "linking", ![t].tail = x]
          PROVE  CallPart'
      <4>. DEFINE c == [call[t] EXCEPT !.op = "linking", !.tail = x]
      <4>1. Proper(c) /\ c.op = "linking" /\ c.file = f
        BY <1>0, <2>2, FilesAssumption DEF Proper, CallType, Ops, Opening, Adding, Masking
      <4>2. call' = [call EXCEPT ![t] = c]
        BY <1>0, <3>1 DEF CallPart
      <4>. HIDE DEF c
      <4>3. "linking" \in Opening \cap Unlinked /\ "numbered" \in Opening \cap Unlinked
        BY DEF Opening, Unlinked, Adding
      <4>4. QED
        BY <2>1, <2>2, <4>1, <4>2, <4>3, SetCall
    <3>2. ASSUME call' = [call EXCEPT ![t].op = "crashed"]
          PROVE  CallPart'
      <4>. DEFINE c == [call[t] EXCEPT !.op = "crashed"]
      <4>1. Proper(c) /\ c.op \notin Opening
        BY <1>0, <2>2 DEF Proper, CallType, Ops, Opening, Adding, Masking
      <4>2. call' = [call EXCEPT ![t] = c]
        BY <1>0, <3>2 DEF CallPart
      <4>. HIDE DEF c
      <4>3. QED
        BY <2>1, <4>1, <4>2, GoesOn
    <3>3. \A x \in {list[Len(list)], call[t].tail} : list # <<>> => x \in Files \cup {NoFile}
      BY <1>0 DEF ListPart, CallType
    <3>4. \/ call' = [call EXCEPT ![t].op = "linking", ![t].tail = NoFile]
          \/ /\ list # <<>>
             /\ \E x \in {list[Len(list)], call[t].tail} :
                  call' = [call EXCEPT ![t].op = "linking", ![t].tail = x]
          \/ call' = [call EXCEPT ![t].op = "crashed"]
      BY <1>2 DEF Walk
    <3>5. QED
      BY <3>1, <3>2, <3>3, <3>4
  <2>4. DataPart'
    BY <1>0, <1>2 DEF Walk, DataPart, entries, queues, breaks, ghosts, masks
  <2>5. QED
    BY <2>1, <2>3, <2>4, NodeSame
<1>3. CASE add_port(t) \/ NextIsNull(t)
  <2>. DEFINE c == [call[t] EXCEPT !.op = IF call[t].op = "linking" THEN "linked" ELSE "open"]
  <2>1. UNCHANGED node /\ call[t].op \in {"linking", "linked"} /\ call' = [call EXCEPT ![t] = c]
    BY <1>0, <1>3 DEF add_port, NextIsNull, CallPart
  <2>2. call[t].at = "begun" /\ call[t].fd # 0 /\ f \in Files /\ f # NoFile /\ node[f].fd # 0
    BY <1>0, <2>1, FilesAssumption DEF Proper, Opening, Adding, Masking, CallPart, CallInv
  <2>3. Proper(c) /\ c.op \in {"linked", "open"} /\ c.file = f
    BY <1>0, <2>1, <2>2 DEF Proper, CallType, Ops, Opening, Adding, Masking
  <2>4. ListPart' /\ Listed' \subseteq Listed \cup {f}
    <3>1. CASE UNCHANGED list
      BY <1>0, <3>1 DEF ListPart, ListInv, Listed
    <3>2. CASE list' = <<f>>
      <4>1. DOMAIN list' = {1} /\ list'[1] = f /\ list' \in Seq(Files)
        BY <2>2, <3>2
      <4>2. QED
        BY <4>1 DEF ListPart, ListInv, Listed
    <3>3. CASE add_port(t) /\ call[t].tail \in Listed /\ list' = Append(Upto(call[t].tail), f)
      <4>1. f \notin Listed
        BY <1>0, <3>3 DEF add_port, CallPart, CallInv, Unlinked
      <4>2. QED
        BY <2>2, <3>3, <4>1, LinkList
    <3>4. CASE f \in Listed /\ list' = Upto(f)
      BY <3>4, CutList
    <3>5. QED
      BY <1>3, <3>1, <3>2, <3>3, <3>4 DEF add_port, NextIsNull
  <2>5. NodePart'
    BY <1>0, <2>1, <2>2, <2>4 DEF NodePart
  <2>. HIDE DEF c
  <2>6. {"linking", "linked", "open"} \subseteq Opening /\ {"linked", "open"} \cap Unlinked = {}
    BY DEF Opening, Unlinked, Adding
  <2>7. CallPart'
    BY <2>1, <2>2, <2>3, <2>4, <2>6, SetCall
  <2>8. DataPart'
    <3>1. mingled' \in BOOLEAN
      BY <1>3, MinglesType DEF add_port, NextIsNull
    <3>2. QED
      BY <1>0, <1>3, <3>1 DEF add_port, NextIsNull, DataPart, queues, breaks, masks
  <2>9. QED
    BY <2>4, <2>5, <2>7, <2>8
<1>4. QED
  BY <1>1, <1>2, <1>3

\* An open from the linked entry on, and a close.
LEMMA DeviceOpenType ==
  ASSUME TInv, NEW t \in Threads
  PROVE  CreateFile(t) \/ OpenDone(t) \/ OpenFails(t) \/ (\E p \in held : serial_close(t, p)) =>
           ListPart' /\ NodePart' /\ CallPart' /\ DataPart'
<1>. DEFINE f == call[t].file
<1>0. /\ ListPart /\ NodePart /\ CallPart /\ DataPart
      /\ Proper(call[t]) /\ call[t] \in CallType
      /\ call[t].op = "open" => f \in Files /\ node[f] \in NodeType /\ call[t].fd # 0
  BY Parts, CallOf, FilesAssumption DEF Opening, Proper, Adding
<1>1. CASE CreateFile(t)
  <2>1. PICK h \in {"open", "invalid"} : node' = [node EXCEPT ![f].hComm = h]
    BY <1>1 DEF CreateFile
  <2>. DEFINE n == [node[f] EXCEPT !.hComm = h]
  <2>2. f \in Files /\ n \in NodeType /\ n.fd = node[f].fd
    BY <1>0, <1>1 DEF CreateFile, NodeType
  <2>3. node' = [node EXCEPT ![f] = n] /\ UNCHANGED list /\ UNCHANGED call /\ Listed' = Listed
    BY <1>0, <1>1, <2>1, <2>2 DEF CreateFile, NodePart, Listed
  <2>. HIDE DEF n
  <2>4. NodePart' /\ ListPart' /\ \A g \in Files : node[g].fd # 0 => node'[g].fd # 0
    BY <2>2, <2>3, SetNode
  <2>5. CallPart'
    BY <1>0, <2>3, <2>4, SetCalls DEF CallPart
  <2>6. DataPart'
    BY <1>0, <1>1, <2>2 DEF CreateFile, DataPart, queues, breaks, ghosts, masks, Masks
  <2>7. QED
    BY <2>4, <2>5, <2>6
<1>2. CASE OpenDone(t)
  <2>1. UNCHANGED <<list, node>> /\ Return(t) /\ f \in Files /\ call[t].fd \in Nat \ {0}
    BY <1>0, <1>2 DEF OpenDone, CallType
  <2>2. Listed' = Listed
    BY <2>1 DEF Listed
  <2>3. CallPart'
    BY <2>1, <2>2, ReturnCall
  <2>4. DataPart'
    BY <1>0, <1>2, <2>1 DEF OpenDone, DataPart, queues, breaks, ghosts, masks
  <2>5. QED
    BY <2>1, <2>3, <2>4, NodeSame
<1>3. CASE OpenFails(t)
  <2>1. ListPart' /\ NodePart' /\ gap' \in BOOLEAN /\ skipped' \in BOOLEAN /\ Listed' \subseteq Listed
    BY <1>3, UnlinkType DEF OpenFails
  <2>2. CallPart' /\ handle' \subseteq Files /\ brk' \in [Files -> BOOLEAN] /\ stuck' \subseteq Files
    BY <1>3, <2>1, FreedCalls DEF OpenFails
  <2>3. mingled' \in BOOLEAN
    BY <1>3, MinglesType DEF OpenFails
  <2>4. DataPart'
    BY <1>0, <1>3, <2>1, <2>2, <2>3 DEF OpenFails, DataPart, queues, masks
  <2>5. QED
    BY <2>1, <2>2, <2>4
<1>4. ASSUME NEW p \in held, serial_close(t, p)
      PROVE  ListPart' /\ NodePart' /\ CallPart' /\ DataPart'
  <2>1. ListPart' /\ NodePart' /\ gap' \in BOOLEAN /\ skipped' \in BOOLEAN /\ Listed' \subseteq Listed
    BY <1>4, UnlinkType DEF serial_close
  <2>2. CallPart' /\ handle' \subseteq Files /\ brk' \in [Files -> BOOLEAN] /\ stuck' \subseteq Files
    BY <1>4, <2>1, FreedCalls DEF serial_close
  <2>3. mingled' \in BOOLEAN
    BY <1>4, MinglesType DEF serial_close
  <2>4. DataPart'
    BY <1>0, <1>4, <2>1, <2>2, <2>3 DEF serial_close, DataPart, queues, masks
  <2>5. QED
    BY <2>1, <2>2, <2>4
<1>5. QED
  BY <1>1, <1>2, <1>3, <1>4

\* The calls that change the event mask, the look at the register among them.
LEMMA MaskType ==
  ASSUME TInv, NEW t \in Threads
  PROVE  /\ \A p \in held : (\E m \in {{"RXCHAR"}, {"RXCHAR", "TXEMPTY"}} : termios_setflags(t, p, m))
              \/ serial_write(t, p) \/ tcdrain(t, p) \/ tcflush(t, p) \/ TIOCSERGETLSR(t, p) =>
              ListPart' /\ NodePart' /\ CallPart' /\ DataPart'
         /\ TxHappened(t) \/ ReturnsEarly(t) \/ ChangeMask(t) \/ SetCommMask(t) \/ RestoreFlag(t)
              \/ StoreTx(t) => ListPart' /\ NodePart' /\ CallPart' /\ DataPart'
<1>. DEFINE f == call[t].file
<1>0. /\ ListPart /\ NodePart /\ CallPart /\ DataPart
      /\ Proper(call[t]) /\ call[t] \in CallType
      /\ f # NoFile => f \in Files /\ node[f] \in NodeType
  BY Parts, CallOf
<1>1. ASSUME NEW g \in Files, NEW n \in NodeType, n.fd = node[g].fd,
             node' = [node EXCEPT ![g] = n], UNCHANGED list
      PROVE  /\ NodePart' /\ ListPart' /\ Listed' = Listed
             /\ \A h \in Files : node[h].fd # 0 => node'[h].fd # 0
  BY <1>1, SetNode DEF Listed
<1>2. ASSUME UNCHANGED <<list, node>>
      PROVE  /\ NodePart' /\ ListPart' /\ Listed' = Listed
             /\ \A h \in Files : node[h].fd # 0 => node'[h].fd # 0
  BY <1>2, NodeSame DEF Listed
<1>3. ASSUME NEW p \in held, NEW m \in {{"RXCHAR"}, {"RXCHAR", "TXEMPTY"}}, termios_setflags(t, p, m)
      PROVE  ListPart' /\ NodePart' /\ CallPart' /\ DataPart'
  <2>. DEFINE g == find_port(p.fd)
              c == [NoCall EXCEPT !.op = "setflags", !.old = m]
              n == [node[g] EXCEPT !.flag = {}]
  <2>1. Enter(t, p, c) /\ g \in Files /\ UNCHANGED list
    BY <1>3, FindPort DEF termios_setflags, Enter, TInv
  <2>2. c \in CallType /\ c.op = "setflags" /\ c.at = "begun"
    BY NoCallIs DEF CallType, Ops, Masks
  <2>3. n \in NodeType /\ n.fd = node[g].fd /\ node' = [node EXCEPT ![g] = n]
    BY <1>0, <1>3, <2>1 DEF termios_setflags, NodePart, NodeType, Masks
  <2>. HIDE DEF c, n
  <2>4. NodePart' /\ ListPart' /\ \A h \in Files : node[h].fd # 0 => node'[h].fd # 0
    BY <1>1, <2>1, <2>3
  <2>5. CallPart'
    BY <2>1, <2>2, <2>4, EnterCall DEF Opening, Adding
  <2>6. DataPart'
    BY <1>0, <1>3, <2>1 DEF termios_setflags, DataPart, queues, breaks, ghosts, Masks
  <2>7. QED
    BY <2>4, <2>5, <2>6
<1>4. ASSUME NEW p \in held, NEW op \in {"write", "drain", "flush"},
             Enter(t, p, [NoCall EXCEPT !.op = op, !.old = node[find_port(p.fd)].flag]),
             UNCHANGED list, \A h \in Files : node[h].fd # 0 => node'[h].fd # 0
      PROVE  CallPart' /\ find_port(p.fd) \in Files
  <2>. DEFINE c == [NoCall EXCEPT !.op = op, !.old = node[find_port(p.fd)].flag]
  <2>1. find_port(p.fd) \in Files
    BY <1>4, FindPort DEF Enter, TInv
  <2>2. node[find_port(p.fd)].flag \in Masks
    BY <1>0, <2>1 DEF NodePart, NodeType
  <2>3. c \in CallType /\ c.op = op /\ c.at = "begun"
    BY <2>2, NoCallIs DEF CallType, Ops, Masking
  <2>. HIDE DEF c
  <2>4. CallPart'
    BY <1>4, <2>3, EnterCall DEF Opening, Adding, c
  <2>5. QED
    BY <2>1, <2>4
<1>5. ASSUME NEW p \in held, serial_write(t, p)
      PROVE  ListPart' /\ NodePart' /\ CallPart' /\ DataPart'
  <2>1. UNCHANGED <<list, node>>
    BY <1>5 DEF serial_write, entries
  <2>2. CallPart' /\ find_port(p.fd) \in Files
    BY <1>2, <1>4, <1>5, <2>1 DEF serial_write
  <2>3. DataPart'
    BY <1>0, <1>5, <2>2 DEF serial_write, Copies, DataPart, entries, breaks, ghosts
  <2>4. QED
    BY <1>2, <2>1, <2>2, <2>3
<1>6. ASSUME NEW p \in held, tcdrain(t, p)
      PROVE  ListPart' /\ NodePart' /\ CallPart' /\ DataPart'
  <2>1. UNCHANGED <<list, node>>
    BY <1>6 DEF tcdrain, entries
  <2>2. CallPart' /\ find_port(p.fd) \in Files
    BY <1>2, <1>4, <1>6, <2>1 DEF tcdrain
  <2>3. DataPart'
    BY <1>0, <1>6, <2>2 DEF tcdrain, Copies, DataPart, entries, queues, breaks, ghosts
  <2>4. QED
    BY <1>2, <2>1, <2>2, <2>3
<1>7. ASSUME NEW p \in held, tcflush(t, p)
      PROVE  ListPart' /\ NodePart' /\ CallPart' /\ DataPart'
  <2>. DEFINE g == find_port(p.fd)
              n == [node[g] EXCEPT !.tx = TRUE]
  <2>1. g \in Files /\ UNCHANGED list
    BY <1>7, FindPort DEF tcflush, Enter, TInv
  <2>2. n \in NodeType /\ n.fd = node[g].fd /\ node' = [node EXCEPT ![g] = n]
    BY <1>0, <1>7, <2>1 DEF tcflush, NodePart, NodeType
  <2>. HIDE DEF n
  <2>3. NodePart' /\ ListPart' /\ \A h \in Files : node[h].fd # 0 => node'[h].fd # 0
    BY <1>1, <2>1, <2>2
  <2>4. CallPart'
    BY <1>4, <1>7, <2>1, <2>3 DEF tcflush
  <2>5. DataPart'
    BY <1>0, <1>7, <2>1 DEF tcflush, Copies, DataPart, queues, breaks, ghosts
  <2>6. QED
    BY <2>3, <2>4, <2>5
<1>8. ASSUME NEW p \in held, TIOCSERGETLSR(t, p)
      PROVE  ListPart' /\ NodePart' /\ CallPart' /\ DataPart'
  <2>. DEFINE c == [NoCall EXCEPT !.op = "look"]
  <2>1. UNCHANGED <<list, node>> /\ Enter(t, p, c)
    BY <1>8 DEF TIOCSERGETLSR, entries
  <2>2. c \in CallType /\ c.op = "look" /\ c.at = "begun"
    BY NoCallIs DEF CallType, Ops
  <2>. HIDE DEF c
  <2>3. CallPart'
    BY <1>2, <2>1, <2>2, EnterCall DEF Opening, Adding
  <2>4. DataPart'
    BY <1>0, <1>8 DEF TIOCSERGETLSR, DataPart, entries, queues, breaks, ghosts, masks
  <2>5. QED
    BY <1>2, <2>1, <2>3, <2>4
<1>9. CASE TxHappened(t)
  <2>1. UNCHANGED <<list, node>> /\ f \in Files /\ call[t].op = "look"
    BY <1>0, <1>9 DEF TxHappened, entries
  <2>2. CallPart'
    <3>1. CASE Return(t)
      BY <1>2, <2>1, <3>1, ReturnCall
    <3>2. CASE call' = [call EXCEPT ![t].op = "lsr", ![t].old = node[f].flag]
      <4>. DEFINE c == [call[t] EXCEPT !.op = "lsr", !.old = node[f].flag]
      <4>1. node[f].flag \in Masks /\ call[t].at = "begun"
        BY <1>0, <2>1 DEF NodePart, NodeType, Proper, Masking
      <4>2. Proper(c) /\ c.op \notin Opening
        BY <1>0, <2>1, <4>1 DEF Proper, CallType, Ops, Opening, Adding, Masking
      <4>3. call' = [call EXCEPT ![t] = c]
        BY <1>0, <3>2 DEF CallPart
      <4>. HIDE DEF c
      <4>4. QED
        BY <1>2, <2>1, <4>2, <4>3, GoesOn
    <3>3. QED
      BY <1>9, <3>1, <3>2 DEF TxHappened
  <2>3. DataPart'
    BY <1>0, <1>9, <2>1 DEF TxHappened, Copies, DataPart, entries, queues, breaks, ghosts, masks
  <2>4. QED
    BY <1>2, <2>1, <2>2, <2>3
<1>10. CASE ReturnsEarly(t)
  <2>1. UNCHANGED <<list, node>> /\ Return(t)
    BY <1>10 DEF ReturnsEarly, entries
  <2>2. CallPart'
    BY <1>2, <2>1, ReturnCall
  <2>3. DataPart'
    BY <1>0, <1>10 DEF ReturnsEarly, DataPart, entries, queues, breaks, ghosts, masks
  <2>4. QED
    BY <1>2, <2>1, <2>2, <2>3
<1>11. CASE ChangeMask(t)
  <2>. DEFINE n == [node[f] EXCEPT !.flag = Changed(call[t].op, @, call[t].old)]
              c == [call[t] EXCEPT !.at = "changed"]
  <2>1. f \in Files /\ UNCHANGED list /\ call[t].op \in Masking \cup {"setflags"}
    BY <1>0, <1>11 DEF ChangeMask
  <2>2. Changed(call[t].op, node[f].flag, call[t].old) \in Masks
    <3>1. node[f].flag \in Masks /\ call[t].old \in Masks
      BY <1>0, <2>1 DEF NodePart, NodeType, CallType
    <3>2. QED
      BY <3>1 DEF Changed, Masks
  <2>3. n \in NodeType /\ n.fd = node[f].fd /\ node' = [node EXCEPT ![f] = n]
    BY <1>0, <1>11, <2>1, <2>2 DEF ChangeMask, NodePart, NodeType
  <2>4. Proper(c) /\ c.op \notin Opening /\ call' = [call EXCEPT ![t] = c]
    BY <1>0, <1>11, <2>1 DEF ChangeMask, Proper, CallType, Opening, Adding, Masking, CallPart
  <2>. HIDE DEF n, c
  <2>5. NodePart' /\ ListPart' /\ Listed' = Listed
        /\ \A h \in Files : node[h].fd # 0 => node'[h].fd # 0
    BY <1>1, <2>1, <2>3
  <2>6. CallPart'
    BY <2>4, <2>5, GoesOn
  <2>7. DataPart'
    BY <1>0, <1>11, <2>1 DEF ChangeMask, DataPart, breaks, ghosts, masks
  <2>8. QED
    BY <2>5, <2>6, <2>7
<1>12. CASE SetCommMask(t)
  <2>1. UNCHANGED <<list, node>> /\ f \in Files /\ call[t].at = "changed"
    BY <1>0, <1>12 DEF SetCommMask
  <2>2. CallPart'
    <3>1. CASE Return(t)
      BY <1>2, <2>1, <3>1, ReturnCall
    <3>2. CASE call[t].op # "setflags" /\ call' = [call EXCEPT ![t].at = "set"]
      <4>. DEFINE c == [call[t] EXCEPT !.at = "set"]
      <4>1. Proper(c) /\ c.op \notin Opening
        BY <1>0, <2>1, <3>2 DEF Proper, CallType, Opening, Adding, Masking
      <4>2. call' = [call EXCEPT ![t] = c]
        BY <1>0, <3>2 DEF CallPart
      <4>. HIDE DEF c
      <4>3. QED
        BY <1>2, <2>1, <4>1, <4>2, GoesOn
    <3>3. QED
      BY <1>12, <3>1, <3>2 DEF SetCommMask
  <2>3. drv' \in [Files -> Masks]
    <3>1. node[f].flag \in Masks
      BY <1>0, <2>1 DEF NodePart, NodeType
    <3>2. QED
      BY <1>0, <1>12, <2>1, <3>1 DEF SetCommMask, DataPart
  <2>4. DataPart'
    BY <1>0, <1>12, <2>3 DEF SetCommMask, DataPart, queues, breaks, ghosts, masks
  <2>5. QED
    BY <1>2, <2>1, <2>2, <2>4
<1>13. CASE RestoreFlag(t)
  <2>. DEFINE n == [node[f] EXCEPT !.flag = call[t].old]
  <2>1. f \in Files /\ UNCHANGED list /\ call[t].at = "set"
    BY <1>0, <1>13 DEF RestoreFlag
  <2>2. n \in NodeType /\ n.fd = node[f].fd /\ node' = [node EXCEPT ![f] = n]
    BY <1>0, <1>13, <2>1 DEF RestoreFlag, FlagAfter, NodePart, NodeType, CallType
  <2>. HIDE DEF n
  <2>3. NodePart' /\ ListPart' /\ Listed' = Listed
        /\ \A h \in Files : node[h].fd # 0 => node'[h].fd # 0
    BY <1>1, <2>1, <2>2
  <2>4. CallPart'
    <3>1. CASE Return(t)
      BY <2>3, <3>1, ReturnCall
    <3>2. CASE call' = [call EXCEPT ![t].at = "restored"]
      <4>. DEFINE c == [call[t] EXCEPT !.at = "restored"]
      <4>1. Proper(c) /\ c.op \notin Opening
        BY <1>0, <2>1 DEF Proper, CallType, Opening, Adding, Masking
      <4>2. call' = [call EXCEPT ![t] = c]
        BY <1>0, <3>2 DEF CallPart
      <4>. HIDE DEF c
      <4>3. QED
        BY <2>3, <4>1, <4>2, GoesOn
    <3>3. QED
      BY <1>13, <3>1, <3>2 DEF RestoreFlag
  <2>5. DataPart'
    BY <1>0, <1>13 DEF RestoreFlag, DataPart, queues, breaks, ghosts, masks
  <2>6. QED
    BY <2>3, <2>4, <2>5
<1>14. CASE StoreTx(t)
  <2>. DEFINE b == (call[t].op # "lsr")
              n == [node[f] EXCEPT !.tx = b]
  <2>1. f \in Files /\ UNCHANGED list /\ Return(t) /\ b \in BOOLEAN
    BY <1>0, <1>14 DEF StoreTx
  <2>. HIDE DEF b
  <2>2. n \in NodeType /\ n.fd = node[f].fd /\ node' = [node EXCEPT ![f] = n]
    BY <1>0, <1>14, <2>1 DEF StoreTx, NodePart, NodeType, b
  <2>. HIDE DEF n
  <2>3. NodePart' /\ ListPart' /\ Listed' = Listed
        /\ \A h \in Files : node[h].fd # 0 => node'[h].fd # 0
    BY <1>1, <2>1, <2>2
  <2>4. CallPart'
    BY <2>1, <2>3, ReturnCall
  <2>5. due' \in [Files -> BOOLEAN]
    <3>. DEFINE d == (call[t].op = "write" \/ (due[f] /\ (call[t].op = "lsr" => outq[f])))
    <3>1. d \in BOOLEAN
      BY Zenon
    <3>2. due' = [due EXCEPT ![f] = d]
      BY <1>14 DEF StoreTx
    <3>3. QED
      BY <1>0, <3>1, <3>2 DEF DataPart
  <2>6. DataPart'
    BY <1>0, <1>14, <2>1, <2>5 DEF StoreTx, DataPart, queues, breaks, ghosts, masks
  <2>7. QED
    BY <2>3, <2>4, <2>6
<1>15. ASSUME NEW p \in held
       PROVE  (\E m \in {{"RXCHAR"}, {"RXCHAR", "TXEMPTY"}} : termios_setflags(t, p, m))
                \/ serial_write(t, p) \/ tcdrain(t, p) \/ tcflush(t, p) \/ TIOCSERGETLSR(t, p) =>
                ListPart' /\ NodePart' /\ CallPart' /\ DataPart'
  BY <1>3, <1>5, <1>6, <1>7, <1>8
<1>16. QED
  BY <1>9, <1>10, <1>11, <1>12, <1>13, <1>14, <1>15

\* Reads, breaks, the probe, and returns from freed entries.
LEMMA RestType ==
  ASSUME TInv, NEW t \in Threads
  PROVE  /\ \A p \in held : sendBreak(t, p) \/ (\E n \in Sizes : BeginRead(t, p, n)) =>
              ListPart' /\ NodePart' /\ CallPart' /\ DataPart'
         /\ \A f \in Files : serial_test(t, f) => ListPart' /\ NodePart' /\ CallPart' /\ DataPart'
         /\ TestDone(t) \/ Dangling(t) \/ ReadWaits(t) \/ serial_read(t) \/ tcsendbreak(t) =>
              ListPart' /\ NodePart' /\ CallPart' /\ DataPart'
<1>. DEFINE f == call[t].file
<1>0. /\ ListPart /\ NodePart /\ CallPart /\ DataPart
      /\ Proper(call[t]) /\ call[t] \in CallType
      /\ f # NoFile => f \in Files /\ node[f] \in NodeType
  BY Parts, CallOf
<1>1. ASSUME UNCHANGED entries
      PROVE  /\ NodePart' /\ ListPart' /\ Listed' = Listed /\ UNCHANGED <<list, node>>
             /\ \A h \in Files : node[h].fd # 0 => node'[h].fd # 0
  BY <1>1, NodeSame DEF Listed, entries
<1>2. ASSUME NEW p \in held, sendBreak(t, p)
      PROVE  ListPart' /\ NodePart' /\ CallPart' /\ DataPart'
  <2>. DEFINE g == find_port(p.fd)
  <2>1. PICK works \in BOOLEAN :
          /\ Enter(t, p, [NoCall EXCEPT !.op = "break", !.ok = works])
          /\ brk' = [brk EXCEPT ![g] = @ \/ works]
    BY <1>2 DEF sendBreak
  <2>. DEFINE c == [NoCall EXCEPT !.op = "break", !.ok = works]
  <2>2. c \in CallType /\ c.op = "break" /\ c.at = "begun"
    BY NoCallIs DEF CallType, Ops
  <2>. HIDE DEF c
  <2>3. UNCHANGED <<list, node>> /\ UNCHANGED entries
    BY <1>2 DEF sendBreak, entries
  <2>4. CallPart' /\ g \in Files
    BY <1>1, <2>1, <2>2, <2>3, EnterCall DEF Opening, Adding, c
  <2>5. brk' \in [Files -> BOOLEAN]
    <3>1. (brk[g] \/ works) \in BOOLEAN
      BY Zenon
    <3>2. QED
      BY <1>0, <2>1, <2>4, <3>1 DEF DataPart
  <2>6. DataPart'
    BY <1>0, <1>2, <2>4, <2>5 DEF sendBreak, DataPart, entries, queues, ghosts, masks
  <2>7. QED
    BY <1>1, <2>3, <2>4, <2>6
<1>3. ASSUME NEW p \in held, NEW n \in Sizes, BeginRead(t, p, n)
      PROVE  ListPart' /\ NodePart' /\ CallPart' /\ DataPart'
  <2>. DEFINE c == [NoCall EXCEPT !.op = "wait", !.size = n]
  <2>1. c \in CallType /\ c.op = "wait" /\ c.at = "begun"
    BY NoCallIs, BoundsAssumption DEF CallType, Ops
  <2>2. UNCHANGED entries /\ Enter(t, p, c)
    BY <1>3 DEF BeginRead
  <2>. HIDE DEF c
  <2>3. CallPart'
    BY <1>1, <2>1, <2>2, EnterCall DEF Opening, Adding
  <2>4. DataPart'
    BY <1>0, <1>3 DEF BeginRead, DataPart, entries, queues, breaks, ghosts, masks
  <2>5. QED
    BY <1>1, <2>2, <2>3, <2>4
<1>4. ASSUME NEW g \in Files, serial_test(t, g)
      PROVE  ListPart' /\ NodePart' /\ CallPart' /\ DataPart'
  <2>. DEFINE c == [NoCall EXCEPT !.op = "test", !.file = g]
  <2>1. Proper(c) /\ c.op \notin Opening
    BY NoCallIs DEF Proper, CallType, Ops, Opening, Adding, Masking
  <2>2. UNCHANGED entries /\ call' = [call EXCEPT ![t] = c]
    BY <1>4 DEF serial_test
  <2>. HIDE DEF c
  <2>3. CallPart'
    BY <1>1, <2>1, <2>2, GoesOn
  <2>4. DataPart'
    BY <1>0, <1>4 DEF serial_test, DataPart, entries, queues, breaks, ghosts, masks
  <2>5. QED
    BY <1>1, <2>2, <2>3, <2>4
<1>5. CASE TestDone(t) \/ Dangling(t)
  <2>1. UNCHANGED entries /\ Return(t)
    BY <1>5 DEF TestDone, Dangling
  <2>2. CallPart'
    BY <1>1, <2>1, ReturnCall
  <2>3. DataPart'
    BY <1>0, <1>5 DEF TestDone, Dangling, DataPart, entries, queues, breaks, ghosts, masks
  <2>4. QED
    BY <1>1, <2>1, <2>2, <2>3
<1>6. CASE ReadWaits(t)
  <2>1. UNCHANGED entries /\ call[t].op = "wait" /\ call[t].at = "begun"
    BY <1>0, <1>6 DEF ReadWaits, Proper, Masking
  <2>2. CallPart'
    <3>1. CASE Return(t)
      BY <1>1, <2>1, <3>1, ReturnCall
    <3>2. ASSUME NEW b \in BOOLEAN,
                 call' = [call EXCEPT ![t] = [call[t] EXCEPT !.op = "read", !.ok = b]]
          PROVE  CallPart'
      <4>. DEFINE c == [call[t] EXCEPT !.op = "read", !.ok = b]
      <4>1. Proper(c) /\ c.op \notin Opening
        BY <1>0, <2>1 DEF Proper, CallType, Ops, Opening, Adding, Masking
      <4>. HIDE DEF c
      <4>2. QED
        BY <1>1, <2>1, <3>2, <4>1, GoesOn DEF c
    <3>3. /\ [call[t] EXCEPT !.op = "read"] = [call[t] EXCEPT !.op = "read", !.ok = call[t].ok]
          /\ call[t].ok \in BOOLEAN
      BY <1>0 DEF CallType
    <3>4. \/ call' = [call EXCEPT ![t] = [call[t] EXCEPT !.op = "read"]]
          \/ call' = [call EXCEPT ![t] = [call[t] EXCEPT !.op = "read", !.ok = FALSE]]
          \/ Return(t)
      BY <1>0, <1>6 DEF ReadWaits, CallPart
    <3>5. QED
      BY <3>1, <3>2, <3>3, <3>4
  <2>3. DataPart'
    BY <1>0, <1>6 DEF ReadWaits, DataPart, entries, queues, breaks, ghosts, masks
  <2>4. QED
    BY <1>1, <2>1, <2>2, <2>3
<1>7. CASE serial_read(t)
  <2>1. PICK n \in 0 .. call[t].size, again \in BOOLEAN :
          /\ n <= inq[f] /\ inq' = [inq EXCEPT ![f] = @ - n]
          /\ again => n \in 1 .. call[t].size - 1
          /\ call' = [u \in Threads |->
               CASE u = t -> IF again THEN [call[t] EXCEPT !.size = @ - n] ELSE NoCall
                 [] u # t -> IF call[u].op = "read" /\ call[u].file = f /\ n > 0
                             THEN [call[u] EXCEPT !.ok = FALSE] ELSE call[u]]
    BY <1>7 DEF serial_read
  <2>2. UNCHANGED entries /\ f \in Files /\ call[t].op = "read"
    BY <1>0, <1>7 DEF serial_read
  <2>3. \A u \in Threads : call'[u] = call[u] \/ (Proper(call'[u]) /\ call'[u].op \notin Opening)
    <3>1. SUFFICES ASSUME NEW u \in Threads, call'[u] # call[u]
                   PROVE  Proper(call'[u]) /\ call'[u].op \notin Opening
      OBVIOUS
    <3>2. Proper(call[u]) /\ call[u] \in CallType
      BY CallOf
    <3>3. CASE call'[u] = NoCall
      BY <3>3, NoCallIs DEF Opening, Adding
    <3>4. CASE u = t /\ again /\ call'[u] = [call[t] EXCEPT !.size = @ - n]
      <4>1. call[t].size - n \in Nat
        BY <1>0, <2>1 DEF CallType
      <4>2. QED
        BY <1>0, <2>2, <3>4, <4>1 DEF Proper, CallType, Opening, Adding
    <3>5. CASE call[u].op = "read" /\ call'[u] = [call[u] EXCEPT !.ok = FALSE]
      BY <3>2, <3>5 DEF Proper, CallType, Opening, Adding
    <3>6. QED
      BY <2>1, <3>1, <3>3, <3>4, <3>5
  <2>4. call' \in [Threads -> CallType]
    <3>1. \A u \in Threads : call'[u] \in CallType
      BY <2>3, CallOf DEF Proper
    <3>2. QED
      BY <2>1, <3>1
  <2>5. CallPart'
    BY <1>1, <2>2, <2>3, <2>4, SetCalls
  <2>6. inq' \in [Files -> 0 .. MaxQueue]
    <3>1. inq[f] - n \in 0 .. MaxQueue
      BY <1>0, <2>1, <2>2, BoundsAssumption DEF DataPart, CallType
    <3>2. QED
      BY <1>0, <2>1, <3>1 DEF DataPart
  <2>7. DataPart'
    BY <1>0, <1>7, <2>6 DEF serial_read, DataPart, entries, breaks, ghosts, masks
  <2>8. QED
    BY <1>1, <2>2, <2>5, <2>7
<1>8. CASE tcsendbreak(t)
  <2>1. UNCHANGED entries /\ Return(t) /\ f \in Files
    BY <1>0, <1>8 DEF tcsendbreak
  <2>2. CallPart'
    BY <1>1, <2>1, ReturnCall
  <2>3. brk' \in [Files -> BOOLEAN] /\ stuck' \subseteq Files
    BY <1>0, <1>8, <2>1 DEF tcsendbreak, ClearCommBreak, DataPart
  <2>4. DataPart'
    BY <1>0, <1>8, <2>3 DEF tcsendbreak, DataPart, entries, queues, ghosts, masks
  <2>5. QED
    BY <1>1, <2>1, <2>2, <2>4
<1>9. QED
  BY <1>2, <1>3, <1>4, <1>5, <1>6, <1>7, <1>8

LEMMA DeviceType == TInv /\ Device => ListPart' /\ NodePart' /\ CallPart' /\ DataPart'
<1> SUFFICES ASSUME TInv, Device PROVE ListPart' /\ NodePart' /\ CallPart' /\ DataPart'
  OBVIOUS
<1>0. ListPart /\ NodePart /\ CallPart /\ DataPart /\ MaxQueue \in Nat
  BY Parts, BoundsAssumption
<1>1. PICK p \in held :
        \/ outq' = [outq EXCEPT ![p.file] = FALSE] /\ UNCHANGED inq
        \/ inq[p.file] < MaxQueue /\ inq' = [inq EXCEPT ![p.file] = @ + 1] /\ UNCHANGED outq
  BY DEF Device
<1>2. p.file \in Files
  BY <1>0 DEF DataPart
<1>3. outq' \in [Files -> BOOLEAN] /\ inq' \in [Files -> 0 .. MaxQueue]
  <2>1. outq \in [Files -> BOOLEAN] /\ inq \in [Files -> 0 .. MaxQueue]
    BY <1>0 DEF DataPart
  <2>2. CASE outq' = [outq EXCEPT ![p.file] = FALSE] /\ UNCHANGED inq
    BY <2>1, <2>2
  <2>3. CASE inq[p.file] < MaxQueue /\ inq' = [inq EXCEPT ![p.file] = @ + 1] /\ UNCHANGED outq
    <3>1. inq[p.file] + 1 \in 0 .. MaxQueue
      BY <1>0, <1>2, <2>1, <2>3
    <3>2. QED
      BY <2>1, <2>3, <3>1
  <2>4. QED
    BY <1>1, <2>2, <2>3
<1>4. UNCHANGED <<list, node, call>>
  BY DEF Device, entries
<1>5. DataPart'
  BY <1>0, <1>3 DEF Device, DataPart, entries, breaks, ghosts, masks
<1>6. Listed' = Listed
  BY <1>4 DEF Listed
<1>7. CallPart'
  BY <1>0, <1>4, <1>6 DEF CallPart, CallInv
<1>8. QED
  BY <1>4, <1>5, <1>7, NodeSame

\* Each step is one of those above, or none.
LEMMA StepCases ==
  ASSUME [Next]_vars
  PROVE  \/ UNCHANGED vars
         \/ Device
         \/ \E t \in Threads :
              \/ \E f \in Files : serial_open(t, f) \/ serial_test(t, f)
              \/ \E p \in held :
                   \/ serial_close(t, p)
                   \/ \E m \in {{"RXCHAR"}, {"RXCHAR", "TXEMPTY"}} : termios_setflags(t, p, m)
                   \/ serial_write(t, p) \/ tcdrain(t, p) \/ tcflush(t, p) \/ TIOCSERGETLSR(t, p)
                   \/ sendBreak(t, p)
                   \/ \E n \in Sizes : BeginRead(t, p, n)
              \/ Numbered(t) \/ Walk(t) \/ add_port(t) \/ NextIsNull(t)
              \/ CreateFile(t) \/ OpenDone(t) \/ OpenFails(t) \/ TestDone(t)
              \/ Dangling(t) \/ ReturnsEarly(t)
              \/ TxHappened(t) \/ ChangeMask(t) \/ SetCommMask(t) \/ RestoreFlag(t) \/ StoreTx(t)
              \/ ReadWaits(t) \/ serial_read(t) \/ tcsendbreak(t)
BY DEF Next, Calls, Steps

LEMMA TypeStep == TInv /\ [Next]_vars => TInv'
<1> SUFFICES ASSUME TInv, [Next]_vars PROVE TInv'
  OBVIOUS
<1>1. calls' \in 0 .. MaxCalls
  <2>1. calls \in 0 .. MaxCalls /\ MaxCalls \in Nat
    BY Parts, BoundsAssumption
  <2>2. UNCHANGED calls \/ (calls < MaxCalls /\ calls' = calls + 1)
    BY DEF Next, vars
  <2>3. QED
    BY <2>1, <2>2
<1>2. ListPart' /\ NodePart' /\ CallPart' /\ DataPart'
  <2>1. CASE UNCHANGED vars
    <3>1. ListPart /\ NodePart /\ CallPart /\ DataPart
      BY Parts
    <3>2. UNCHANGED <<list, node, call>>
      BY <2>1 DEF vars, entries
    <3>3. Listed' = Listed
      BY <3>2 DEF Listed
    <3>4. CallPart'
      BY <3>1, <3>2, <3>3 DEF CallPart, CallInv
    <3>5. DataPart'
      BY <2>1, <3>1 DEF vars, DataPart, entries, queues, breaks, ghosts, masks
    <3>6. QED
      BY <3>2, <3>4, <3>5, NodeSame
  <2>2. QED
    BY <2>1, StepCases, DeviceType, OpenType, AddingType, DeviceOpenType, MaskType, RestType
<1>3. QED
  BY <1>1, <1>2, PartsNext

LEMMA TypeInit == Init => TInv
<1> SUFFICES ASSUME Init PROVE TInv
  OBVIOUS
<1>1. list = <<>> /\ Listed = {} /\ list \in Seq(Files) /\ DOMAIN list = {}
  BY DEF Init, Listed
<1>2. NewNode \in NodeType /\ 0 \in 0 .. MaxCalls /\ 0 \in 0 .. MaxQueue /\ {} \in Masks
  BY BoundsAssumption DEF NewNode, NodeType, Masks
<1>3. ListPart /\ NodePart
  BY <1>1, <1>2 DEF ListPart, NodePart, ListInv, Init
<1>4. CallPart
  <2>1. call = [t \in Threads |-> NoCall]
    BY DEF Init
  <2>2. NoCall.op \notin Opening \cup Unlinked
    BY NoCallIs DEF Opening, Unlinked, Adding
  <2>3. QED
    BY <2>1, <2>2, NoCallIs DEF CallPart, CallInv
<1>5. DataPart
  BY <1>2 DEF Init, DataPart
<1>6. calls \in 0 .. MaxCalls
  BY <1>2 DEF Init
<1>7. QED
  BY <1>3, <1>4, <1>5, <1>6, Parts

\* The port list, the entries and their numbers, and every call in progress keep their
\* types, whatever calls overlap.
THEOREM TypeCorrect == Spec => []TypeOK
<1>1. Spec => []TInv
  BY TypeInit, TypeStep, PTL DEF Spec
<1>2. TInv => TypeOK
  BY DEF TInv
<1>3. QED
  BY <1>1, <1>2, PTL

-----------------------------------------------------------------------------
(* Reads.                                                                  *)

\* The steps of a thread that leave the calls of the others alone.
Alone(t) ==
  \/ \E f \in Files : serial_test(t, f)
  \/ \E p \in held :
       \/ \E m \in {{"RXCHAR"}, {"RXCHAR", "TXEMPTY"}} : termios_setflags(t, p, m)
       \/ serial_write(t, p) \/ tcdrain(t, p) \/ tcflush(t, p) \/ TIOCSERGETLSR(t, p)
       \/ sendBreak(t, p)
       \/ \E n \in Sizes : BeginRead(t, p, n)
  \/ Numbered(t) \/ Walk(t) \/ add_port(t) \/ NextIsNull(t)
  \/ CreateFile(t) \/ OpenDone(t) \/ TestDone(t)
  \/ Dangling(t) \/ ReturnsEarly(t)
  \/ TxHappened(t) \/ ChangeMask(t) \/ SetCommMask(t) \/ RestoreFlag(t) \/ StoreTx(t)
  \/ ReadWaits(t) \/ tcsendbreak(t)

LEMMA Divided ==
  ASSUME [Next]_vars
  PROVE  \/ UNCHANGED vars
         \/ Device
         \/ \E t \in Threads :
              \/ \E f \in Files : serial_open(t, f)
              \/ OpenFails(t) \/ \E p \in held : serial_close(t, p)
              \/ serial_read(t) \/ Alone(t)
BY StepCases DEF Alone

LEMMA CallsType == TInv => call \in [Threads -> CallType]
BY Parts DEF CallPart

LEMMA AloneCalls ==
  ASSUME TInv, NEW t \in Threads, Alone(t)
  PROVE  \A u \in Threads \ {t} : call'[u] = call[u]
<1>0. call \in [Threads -> CallType]
  BY CallsType
<1>1. \A u \in Threads \ {t} : \A c : [call EXCEPT ![t] = c][u] = call[u]
  BY <1>0
<1>2. QED
  BY <1>0 DEF Alone, serial_test, termios_setflags, serial_write, tcdrain, tcflush, TIOCSERGETLSR,
     sendBreak, BeginRead, Numbered, Walk, add_port, NextIsNull, CreateFile, OpenDone, TestDone,
     Dangling, ReturnsEarly, TxHappened, ChangeMask, SetCommMask, RestoreFlag, StoreTx,
     ReadWaits, tcsendbreak, Enter, Return

\* What an open makes of the calls: memory it gets may be that of a freed entry.
LEMMA OpenCalls ==
  ASSUME TInv, NEW t \in Threads, NEW f \in Files, serial_open(t, f)
  PROVE  /\ call[t] = NoCall \/ call[t].op = "none"
         /\ call'[t].op = "adding" /\ call'[t].file = f /\ call'[t].at = "begun"
         /\ \A u \in Threads \ {t} :
              \/ call'[u] = call[u]
              \/ /\ call[u].op \notin Opening /\ call[u].file = NoFile
                 /\ call'[u].op = call[u].op /\ call'[u].at = call[u].at
                 /\ call'[u].file = f /\ ~call'[u].ok /\ f \in reused'
         /\ \A u \in Threads : call[u].file = f => call[u].op = "test"
         /\ \A g \in Files \ {f} : (g \in reused' <=> g \in reused) /\ node'[g] = node[g]
         /\ node'[f] = NewNode /\ UNCHANGED list
<1>0. call \in [Threads -> CallType] /\ node \in [Files -> NodeType]
  BY CallsType, Parts DEF NodePart
<1>1. PICK S \in SUBSET {u \in Threads : ~Idle(u) /\ call[u].file = NoFile} :
       /\ call' = [u \in Threads |->
            IF u = t THEN [NoCall EXCEPT !.op = "adding", !.file = f,
                                         !.tail = IF list = <<>> THEN NoFile ELSE list[1]]
            ELSE IF u \in S THEN [call[u] EXCEPT !.file = f, !.ok = FALSE] ELSE call[u]]
       /\ reused' = IF S = {} THEN reused \ {f} ELSE reused \cup {f}
  BY DEF serial_open
<1>2. call'[t].op = "adding" /\ call'[t].file = f /\ call'[t].at = "begun"
  BY <1>1 DEF NoCall
<1>3. ASSUME NEW u \in Threads \ {t}
      PROVE  \/ call'[u] = call[u]
             \/ /\ call[u].op \notin Opening /\ call[u].file = NoFile
                /\ call'[u].op = call[u].op /\ call'[u].at = call[u].at
                /\ call'[u].file = f /\ ~call'[u].ok /\ f \in reused'
  <2>1. Proper(call[u]) /\ call[u] \in CallType
    BY CallOf
  <2>2. CASE u \in S
    <3>1. call'[u] = [call[u] EXCEPT !.file = f, !.ok = FALSE] /\ f \in reused'
      BY <1>1, <2>2
    <3>2. call[u].file = NoFile /\ call[u].op \notin Opening
      BY <2>1, <2>2 DEF Proper
    <3>3. QED
      BY <2>1, <3>1, <3>2 DEF CallType
  <2>3. QED
    BY <1>1, <2>2
<1>4. \A g \in Files \ {f} : (g \in reused' <=> g \in reused) /\ node'[g] = node[g]
  BY <1>0, <1>1 DEF serial_open
<1>5. QED
  BY <1>0, <1>2, <1>3, <1>4 DEF serial_open, Opens, Idle

\* What taking an entry off the list makes of the calls.
LEMMA FreeCalls ==
  ASSUME TInv, NEW t \in Threads, OpenFails(t) \/ \E p \in held : serial_close(t, p)
  PROVE  /\ \A u \in Threads :
              \/ call'[u] = call[u]
              \/ u = t /\ call[u].op = "open" /\ call'[u] = NoCall
              \/ /\ call[u].file \in Listed \ Listed' /\ call[u].op \notin Opening \cup {"test"}
                 /\ call'[u].file = NoFile /\ call'[u].op = call[u].op
         /\ \A u \in Threads : call'[u].file \in Listed \ Listed' => call'[u].op \in Opening \cup {"test"}
         /\ \A f \in Files \ (Listed \ Listed') : brk'[f] = brk[f] /\ (f \in stuck' <=> f \in stuck)
         /\ \A f \in Listed \ Listed' : node[f].hComm = "open" => ~brk'[f]
         /\ \A f \in Listed \ Listed' :
              node[f].hComm # "open" => (brk'[f] => brk[f]) /\ (f \in stuck' <=> f \in stuck)
         /\ UNCHANGED <<node, drv, queues, doubled, masks, due, raced, reused>>
         /\ Listed' \subseteq Listed
<1>0. call \in [Threads -> CallType] /\ brk \in [Files -> BOOLEAN] /\ Listed \subseteq Files
  BY CallsType, ListedFiles, Parts DEF DataPart, TInv
<1>1. PICK c \in {call, [call EXCEPT ![t] = NoCall]} :
        Frees(c) /\ (c = call \/ call[t].op = "open")
  BY DEF OpenFails, serial_close
<1>2. \A u \in Threads : c[u] = call[u] \/ (u = t /\ call[u].op = "open" /\ c[u] = NoCall)
  BY <1>0, <1>1
<1>3. /\ call' = [u \in Threads |->
            IF c[u].file \in Listed \ Listed' /\ c[u].op \notin Adding \cup {"open", "test"}
            THEN [c[u] EXCEPT !.file = NoFile] ELSE c[u]]
      /\ brk' = [f \in Files |-> brk[f] /\ f \notin {g \in Listed \ Listed' : node[g].hComm = "open"}]
      /\ stuck' = stuck \ {g \in Listed \ Listed' : node[g].hComm = "open"}
  BY <1>1 DEF Frees, Listed
<1>4. NoFile \notin Listed
  BY <1>0, FilesAssumption
<1>5. ASSUME NEW u \in Threads
      PROVE  /\ \/ call'[u] = call[u]
                \/ u = t /\ call[u].op = "open" /\ call'[u] = NoCall
                \/ /\ call[u].file \in Listed \ Listed' /\ call[u].op \notin Opening \cup {"test"}
                   /\ call'[u].file = NoFile /\ call'[u].op = call[u].op
             /\ call'[u].file \in Listed \ Listed' => call'[u].op \in Opening \cup {"test"}
  <2>1. /\ c[u].file \in Listed \ Listed' /\ c[u].op \notin Opening \cup {"test"} =>
             c[u] = call[u] /\ call'[u].op = call[u].op /\ call'[u].file = NoFile
        /\ ~ (c[u].file \in Listed \ Listed' /\ c[u].op \notin Opening \cup {"test"}) => call'[u] = c[u]
    BY <1>0, <1>2, <1>3, <1>4, NoCallIs DEF Opening, CallType
  <2>2. QED
    BY <1>2, <1>4, <2>1
<1>6. \A f \in Files : f \notin {g \in Listed \ Listed' : node[g].hComm = "open"} => brk'[f] = brk[f]
  BY <1>0, <1>3
<1>7. \A f \in Files : f \in {g \in Listed \ Listed' : node[g].hComm = "open"} => brk'[f] = FALSE
  BY <1>0, <1>3
<1>8. Listed' \subseteq Listed
  BY UnlinkType DEF OpenFails, serial_close
<1>9. UNCHANGED <<node, drv, queues, doubled, masks, due, raced, reused>>
  BY DEF OpenFails, serial_close
<1>10. QED
  BY <1>0, <1>3, <1>5, <1>6, <1>7, <1>8, <1>9

RInv == TInv /\ ReadWhole

\* What a call is when it begins.
LEMMA Entered ==
  ASSUME TInv, NEW t \in Threads, NEW p \in held, NEW c \in CallType, Enter(t, p, c)
  PROVE  /\ call'[t].op = c.op /\ call'[t].at = c.at /\ call'[t].old = c.old
         /\ call'[t].size = c.size /\ call'[t].ok = c.ok
         /\ call'[t].file = find_port(p.fd) /\ find_port(p.fd) \in Files
         /\ find_port(p.fd) \in Listed /\ call[t].op = "none" /\ call[t].file = NoFile
<1>. DEFINE d == [c EXCEPT !.file = find_port(p.fd), !.fd = p.fd]
<1>1. call' = [call EXCEPT ![t] = d] /\ call[t].op = "none" /\ find_port(p.fd) # NoFile
  BY DEF Enter, Idle
<1>2. d.op = c.op /\ d.at = c.at /\ d.old = c.old /\ d.size = c.size /\ d.ok = c.ok
      /\ d.file = find_port(p.fd)
  BY DEF CallType
<1>. HIDE DEF d
<1>3. call'[t] = d
  BY <1>1, CallsType
<1>4. find_port(p.fd) \in Files /\ find_port(p.fd) \in Listed
  BY <1>1, FindPort DEF TInv
<1>5. call[t].file = NoFile
  BY <1>1, CallOf DEF Proper
<1>6. QED
  BY <1>1, <1>2, <1>3, <1>4, <1>5

\* The calls on a port as they begin.
LEMMA Enters ==
  ASSUME TInv, NEW t \in Threads, NEW p \in held
  PROVE  /\ \A m \in {{"RXCHAR"}, {"RXCHAR", "TXEMPTY"}} : termios_setflags(t, p, m) =>
              call'[t].op = "setflags" /\ call'[t].old = m
         /\ \A op \in {"write", "drain", "flush"} :
              Enter(t, p, [NoCall EXCEPT !.op = op, !.old = node[find_port(p.fd)].flag]) =>
                call'[t].op = op /\ call'[t].old = node[find_port(p.fd)].flag
         /\ TIOCSERGETLSR(t, p) => call'[t].op = "look"
         /\ sendBreak(t, p) => call'[t].op = "break"
         /\ \A n \in Sizes : BeginRead(t, p, n) => call'[t].op = "wait"
         /\ \/ \E m \in {{"RXCHAR"}, {"RXCHAR", "TXEMPTY"}} : termios_setflags(t, p, m)
            \/ \E op \in {"write", "drain", "flush"} :
                 Enter(t, p, [NoCall EXCEPT !.op = op, !.old = node[find_port(p.fd)].flag])
            \/ TIOCSERGETLSR(t, p)
            \/ sendBreak(t, p)
            \/ \E n \in Sizes : BeginRead(t, p, n)
            => /\ call'[t].file = find_port(p.fd) /\ call'[t].at = "begun"
               /\ find_port(p.fd) \in Files /\ find_port(p.fd) \in Listed
               /\ call[t].op = "none" /\ call[t].file = NoFile
<1>. DEFINE f == find_port(p.fd)
            E == /\ call'[t].file = f /\ call'[t].at = "begun" /\ f \in Files /\ f \in Listed
                 /\ call[t].op = "none" /\ call[t].file = NoFile
<1>1. ASSUME NEW m \in {{"RXCHAR"}, {"RXCHAR", "TXEMPTY"}}, termios_setflags(t, p, m)
      PROVE  call'[t].op = "setflags" /\ call'[t].old = m /\ E
  <2>1. Enter(t, p, [NoCall EXCEPT !.op = "setflags", !.old = m]) /\ "setflags" \in Ops /\ m \in Masks
    BY <1>1 DEF termios_setflags, Ops, Masks
  <2>. DEFINE c == [NoCall EXCEPT !.op = "setflags", !.old = m]
  <2>8. c \in CallType /\ c.op = "setflags" /\ c.old = m /\ c.at = "begun"
    BY <2>1, NoCallIs DEF CallType
  <2>9. Enter(t, p, c)
    BY <2>1
  <2>. HIDE DEF c
  <2>10. QED
    BY <2>8, <2>9, Entered
<1>2. ASSUME NEW op \in {"write", "drain", "flush"},
             Enter(t, p, [NoCall EXCEPT !.op = op, !.old = node[f].flag])
      PROVE  call'[t].op = op /\ call'[t].old = node[f].flag /\ E
  <2>1. f \in Files
    BY <1>2, FindPort DEF Enter, TInv
  <2>2. node[f].flag \in Masks /\ op \in Ops
    BY <2>1, Parts DEF NodePart, NodeType, Ops, Masking
  <2>. DEFINE c == [NoCall EXCEPT !.op = op, !.old = node[f].flag]
  <2>8. c \in CallType /\ c.op = op /\ c.old = node[f].flag /\ c.at = "begun"
    BY <1>2, <2>2, NoCallIs DEF CallType
  <2>. HIDE DEF c
  <2>9. QED
    BY <1>2, <2>2, <2>8, Entered DEF c
<1>3. ASSUME TIOCSERGETLSR(t, p)
      PROVE  call'[t].op = "look" /\ E
  <2>1. Enter(t, p, [NoCall EXCEPT !.op = "look"]) /\ "look" \in Ops
    BY <1>3 DEF TIOCSERGETLSR, Ops
  <2>. DEFINE c == [NoCall EXCEPT !.op = "look"]
  <2>8. c \in CallType /\ c.op = "look" /\ c.at = "begun"
    BY <2>1, NoCallIs DEF CallType
  <2>. HIDE DEF c
  <2>9. QED
    BY <2>1, <2>8, Entered DEF c
<1>4. ASSUME sendBreak(t, p)
      PROVE  call'[t].op = "break" /\ E
  <2>1. PICK b \in BOOLEAN : Enter(t, p, [NoCall EXCEPT !.op = "break", !.ok = b])
    BY <1>4 DEF sendBreak
  <2>2. "break" \in Ops
    BY DEF Ops
  <2>. DEFINE c == [NoCall EXCEPT !.op = "break", !.ok = b]
  <2>8. c \in CallType /\ c.op = "break" /\ c.at = "begun"
    BY <2>1, <2>2, NoCallIs DEF CallType
  <2>. HIDE DEF c
  <2>9. QED
    BY <2>1, <2>2, <2>8, Entered DEF c
<1>5. ASSUME NEW n \in Sizes, BeginRead(t, p, n)
      PROVE  call'[t].op = "wait" /\ E
  <2>1. Enter(t, p, [NoCall EXCEPT !.op = "wait", !.size = n]) /\ "wait" \in Ops /\ n \in Nat
    BY <1>5, BoundsAssumption DEF BeginRead, Ops
  <2>. DEFINE c == [NoCall EXCEPT !.op = "wait", !.size = n]
  <2>8. c \in CallType /\ c.op = "wait" /\ c.at = "begun"
    BY <2>1, NoCallIs DEF CallType
  <2>. HIDE DEF c
  <2>9. QED
    BY <2>1, <2>8, Entered DEF c
<1>6. QED
  BY <1>1, <1>2, <1>3, <1>4, <1>5

\* Neither an open nor a close nor any step but a wait that ends begins a read.
LEMMA NoReadBegins ==
  ASSUME TInv, NEW t \in Threads, Alone(t), ~ReadWaits(t)
  PROVE  call'[t].op # "read" /\ UNCHANGED inq
<1>0. call[t] \in CallType /\ call \in [Threads -> CallType]
  BY CallOf, CallsType
<1>1. UNCHANGED inq
  BY DEF Alone, serial_test, termios_setflags, serial_write, tcdrain, tcflush, TIOCSERGETLSR,
     sendBreak, BeginRead, Numbered, Walk, add_port, NextIsNull, CreateFile, OpenDone, TestDone,
     Dangling, ReturnsEarly, TxHappened, ChangeMask, SetCommMask, RestoreFlag, StoreTx,
     tcsendbreak, queues
<1>2. call'[t].op # "read"
  <2>1. CASE \/ \E f \in Files : serial_test(t, f)
             \/ \E p \in held :
                  \/ \E m \in {{"RXCHAR"}, {"RXCHAR", "TXEMPTY"}} : termios_setflags(t, p, m)
                  \/ serial_write(t, p) \/ tcdrain(t, p) \/ tcflush(t, p) \/ TIOCSERGETLSR(t, p)
                  \/ sendBreak(t, p)
                  \/ \E n \in Sizes : BeginRead(t, p, n)
    BY <1>0, <2>1, Enters DEF serial_test, serial_write, tcdrain, tcflush, NoCall
  <2>2. CASE Numbered(t) \/ Walk(t) \/ add_port(t) \/ NextIsNull(t) \/ CreateFile(t)
               \/ OpenDone(t) \/ TestDone(t) \/ Dangling(t) \/ ReturnsEarly(t) \/ tcsendbreak(t)
    <3>1. CASE Numbered(t) \/ add_port(t) \/ NextIsNull(t)
      BY <1>0, <3>1 DEF Numbered, add_port, NextIsNull, CallType
    <3>2. CASE Walk(t)
      <4>1. \A x : [call EXCEPT ![t].op = "linking", ![t].tail = x][t].op = "linking"
        BY <1>0 DEF CallType
      <4>2. [call EXCEPT ![t].op = "crashed"][t].op = "crashed"
        BY <1>0 DEF CallType
      <4>3. QED
        BY <3>2, <4>1, <4>2 DEF Walk
    <3>3. CASE CreateFile(t)
      BY <3>3 DEF CreateFile
    <3>4. CASE OpenDone(t) \/ TestDone(t) \/ Dangling(t) \/ ReturnsEarly(t) \/ tcsendbreak(t)
      BY <1>0, <3>4, NoCallIs DEF OpenDone, TestDone, Dangling, ReturnsEarly, tcsendbreak, Return
    <3>5. QED
      BY <2>2, <3>1, <3>2, <3>3, <3>4
  <2>3. CASE TxHappened(t) \/ ChangeMask(t) \/ SetCommMask(t) \/ RestoreFlag(t) \/ StoreTx(t)
    <3>1. call[t].at # "begun" => call[t].op \in Masking \cup {"setflags"}
      BY CallOf DEF Proper
    <3>2. \A x : [call EXCEPT ![t].at = x][t].op = call[t].op
      BY <1>0 DEF CallType
    <3>3. Return(t) => call'[t].op = "none"
      BY <1>0, NoCallIs DEF Return
    <3>4. CASE TxHappened(t)
      <4>1. \A y : [call EXCEPT ![t].op = "lsr", ![t].old = y][t].op = "lsr"
        BY <1>0 DEF CallType
      <4>2. QED
        BY <3>3, <3>4, <4>1 DEF TxHappened
    <3>5. CASE ChangeMask(t)
      BY <3>2, <3>5 DEF ChangeMask, Masking
    <3>6. CASE SetCommMask(t) \/ RestoreFlag(t) \/ StoreTx(t)
      <4>1. call[t].op # "read"
        BY <3>1, <3>6 DEF SetCommMask, RestoreFlag, StoreTx, Masking
      <4>2. QED
        <5>1. CASE SetCommMask(t)
          <6>1. Return(t) \/ call' = [call EXCEPT ![t].at = "set"]
            BY <5>1 DEF SetCommMask
          <6>2. QED
            BY <3>2, <3>3, <4>1, <6>1
        <5>2. CASE RestoreFlag(t)
          <6>1. Return(t) \/ call' = [call EXCEPT ![t].at = "restored"]
            BY <5>2 DEF RestoreFlag
          <6>2. QED
            BY <3>2, <3>3, <4>1, <6>1
        <5>3. CASE StoreTx(t)
          BY <3>3, <5>3 DEF StoreTx
        <5>4. QED
          BY <3>6, <5>1, <5>2, <5>3
    <3>7. QED
      BY <2>3, <3>4, <3>5, <3>6
  <2>4. QED
    BY <2>1, <2>2, <2>3 DEF Alone
<1>3. QED
  BY <1>1, <1>2

LEMMA ReadStep == RInv /\ [Next]_vars => ReadWhole'
<1> SUFFICES ASSUME RInv, [Next]_vars PROVE ReadWhole'
  OBVIOUS
<1>0. /\ TInv /\ ReadWhole /\ call \in [Threads -> CallType] /\ inq \in [Files -> 0 .. MaxQueue]
      /\ MaxQueue \in Nat
  BY CallsType, Parts, BoundsAssumption DEF RInv, DataPart
<1>1. CASE UNCHANGED vars
  BY <1>0, <1>1 DEF vars, queues, ReadWhole
<1>2. CASE Device
  <2>1. UNCHANGED call /\ \A f \in Files : inq'[f] >= inq[f]
    BY <1>0, <1>2 DEF Device
  <2>2. \A t \in Threads : call[t].file # NoFile => call[t].file \in Files
    BY <1>0 DEF CallType
  <2>3. SUFFICES ASSUME NEW t \in Threads,
                        call[t].op = "read", call[t].ok, call[t].size > 1, call[t].file # NoFile
                 PROVE  inq'[call[t].file] >= call[t].size
    BY <2>1 DEF ReadWhole
  <2>4. call[t].file \in Files /\ call[t].size \in Nat
    BY <1>0, <2>2, <2>3 DEF CallType
  <2>5. inq[call[t].file] >= call[t].size /\ inq'[call[t].file] >= inq[call[t].file]
    BY <1>0, <2>1, <2>3, <2>4 DEF ReadWhole
  <2>6. inq[call[t].file] \in Int /\ inq'[call[t].file] \in Int
    BY <1>0, <1>2, <2>4, DeviceType DEF DataPart
  <2>7. QED
    BY <2>4, <2>5, <2>6
<1>3. ASSUME NEW t \in Threads, NEW f \in Files, serial_open(t, f)
      PROVE  ReadWhole'
  <2>1. UNCHANGED inq
    BY <1>3 DEF serial_open, queues
  <2>2. \A u \in Threads : call'[u].op = "read" /\ call'[u].ok => call'[u] = call[u]
    BY <1>0, <1>3, OpenCalls
  <2>3. QED
    BY <1>0, <2>1, <2>2 DEF ReadWhole
<1>4. ASSUME NEW t \in Threads, OpenFails(t) \/ \E p \in held : serial_close(t, p)
      PROVE  ReadWhole'
  <2>1. UNCHANGED inq
    BY <1>0, <1>4, FreeCalls DEF queues
  <2>2. \A u \in Threads : call'[u].op = "read" /\ call'[u].file # NoFile => call'[u] = call[u]
    BY <1>0, <1>4, FreeCalls, NoCallIs
  <2>3. QED
    BY <1>0, <2>1, <2>2 DEF ReadWhole
<1>5. ASSUME NEW t \in Threads, ReadWaits(t)
      PROVE  ReadWhole'
  <2>1. UNCHANGED inq /\ \A u \in Threads \ {t} : call'[u] = call[u]
    BY <1>0, <1>5, AloneCalls DEF Alone, ReadWaits, queues
  <2>2. call'[t].op = "read" /\ call'[t].ok /\ call'[t].size > 1 /\ call'[t].file # NoFile =>
          inq[call'[t].file] >= call'[t].size
    BY <1>0, <1>5, NoCallIs DEF ReadWaits, EnoughThere, Return, CallType
  <2>3. QED
    BY <1>0, <2>1, <2>2 DEF ReadWhole
<1>6. ASSUME NEW t \in Threads, Alone(t), ~ReadWaits(t)
      PROVE  ReadWhole'
  BY <1>0, <1>6, AloneCalls, NoReadBegins DEF ReadWhole
<1>7. ASSUME NEW t \in Threads, serial_read(t)
      PROVE  ReadWhole'
  <2>. DEFINE f == call[t].file
  <2>1. PICK n \in 0 .. call[t].size, again \in BOOLEAN :
          /\ n <= inq[f] /\ inq' = [inq EXCEPT ![f] = @ - n]
          /\ again => n \in 1 .. call[t].size - 1
          /\ call' = [u \in Threads |->
               CASE u = t -> IF again THEN [call[t] EXCEPT !.size = @ - n] ELSE NoCall
                 [] u # t -> IF call[u].op = "read" /\ call[u].file = f /\ n > 0
                             THEN [call[u] EXCEPT !.ok = FALSE] ELSE call[u]]
    BY <1>7 DEF serial_read
  <2>2. f \in Files /\ call[t] \in CallType /\ call[t].op = "read" /\ inq[f] \in 0 .. MaxQueue
    BY <1>0, <1>7, CallOf DEF serial_read
  <2>3. /\ inq'[f] = inq[f] - n /\ \A g \in Files \ {f} : inq'[g] = inq[g]
        /\ n \in Int /\ call[t].size \in Nat /\ inq[f] \in Nat
    BY <1>0, <2>1, <2>2 DEF CallType
  <2>4. SUFFICES ASSUME NEW u \in Threads,
                        call'[u].op = "read", call'[u].ok, call'[u].size > 1, call'[u].file # NoFile
                 PROVE  inq'[call'[u].file] >= call'[u].size
    BY DEF ReadWhole
  <2>5. CASE u = t
    <3>1. again /\ call'[u] = [call[t] EXCEPT !.size = @ - n]
      BY <2>1, <2>4, <2>5, NoCallIs
    <3>2. call[t].ok /\ call[t].size > 1 /\ call'[u].size = call[t].size - n /\ call'[u].file = f
      BY <2>1, <2>2, <2>3, <2>4, <3>1 DEF CallType
    <3>3. inq[f] >= call[t].size
      BY <1>0, <2>2, <3>2, FilesAssumption DEF ReadWhole
    <3>4. QED
      BY <2>3, <3>2, <3>3
  <2>6. CASE u # t
    <3>1. call'[u] = call[u] /\ (call[u].file = f => n = 0)
      BY <1>0, <2>1, <2>3, <2>4, <2>6 DEF CallType
    <3>2. call[u].file \in Files /\ inq[call[u].file] >= call[u].size
      BY <1>0, <2>4, <3>1 DEF ReadWhole, CallType
    <3>3. QED
      BY <2>3, <3>1, <3>2
  <2>7. QED
    BY <2>5, <2>6
<1>8. QED
  BY <1>1, <1>2, <1>3, <1>4, <1>5, <1>6, <1>7, Divided

\* A read whose wait has seen all it asked for finds it, part by part, for any number of
\* readers, writers and closes of other and the same ports.
THEOREM ReadsWhole == Spec => []ReadWhole
<1>1. Init => RInv
  BY TypeInit, NoCallIs DEF Init, RInv, ReadWhole
<1>2. RInv /\ [Next]_vars => RInv'
  BY TypeStep, ReadStep DEF RInv
<1>3. RInv => ReadWhole
  BY DEF RInv
<1>4. QED
  BY <1>1, <1>2, <1>3, PTL DEF Spec

-----------------------------------------------------------------------------
(* Breaks.                                                                 *)

\* Every break has a break to end it, unless ending it has failed; a break that works is
\* on an open handle, and alone.
BreakOf(f) ==
  /\ brk[f] => f \in stuck \/ \E t \in Breaking(f) : call[t].ok
  /\ \A t \in Breaking(f) : call[t].ok => node[f].hComm = "open"
  /\ f \notin doubled \cup reused =>
       \A t, u \in Breaking(f) : t = u /\ (call[t].ok => brk[f])
BreakInv == \A f \in Files : BreakOf(f)

\* A step that touches no break of a file keeps what BreakInv says of it.
LEMMA BreakSame ==
  ASSUME NEW f, BreakOf(f),
         \A u \in Threads : \/ u \in Breaking(f) /\ u \in Breaking(f)' /\ (call'[u].ok <=> call[u].ok)
                            \/ u \notin Breaking(f) /\ u \notin Breaking(f)',
         node[f].hComm = "open" => node'[f].hComm = "open",
         brk'[f] <=> brk[f], f \in stuck => f \in stuck',
         f \notin doubled' \cup reused' => f \notin doubled \cup reused
  PROVE  BreakOf(f)'
<1>1. Breaking(f)' = Breaking(f)
  BY DEF Breaking, On
<1>2. \A u \in Breaking(f) : call'[u].ok <=> call[u].ok
  BY DEF Breaking, On
<1>3. QED
  BY <1>1, <1>2 DEF BreakOf

\* The steps of calls that are no breaks.
LEMMA NoBreak ==
  ASSUME TInv, NEW t \in Threads, Alone(t), ~tcsendbreak(t), ~ \E p \in held : sendBreak(t, p)
  PROVE  /\ call'[t].op # "break" /\ (call[t].op # "break" \/ call[t].file = NoFile)
         /\ UNCHANGED <<breaks, reused>>
         /\ \A f \in Files : node[f].hComm = "open" => node'[f].hComm = "open"
<1>0. /\ call[t] \in CallType /\ call \in [Threads -> CallType] /\ node \in [Files -> NodeType]
      /\ call[t].at # "begun" => call[t].op \in Masking \cup {"setflags"}
  BY CallOf, CallsType, Parts DEF NodePart, Proper
<1>1. UNCHANGED <<breaks, reused>>
  BY DEF Alone, serial_test, termios_setflags, serial_write, tcdrain, tcflush, TIOCSERGETLSR,
     BeginRead, Numbered, Walk, add_port, NextIsNull, CreateFile, OpenDone, TestDone,
     Dangling, ReturnsEarly, TxHappened, ChangeMask, SetCommMask, RestoreFlag, StoreTx, ReadWaits
<1>2. \A f \in Files : node[f].hComm = "open" => node'[f].hComm = "open"
  <2>1. CASE UNCHANGED node
    BY <2>1
  <2>2. CASE CreateFile(t)
    BY <1>0, <2>2 DEF CreateFile
  <2>3. ASSUME NEW g \in Files, NEW x,
               \/ node' = [node EXCEPT ![g] = [@ EXCEPT !.fd = x]]
               \/ node' = [node EXCEPT ![g] = [@ EXCEPT !.flag = x]]
               \/ node' = [node EXCEPT ![g] = [@ EXCEPT !.tx = x]]
        PROVE  \A f \in Files : node[f].hComm = "open" => node'[f].hComm = "open"
    BY <1>0, <2>3 DEF NodeType
  <2>4. ASSUME NEW p \in held, \/ \E m \in {{"RXCHAR"}, {"RXCHAR", "TXEMPTY"}} : termios_setflags(t, p, m)
                               \/ tcflush(t, p)
        PROVE  \A f \in Files : node[f].hComm = "open" => node'[f].hComm = "open"
    <3>1. find_port(p.fd) \in Files
      BY <2>4, FindPort DEF termios_setflags, tcflush, Enter, TInv
    <3>2. \/ node' = [node EXCEPT ![find_port(p.fd)] = [@ EXCEPT !.flag = {}]]
          \/ node' = [node EXCEPT ![find_port(p.fd)] = [@ EXCEPT !.tx = TRUE]]
      BY <2>4 DEF termios_setflags, tcflush
    <3>3. QED
      BY <2>3, <3>1, <3>2
  <2>5. CASE Numbered(t) \/ ChangeMask(t) \/ RestoreFlag(t) \/ StoreTx(t)
    <3>1. call[t].file \in Files
      BY <2>5, CallOf DEF Numbered, ChangeMask, RestoreFlag, StoreTx, Opening, Adding
    <3>2. \E x : \/ node' = [node EXCEPT ![call[t].file] = [@ EXCEPT !.fd = x]]
                 \/ node' = [node EXCEPT ![call[t].file] = [@ EXCEPT !.flag = x]]
                 \/ node' = [node EXCEPT ![call[t].file] = [@ EXCEPT !.tx = x]]
      BY <2>5 DEF Numbered, ChangeMask, RestoreFlag, StoreTx
    <3>3. QED
      BY <2>3, <3>1, <3>2
  <2>6. QED
    BY <2>1, <2>2, <2>4, <2>5 DEF Alone, serial_test, serial_write, tcdrain, TIOCSERGETLSR,
       BeginRead, Walk, add_port, NextIsNull, OpenDone, TestDone,
       Dangling, ReturnsEarly, TxHappened, SetCommMask, ReadWaits, entries
<1>3. call[t].op # "break" \/ call[t].file = NoFile
  <2>1. ASSUME NEW p \in held,
               \/ \E m \in {{"RXCHAR"}, {"RXCHAR", "TXEMPTY"}} : termios_setflags(t, p, m)
               \/ serial_write(t, p) \/ tcdrain(t, p) \/ tcflush(t, p) \/ TIOCSERGETLSR(t, p)
               \/ \E n \in Sizes : BeginRead(t, p, n)
        PROVE  call[t].op = "none"
    BY <2>1 DEF termios_setflags, serial_write, tcdrain, tcflush, TIOCSERGETLSR,
       BeginRead, Enter, Idle
  <2>2. QED
    BY <1>0, <2>1 DEF Alone, serial_test, Numbered, Walk, add_port, NextIsNull, CreateFile, OpenDone,
       TestDone, Dangling, ReturnsEarly, TxHappened, ChangeMask, SetCommMask, RestoreFlag, StoreTx,
       ReadWaits, Idle, Masking
<1>4. call'[t].op # "break"
  <2>1. CASE \/ \E f \in Files : serial_test(t, f)
             \/ \E p \in held :
                  \/ \E m \in {{"RXCHAR"}, {"RXCHAR", "TXEMPTY"}} : termios_setflags(t, p, m)
                  \/ serial_write(t, p) \/ tcdrain(t, p) \/ tcflush(t, p) \/ TIOCSERGETLSR(t, p)
                  \/ \E n \in Sizes : BeginRead(t, p, n)
    BY <1>0, <2>1, Enters DEF serial_test, serial_write, tcdrain, tcflush, NoCall
  <2>2. Return(t) => call'[t].op = "none"
    BY <1>0, NoCallIs DEF Return
  <2>3. CASE Numbered(t) \/ add_port(t) \/ NextIsNull(t)
    BY <1>0, <2>3 DEF Numbered, add_port, NextIsNull, CallType
  <2>4. CASE Walk(t)
    <3>1. \A x : [call EXCEPT ![t].op = "linking", ![t].tail = x][t].op = "linking"
      BY <1>0 DEF CallType
    <3>2. [call EXCEPT ![t].op = "crashed"][t].op = "crashed"
      BY <1>0 DEF CallType
    <3>3. QED
      BY <2>4, <3>1, <3>2 DEF Walk
  <2>5. CASE CreateFile(t)
    BY <2>5 DEF CreateFile
  <2>6. CASE OpenDone(t) \/ TestDone(t) \/ Dangling(t) \/ ReturnsEarly(t)
    BY <2>2, <2>6 DEF OpenDone, TestDone, Dangling, ReturnsEarly
  <2>7. CASE TxHappened(t)
    <3>1. \A y : [call EXCEPT ![t].op = "lsr", ![t].old = y][t].op = "lsr"
      BY <1>0 DEF CallType
    <3>2. QED
      BY <2>2, <2>7, <3>1 DEF TxHappened
  <2>8. CASE ChangeMask(t) \/ SetCommMask(t) \/ RestoreFlag(t) \/ StoreTx(t)
    <3>1. call[t].op # "break"
      BY <1>0, <2>8 DEF ChangeMask, SetCommMask, RestoreFlag, StoreTx, Masking
    <3>2. \A x : [call EXCEPT ![t].at = x][t].op = call[t].op
      BY <1>0 DEF CallType
    <3>3. Return(t) \/ \E x \in {"changed", "set", "restored"} : call' = [call EXCEPT ![t].at = x]
      BY <2>8 DEF ChangeMask, SetCommMask, RestoreFlag, StoreTx
    <3>4. QED
      BY <2>2, <3>1, <3>2, <3>3
  <2>9. CASE ReadWaits(t)
    <3>1. /\ [call EXCEPT ![t].op = "read"][t].op = "read"
          /\ [call EXCEPT ![t].op = "read", ![t].ok = FALSE][t].op = "read"
      BY <1>0 DEF CallType
    <3>2. QED
      BY <2>2, <2>9, <3>1 DEF ReadWaits
  <2>10. QED
    BY <2>1, <2>3, <2>4, <2>5, <2>6, <2>7, <2>8, <2>9 DEF Alone
<1>5. QED
  BY <1>1, <1>2, <1>3, <1>4

BInv == TInv /\ BreakInv

LEMMA BreakStep == BInv /\ [Next]_vars => BreakInv'
<1> SUFFICES ASSUME BInv, [Next]_vars, NEW f \in Files PROVE BreakOf(f)'
  BY DEF BreakInv
<1>0. /\ TInv /\ BreakOf(f) /\ call \in [Threads -> CallType] /\ node \in [Files -> NodeType]
      /\ brk \in [Files -> BOOLEAN] /\ f # NoFile
  BY CallsType, Parts, FilesAssumption DEF BInv, BreakInv, NodePart, DataPart
<1>1. CASE UNCHANGED vars
  BY <1>0, <1>1 DEF vars, breaks, entries, BreakOf, Breaking, On
<1>2. CASE Device
  BY <1>0, <1>2 DEF Device, breaks, entries, BreakOf, Breaking, On
<1>3. ASSUME NEW t \in Threads, NEW g \in Files, serial_open(t, g)
      PROVE  BreakOf(f)'
  <2>1. UNCHANGED <<brk, stuck>> /\ doubled' = doubled \ {g}
    BY <1>3 DEF serial_open
  <2>2. \A u \in Threads : u \in Breaking(g)' => ~call'[u].ok /\ g \in reused'
    BY <1>0, <1>3, OpenCalls DEF Breaking, On
  <2>3. Breaking(g) = {}
    BY <1>0, <1>3, OpenCalls DEF Breaking, On
  <2>4. CASE f = g
    <3>1. brk'[f] => f \in stuck'
      BY <1>0, <2>1, <2>3, <2>4 DEF BreakOf
    <3>2. \A u \in Breaking(f)' : ~call'[u].ok /\ f \in reused'
      BY <2>2, <2>4 DEF Breaking, On
    <3>3. QED
      BY <3>1, <3>2 DEF BreakOf
  <2>5. CASE f # g
    <3>1. \A u \in Threads : \/ call[u].op = "break" /\ call[u].file = f
                             \/ call'[u].op = "break" /\ call'[u].file = f
                             => call'[u] = call[u]
      BY <1>0, <1>3, <2>5, OpenCalls, NoCallIs DEF Opening, Adding
    <3>2. node'[f] = node[f] /\ (f \in reused' <=> f \in reused)
      BY <1>0, <1>3, <2>5, OpenCalls
    <3>3. \A u \in Threads : \/ u \in Breaking(f) /\ u \in Breaking(f)' /\ (call'[u].ok <=> call[u].ok)
                             \/ u \notin Breaking(f) /\ u \notin Breaking(f)'
      BY <3>1 DEF Breaking, On
    <3>4. QED
      BY <1>0, <2>1, <2>5, <3>2, <3>3, BreakSame
  <2>6. QED
    BY <2>4, <2>5
<1>4. ASSUME NEW t \in Threads, OpenFails(t) \/ \E p \in held : serial_close(t, p)
      PROVE  BreakOf(f)'
  <2>1. UNCHANGED <<node, doubled, reused>>
    BY <1>0, <1>4, FreeCalls
  <2>2. CASE f \in Listed \ Listed'
    <3>1. Breaking(f)' = {}
      BY <1>0, <1>4, <2>2, FreeCalls DEF Breaking, On, Opening, Adding
    <3>2. brk'[f] => f \in stuck'
      BY <1>0, <1>4, <2>2, FreeCalls DEF BreakOf
    <3>3. QED
      BY <3>1, <3>2 DEF BreakOf
  <2>3. CASE f \notin Listed \ Listed'
    <3>1. brk'[f] = brk[f] /\ (f \in stuck' <=> f \in stuck)
      BY <1>0, <1>4, <2>3, FreeCalls
    <3>2. \A u \in Threads : \/ call[u].op = "break" /\ call[u].file = f
                             \/ call'[u].op = "break" /\ call'[u].file = f
                             => call'[u] = call[u]
      BY <1>0, <1>4, <2>3, FreeCalls, NoCallIs DEF Opening, Adding
    <3>3. \A u \in Threads : \/ u \in Breaking(f) /\ u \in Breaking(f)' /\ (call'[u].ok <=> call[u].ok)
                             \/ u \notin Breaking(f) /\ u \notin Breaking(f)'
      BY <3>2 DEF Breaking, On
    <3>4. QED
      BY <1>0, <2>1, <3>1, <3>3, BreakSame
  <2>4. QED
    BY <2>2, <2>3
<1>5. ASSUME NEW t \in Threads, serial_read(t)
      PROVE  BreakOf(f)'
  <2>1. UNCHANGED <<node, breaks, reused>>
    BY <1>5 DEF serial_read, entries
  <2>2. \A u \in Threads : call[u].op = "break" \/ call'[u].op = "break" => call'[u] = call[u]
    <3>1. PICK n \in 0 .. call[t].size, again \in BOOLEAN :
            call' = [u \in Threads |->
               CASE u = t -> IF again THEN [call[t] EXCEPT !.size = @ - n] ELSE NoCall
                 [] u # t -> IF call[u].op = "read" /\ call[u].file = call[t].file /\ n > 0
                             THEN [call[u] EXCEPT !.ok = FALSE] ELSE call[u]]
      BY <1>5 DEF serial_read
    <3>2. \A u \in Threads : /\ [call[u] EXCEPT !.ok = FALSE].op = call[u].op
                             /\ [call[u] EXCEPT !.size = @ - n].op = call[u].op
      BY <1>0 DEF CallType
    <3>3. call[t].op = "read"
      BY <1>5 DEF serial_read
    <3>4. QED
      BY <3>1, <3>2, <3>3, NoCallIs
  <2>3. \A u \in Threads : \/ u \in Breaking(f) /\ u \in Breaking(f)' /\ (call'[u].ok <=> call[u].ok)
                           \/ u \notin Breaking(f) /\ u \notin Breaking(f)'
    BY <2>2 DEF Breaking, On
  <2>4. QED
    BY <1>0, <2>1, <2>3, BreakSame DEF breaks
<1>6. ASSUME NEW t \in Threads, NEW p \in held, sendBreak(t, p)
      PROVE  BreakOf(f)'
  <2>. DEFINE g == find_port(p.fd)
  <2>1. PICK works \in BOOLEAN :
          /\ Enter(t, p, [NoCall EXCEPT !.op = "break", !.ok = works])
          /\ works => node[g].hComm = "open"
          /\ brk' = [brk EXCEPT ![g] = @ \/ works]
    BY <1>6 DEF sendBreak
  <2>. DEFINE c == [NoCall EXCEPT !.op = "break", !.ok = works]
  <2>2. c \in CallType /\ c.op = "break" /\ (c.ok <=> works) /\ Enter(t, p, c)
    BY <2>1, NoCallIs DEF CallType, Ops
  <2>. HIDE DEF c
  <2>3. /\ call'[t].op = "break" /\ (call'[t].ok <=> works) /\ call'[t].file = g
        /\ call[t].op = "none" /\ g \in Files
    BY <1>0, <2>2, Entered
  <2>4. \A u \in Threads \ {t} : call'[u] = call[u]
    BY <1>0, <1>6, AloneCalls DEF Alone
  <2>5. /\ UNCHANGED <<node, stuck, reused>>
        /\ doubled' = IF Breaking(g) = {} THEN doubled ELSE doubled \cup {g}
    BY <1>6 DEF sendBreak, entries
  <2>6. CASE f = g
    <3>1. Breaking(f)' = Breaking(f) \cup {t} /\ t \notin Breaking(f)
      BY <2>3, <2>4, <2>6 DEF Breaking, On
    <3>2. (brk'[f] <=> brk[f] \/ works) /\ \A u \in Breaking(f) : call'[u] = call[u]
      BY <1>0, <2>1, <2>4, <2>6, <3>1 DEF Breaking, On
    <3>3. QED
      BY <1>0, <2>1, <2>3, <2>5, <2>6, <3>1, <3>2 DEF BreakOf
  <2>7. CASE f # g
    <3>1. \A u \in Threads : \/ u \in Breaking(f) /\ u \in Breaking(f)' /\ (call'[u].ok <=> call[u].ok)
                             \/ u \notin Breaking(f) /\ u \notin Breaking(f)'
      BY <2>3, <2>4, <2>7 DEF Breaking, On
    <3>2. brk'[f] = brk[f]
      BY <1>0, <2>1, <2>3, <2>7
    <3>3. QED
      BY <1>0, <2>5, <2>7, <3>1, <3>2, BreakSame
  <2>8. QED
    BY <2>6, <2>7
<1>7. ASSUME NEW t \in Threads, tcsendbreak(t)
      PROVE  BreakOf(f)'
  <2>. DEFINE g == call[t].file
  <2>1. /\ call[t].op = "break" /\ g \in Files /\ call'[t].op = "none"
        /\ \A u \in Threads \ {t} : call'[u] = call[u]
        /\ UNCHANGED <<node, doubled, reused>>
    BY <1>0, <1>7, CallOf, AloneCalls, NoCallIs DEF tcsendbreak, Alone, Return, entries
  <2>2. \/ brk' = [brk EXCEPT ![g] = FALSE] /\ stuck' = stuck \ {g}
        \/ stuck' = (IF brk[g] THEN stuck \cup {g} ELSE stuck) /\ UNCHANGED brk
    BY <1>7 DEF tcsendbreak, ClearCommBreak
  <2>3. CASE f = g
    <3>1. Breaking(f)' = Breaking(f) \ {t} /\ t \in Breaking(f)
      BY <2>1, <2>3 DEF Breaking, On
    <3>2. \A u \in Breaking(f)' : call'[u] = call[u]
      BY <2>1, <3>1 DEF Breaking, On
    <3>3. f \notin doubled \cup reused => Breaking(f)' = {}
      BY <1>0, <3>1 DEF BreakOf
    <3>4. brk'[f] => f \in stuck'
      BY <1>0, <2>2, <2>3
    <3>5. QED
      BY <1>0, <2>1, <3>1, <3>2, <3>3, <3>4 DEF BreakOf
  <2>4. CASE f # g
    <3>1. \A u \in Threads : \/ u \in Breaking(f) /\ u \in Breaking(f)' /\ (call'[u].ok <=> call[u].ok)
                             \/ u \notin Breaking(f) /\ u \notin Breaking(f)'
      BY <2>1, <2>4 DEF Breaking, On
    <3>2. brk'[f] = brk[f] /\ (f \in stuck' <=> f \in stuck)
      BY <1>0, <2>1, <2>2, <2>4
    <3>3. QED
      BY <1>0, <2>1, <3>1, <3>2, BreakSame
  <2>5. QED
    BY <2>3, <2>4
<1>8. ASSUME NEW t \in Threads, Alone(t), ~tcsendbreak(t), ~ \E p \in held : sendBreak(t, p)
      PROVE  BreakOf(f)'
  <2>1. /\ call'[t].op # "break" /\ (call[t].op # "break" \/ call[t].file = NoFile)
        /\ UNCHANGED <<breaks, reused>>
        /\ node[f].hComm = "open" => node'[f].hComm = "open"
    BY <1>0, <1>8, NoBreak
  <2>2. \A u \in Threads \ {t} : call'[u] = call[u]
    BY <1>0, <1>8, AloneCalls
  <2>3. \A u \in Threads : \/ u \in Breaking(f) /\ u \in Breaking(f)' /\ (call'[u].ok <=> call[u].ok)
                           \/ u \notin Breaking(f) /\ u \notin Breaking(f)'
    BY <1>0, <2>1, <2>2 DEF Breaking, On
  <2>4. QED
    BY <1>0, <2>1, <2>3, BreakSame DEF breaks
<1>9. QED
  BY <1>1, <1>2, <1>3, <1>4, <1>5, <1>6, <1>7, <1>8, Divided

\* No line is left in the break state but one whose break could not be ended, however
\* breaks overlap and whatever is closed and opened under them.
THEOREM HoldsBreak == Spec => []BreakHeld
<1>1. Init => BInv
  <2>1. Init => BreakInv
    BY NoCallIs DEF Init, BreakInv, BreakOf, Breaking, On
  <2>2. QED
    BY <2>1, TypeInit DEF BInv
<1>2. BInv /\ [Next]_vars => BInv'
  BY TypeStep, BreakStep DEF BInv
<1>3. BInv => BreakHeld
  BY DEF BInv, BreakInv, BreakOf, BreakHeld
<1>4. QED
  BY <1>1, <1>2, <1>3, PTL DEF Spec

-----------------------------------------------------------------------------
(* What is written, and the report of the empty buffer.                    *)

\* The files of the entries on the list and of those not linked yet.
Live == Listed \cup {call[t].file : t \in {u \in Threads : call[u].op \in Unlinked}}

\* What becomes of a thread's own call.
LEMMA OwnCall ==
  ASSUME TInv, NEW t \in Threads
  PROVE  /\ Return(t) => call'[t] = NoCall
         /\ \A f \in Files : serial_test(t, f) => call'[t].op = "test"
         /\ Numbered(t) => call'[t].op = "numbered" /\ call'[t].file = call[t].file
         /\ Walk(t) => call'[t].op \in {"linking", "crashed"} /\ call'[t].file = call[t].file
         /\ add_port(t) => call'[t].op = "linked"
         /\ NextIsNull(t) => call'[t].op = "open"
         /\ TxHappened(t) => \/ call'[t] = NoCall /\ UNCHANGED masks
                             \/ /\ call'[t].op = "lsr" /\ call'[t].file = call[t].file
                                /\ call'[t].at = call[t].at /\ Copies(call[t].file)
                                /\ call'[t].old = node[call[t].file].flag
         /\ ChangeMask(t) => /\ call'[t].op = call[t].op /\ call'[t].file = call[t].file
                             /\ call'[t].old = call[t].old /\ call'[t].at = "changed"
         /\ SetCommMask(t) => \/ call'[t] = NoCall /\ call[t].op = "setflags"
                              \/ /\ call'[t].op = call[t].op /\ call'[t].file = call[t].file
                                 /\ call'[t].old = call[t].old /\ call'[t].at = "set"
                                 /\ call[t].op # "setflags"
         /\ RestoreFlag(t) => \/ call'[t] = NoCall
                              \/ /\ call'[t].op = call[t].op /\ call'[t].file = call[t].file
                                 /\ call'[t].old = call[t].old /\ call'[t].at = "restored"
         /\ ReadWaits(t) => call'[t] = NoCall \/ call'[t].op = "read"
<1>0. call \in [Threads -> CallType] /\ call[t] \in CallType
  BY CallsType, CallOf
<1>1. Return(t) => call'[t] = NoCall
  BY <1>0 DEF Return
<1>2. \A f \in Files : serial_test(t, f) => call'[t].op = "test"
  BY <1>0 DEF serial_test, NoCall
<1>3. Numbered(t) => call'[t].op = "numbered" /\ call'[t].file = call[t].file
  BY <1>0 DEF Numbered, CallType
<1>4. Walk(t) => call'[t].op \in {"linking", "crashed"} /\ call'[t].file = call[t].file
  <2>1. ASSUME NEW x, call' = [call EXCEPT ![t].op = "linking", ![t].tail = x]
        PROVE  call'[t].op = "linking" /\ call'[t].file = call[t].file
    BY <1>0, <2>1 DEF CallType
  <2>2. ASSUME call' = [call EXCEPT ![t].op = "crashed"]
        PROVE  call'[t].op = "crashed" /\ call'[t].file = call[t].file
    BY <1>0, <2>2 DEF CallType
  <2>3. Walk(t) => \/ call' = [call EXCEPT ![t].op = "crashed"]
                   \/ \E x : call' = [call EXCEPT ![t].op = "linking", ![t].tail = x]
    BY DEF Walk
  <2>4. QED
    BY <2>1, <2>2, <2>3
<1>5. (add_port(t) => call'[t].op = "linked") /\ (NextIsNull(t) => call'[t].op = "open")
  BY <1>0 DEF add_port, NextIsNull, CallType
<1>6. TxHappened(t) => \/ call'[t] = NoCall /\ UNCHANGED masks
                       \/ /\ call'[t].op = "lsr" /\ call'[t].file = call[t].file
                          /\ call'[t].at = call[t].at /\ Copies(call[t].file)
                          /\ call'[t].old = node[call[t].file].flag
  <2>1. ASSUME NEW y, call' = [call EXCEPT ![t].op = "lsr", ![t].old = y]
        PROVE  /\ call'[t].op = "lsr" /\ call'[t].file = call[t].file
               /\ call'[t].at = call[t].at /\ call'[t].old = y
    BY <1>0, <2>1 DEF CallType
  <2>2. TxHappened(t) => \/ Return(t) /\ UNCHANGED masks
                         \/ /\ call' = [call EXCEPT ![t].op = "lsr", ![t].old = node[call[t].file].flag]
                            /\ Copies(call[t].file)
    BY DEF TxHappened
  <2>3. QED
    BY <1>1, <2>1, <2>2
<1>7. ASSUME NEW x, call' = [call EXCEPT ![t].at = x]
      PROVE  /\ call'[t].op = call[t].op /\ call'[t].file = call[t].file
             /\ call'[t].old = call[t].old /\ call'[t].at = x
  BY <1>0, <1>7 DEF CallType
<1>8. ChangeMask(t) => /\ call'[t].op = call[t].op /\ call'[t].file = call[t].file
                       /\ call'[t].old = call[t].old /\ call'[t].at = "changed"
  BY <1>7 DEF ChangeMask
<1>9. SetCommMask(t) => \/ call'[t] = NoCall /\ call[t].op = "setflags"
                        \/ /\ call'[t].op = call[t].op /\ call'[t].file = call[t].file
                           /\ call'[t].old = call[t].old /\ call'[t].at = "set"
                           /\ call[t].op # "setflags"
  <2>1. SetCommMask(t) => \/ Return(t) /\ call[t].op = "setflags"
                          \/ call' = [call EXCEPT ![t].at = "set"] /\ call[t].op # "setflags"
    BY DEF SetCommMask
  <2>2. QED
    BY <1>1, <1>7, <2>1
<1>10. RestoreFlag(t) => \/ call'[t] = NoCall
                         \/ /\ call'[t].op = call[t].op /\ call'[t].file = call[t].file
                            /\ call'[t].old = call[t].old /\ call'[t].at = "restored"
  <2>1. RestoreFlag(t) => Return(t) \/ call' = [call EXCEPT ![t].at = "restored"]
    BY DEF RestoreFlag
  <2>2. QED
    BY <1>1, <1>7, <2>1
<1>11. ReadWaits(t) => call'[t] = NoCall \/ call'[t].op = "read"
  <2>1. /\ [call EXCEPT ![t].op = "read"][t].op = "read"
        /\ [call EXCEPT ![t].op = "read", ![t].ok = FALSE][t].op = "read"
    BY <1>0 DEF CallType
  <2>2. QED
    BY <1>1, <2>1 DEF ReadWaits
<1>12. QED
  BY <1>1, <1>2, <1>3, <1>4, <1>5, <1>6, <1>8, <1>9, <1>10, <1>11

\* The steps that begin no look at the register, and link no entry.
Settled(t) ==
  \/ \E f \in Files : serial_test(t, f)
  \/ \E p \in held : sendBreak(t, p) \/ \E n \in Sizes : BeginRead(t, p, n)
  \/ CreateFile(t) \/ OpenDone(t) \/ TestDone(t) \/ Dangling(t) \/ ReturnsEarly(t)
  \/ ReadWaits(t) \/ tcsendbreak(t)
Entering(t, p) ==
  \/ \E m \in {{"RXCHAR"}, {"RXCHAR", "TXEMPTY"}} : termios_setflags(t, p, m)
  \/ serial_write(t, p) \/ tcdrain(t, p) \/ tcflush(t, p) \/ TIOCSERGETLSR(t, p)
Linking(t) == Numbered(t) \/ Walk(t) \/ add_port(t) \/ NextIsNull(t)
Marking(t) == TxHappened(t) \/ ChangeMask(t) \/ SetCommMask(t) \/ RestoreFlag(t) \/ StoreTx(t)

LEMMA Kinds ==
  ASSUME NEW t, Alone(t)
  PROVE  Settled(t) \/ (\E p \in held : Entering(t, p)) \/ Linking(t) \/ Marking(t)
BY DEF Alone, Settled, Entering, Linking, Marking

LEMMA SettledIs ==
  ASSUME TInv, NEW t \in Threads, Settled(t)
  PROVE  /\ UNCHANGED <<list, outq, masks, due, raced, reused>>
         /\ call'[t].op \in {"none", "test", "break", "wait", "read", "open"}
         /\ \A f \in Files : node'[f].tx = node[f].tx /\ node'[f].flag = node[f].flag
         /\ ~CreateFile(t) => UNCHANGED <<node, drv>>
         /\ \/ call[t].file = NoFile \/ call[t].op \in {"none", "open", "test", "wait", "break"}
            \/ ReturnsEarly(t)
<1>0. /\ call \in [Threads -> CallType] /\ call[t] \in CallType /\ node \in [Files -> NodeType]
      /\ call[t].op = "none" => call[t].file = NoFile
  BY CallsType, CallOf, Parts DEF NodePart, Proper
<1>1. UNCHANGED <<list, outq, masks, due, raced, reused>>
  BY DEF Settled, serial_test, sendBreak, BeginRead, CreateFile, OpenDone, TestDone, Dangling,
     ReturnsEarly, ReadWaits, tcsendbreak, entries, queues
<1>2. call'[t].op \in {"none", "test", "break", "wait", "read", "open"}
  <2>1. ASSUME NEW p \in held, sendBreak(t, p) \/ \E n \in Sizes : BeginRead(t, p, n)
        PROVE  call'[t].op \in {"break", "wait"}
    BY <2>1, Enters
  <2>2. QED
    BY <2>1, OwnCall, NoCallIs DEF Settled, CreateFile, OpenDone, TestDone, Dangling,
       ReturnsEarly, tcsendbreak
<1>3. \A f \in Files : node'[f].tx = node[f].tx /\ node'[f].flag = node[f].flag
  <2>1. CreateFile(t) => \E x : node' = [node EXCEPT ![call[t].file].hComm = x]
    BY DEF CreateFile
  <2>2. ASSUME NEW x, node' = [node EXCEPT ![call[t].file].hComm = x]
        PROVE  \A f \in Files : node'[f].tx = node[f].tx /\ node'[f].flag = node[f].flag
    BY <1>0, <2>2 DEF NodeType
  <2>3. QED
    BY <2>1, <2>2 DEF Settled, serial_test, sendBreak, BeginRead, CreateFile, OpenDone, TestDone, Dangling,
       ReturnsEarly, ReadWaits, tcsendbreak, entries
<1>4. ~CreateFile(t) => UNCHANGED <<node, drv>>
  BY DEF Settled, serial_test, sendBreak, BeginRead, OpenDone, TestDone, Dangling,
     ReturnsEarly, ReadWaits, tcsendbreak, entries
<1>5. \/ call[t].file = NoFile \/ call[t].op \in {"none", "open", "test", "wait", "break"}
      \/ ReturnsEarly(t)
  <2>1. ASSUME NEW p \in held, sendBreak(t, p) \/ \E n \in Sizes : BeginRead(t, p, n)
        PROVE  call[t].op = "none"
    BY <2>1, Enters
  <2>2. QED
    BY <1>0, <2>1 DEF Settled, serial_test, CreateFile, OpenDone, TestDone, Dangling, ReadWaits,
       tcsendbreak, Idle
<1>6. QED
  BY <1>1, <1>2, <1>3, <1>4, <1>5

\* Only an open makes another entry live.
LEMMA LiveStep ==
  ASSUME TInv, NEW t \in Threads,
         OpenFails(t) \/ (\E p \in held : serial_close(t, p)) \/ serial_read(t) \/ Alone(t)
  PROVE  Live' \subseteq Live
<1>0. call \in [Threads -> CallType] /\ call[t] \in CallType
  BY CallsType, CallOf
<1>1. ASSUME Listed' \subseteq Listed,
             \A u \in Threads : call'[u].op \in Unlinked =>
               call'[u].file = call[u].file /\ call[u].op \in Unlinked
      PROVE  Live' \subseteq Live
  BY <1>1 DEF Live
<1>2. CASE OpenFails(t) \/ \E p \in held : serial_close(t, p)
  BY <1>1, <1>2, FreeCalls, NoCallIs DEF Unlinked, Opening, Adding
<1>3. CASE serial_read(t)
  <2>1. PICK n \in 0 .. call[t].size, again \in BOOLEAN :
          call' = [u \in Threads |->
             CASE u = t -> IF again THEN [call[t] EXCEPT !.size = @ - n] ELSE NoCall
               [] u # t -> IF call[u].op = "read" /\ call[u].file = call[t].file /\ n > 0
                           THEN [call[u] EXCEPT !.ok = FALSE] ELSE call[u]]
    BY <1>3 DEF serial_read
  <2>2. \A u \in Threads : /\ [call[u] EXCEPT !.ok = FALSE].op = call[u].op
                           /\ [call[u] EXCEPT !.size = @ - n].op = call[u].op
    BY <1>0 DEF CallType
  <2>3. call[t].op = "read" /\ Listed' = Listed
    BY <1>3 DEF serial_read, Listed, entries
  <2>4. QED
    BY <1>1, <2>1, <2>2, <2>3, NoCallIs DEF Unlinked
<1>4. ASSUME Alone(t), Listed' = Listed, call'[t].op \notin Unlinked
      PROVE  Live' \subseteq Live
  BY <1>1, <1>4, AloneCalls
<1>5. CASE Settled(t) /\ Alone(t)
  <2>1. Listed' = Listed
    BY <1>5, SettledIs DEF Listed
  <2>2. QED
    BY <1>4, <1>5, <2>1, SettledIs DEF Unlinked
<1>6. ASSUME NEW p \in held, Entering(t, p), Alone(t)
      PROVE  Live' \subseteq Live
  <2>1. Listed' = Listed
    BY <1>6 DEF Listed, Entering, termios_setflags, serial_write, tcdrain, tcflush, TIOCSERGETLSR, entries
  <2>2. call'[t].op \in {"setflags", "write", "drain", "flush", "look"}
    BY <1>6, Enters DEF Entering, serial_write, tcdrain, tcflush
  <2>3. QED
    BY <1>4, <1>6, <2>1, <2>2 DEF Unlinked
<1>7. CASE Marking(t) /\ Alone(t)
  <2>1. Listed' = Listed
    BY <1>7 DEF Listed, Marking, TxHappened, ChangeMask, SetCommMask, RestoreFlag, StoreTx, entries
  <2>2. call'[t].op \notin Unlinked
    <3>1. call[t].at # "begun" => call[t].op \in Masking \cup {"setflags"}
      BY CallOf DEF Proper
    <3>2. call[t].op \notin Unlinked
      BY <1>7, <3>1 DEF Marking, TxHappened, ChangeMask, SetCommMask, RestoreFlag, StoreTx, Masking,
         Unlinked
    <3>3. QED
      BY <1>7, <3>2, OwnCall, NoCallIs DEF Marking, StoreTx, Unlinked
  <2>3. QED
    BY <1>4, <1>7, <2>1, <2>2
<1>8. CASE Numbered(t) \/ Walk(t)
  <2>1. Listed' = Listed /\ call[t].op \in Unlinked
    BY <1>8 DEF Listed, Numbered, Walk, entries, Unlinked
  <2>2. call'[t].op \in Unlinked => call'[t].file = call[t].file
    BY <1>8, OwnCall
  <2>3. QED
    BY <1>1, <1>8, <2>1, <2>2, AloneCalls DEF Alone
<1>9. CASE add_port(t) \/ NextIsNull(t)
  <2>1. call'[t].op \notin Unlinked /\ \A u \in Threads \ {t} : call'[u] = call[u]
    BY <1>9, OwnCall, AloneCalls DEF Alone, Unlinked
  <2>2. Listed' \subseteq Listed \cup {call[t].file} /\ (call[t].op # "linking" => Listed' \subseteq Listed)
    <3>1. CASE UNCHANGED list
      BY <3>1 DEF Listed
    <3>2. CASE add_port(t) /\ list' = <<call[t].file>>
      BY <3>2 DEF Listed, add_port
    <3>3. CASE add_port(t) /\ call[t].tail \in Listed /\ list' = Append(Upto(call[t].tail), call[t].file)
      <4>1. call[t].op = "linking" /\ call[t].file \in Files /\ call[t].file \notin Listed
        BY <3>3, CallOf, Parts DEF add_port, CallPart, CallInv, Unlinked, Opening, Adding
      <4>2. QED
        BY <3>3, <4>1, LinkList
    <3>4. CASE call[t].file \in Listed /\ list' = Upto(call[t].file)
      BY <3>4, CutList
    <3>5. QED
      BY <1>9, <3>1, <3>2, <3>3, <3>4 DEF add_port, NextIsNull
  <2>3. call[t].op = "linking" => call[t].file \in Live
    BY DEF Live, Unlinked
  <2>4. QED
    BY <2>1, <2>2, <2>3 DEF Live
<1>10. QED
  BY <1>2, <1>3, <1>5, <1>6, <1>7, <1>8, <1>9, Kinds DEF Linking

\* A due report is remembered, and nothing is written under a look at the register.
TxOf(f) ==
  f \in Live \ (raced \cup reused) => /\ due[f] => node[f].tx
                                      /\ AtRegister(f) => ~outq[f]
TxInv == TInv /\ \A f \in Files : TxOf(f)

LEMMA TxSame ==
  ASSUME NEW f, TxOf(f), f \in Live' => f \in Live,
         f \notin raced' \cup reused' => f \notin raced \cup reused,
         due'[f] => due[f], node[f].tx => node'[f].tx,
         AtRegister(f)' => AtRegister(f), outq'[f] => outq[f]
  PROVE  TxOf(f)'
BY DEF TxOf

LEMMA Register ==
  ASSUME NEW f, \A u \in Threads : call'[u].file = f /\ call'[u].op \in {"look", "lsr"} =>
                                     call[u].file = f /\ call[u].op \in {"look", "lsr"}
  PROVE  AtRegister(f)' => AtRegister(f)
BY DEF AtRegister, On

LEMMA RegisterOf ==
  ASSUME NEW f
  PROVE  AtRegister(f) <=> \E u \in Threads : call[u].file = f /\ call[u].op \in {"look", "lsr"}
BY DEF AtRegister, On

LEMMA TxStep == TxInv /\ [Next]_vars => \A f \in Files : TxOf(f)'
<1> SUFFICES ASSUME TxInv, [Next]_vars, NEW f \in Files PROVE TxOf(f)'
  OBVIOUS
<1>0. /\ TInv /\ TxOf(f) /\ call \in [Threads -> CallType] /\ node \in [Files -> NodeType]
      /\ outq \in [Files -> BOOLEAN] /\ due \in [Files -> BOOLEAN] /\ f # NoFile
  BY CallsType, Parts, FilesAssumption DEF TxInv, NodePart, DataPart
<1>1. CASE UNCHANGED vars
  BY <1>0, <1>1 DEF vars, queues, entries, TxOf, Live, Listed, AtRegister, On
<1>2. CASE Device
  <2>1. UNCHANGED <<list, node, call, due, raced, reused>> /\ (outq'[f] => outq[f])
    BY <1>0, <1>2 DEF Device, entries
  <2>2. Live' = Live /\ AtRegister(f)' = AtRegister(f)
    BY <2>1 DEF Live, Listed, AtRegister, On
  <2>3. QED
    BY <1>0, <2>1, <2>2, TxSame
<1>3. ASSUME NEW t \in Threads, NEW g \in Files, serial_open(t, g)
      PROVE  TxOf(f)'
  <2>1. /\ due' = [due EXCEPT ![g] = FALSE] /\ raced' = raced \ {g} /\ UNCHANGED outq
        /\ Listed' = Listed
    BY <1>3 DEF serial_open, queues, Listed
  <2>2. CASE f = g
    <3>1. ~due'[f]
      BY <1>0, <2>1, <2>2
    <3>2. f \notin reused' => ~AtRegister(f)'
      <4>1. \A u \in Threads : call'[u].file = f /\ call'[u].op \in {"look", "lsr"} => f \in reused'
        BY <1>0, <1>3, <2>2, OpenCalls
      <4>2. QED
        BY <4>1 DEF AtRegister, On
    <3>3. QED
      BY <3>1, <3>2 DEF TxOf
  <2>3. CASE f # g
    <3>1. \A u \in Threads : call'[u].file = f => call'[u] = call[u]
      BY <1>0, <1>3, <2>3, OpenCalls
    <3>2. AtRegister(f)' => AtRegister(f)
      BY <3>1, Register
    <3>3. node'[f] = node[f] /\ (f \in reused' <=> f \in reused) /\ due'[f] = due[f]
      BY <1>0, <1>3, <2>1, <2>3, OpenCalls
    <3>4. f \in Live' => f \in Live
      BY <2>1, <3>1 DEF Live
    <3>5. QED
      BY <1>0, <2>1, <2>3, <3>2, <3>3, <3>4, TxSame
  <2>4. QED
    BY <2>2, <2>3
<1>4. ASSUME NEW t \in Threads,
             OpenFails(t) \/ (\E p \in held : serial_close(t, p)) \/ serial_read(t) \/ Alone(t)
      PROVE  Live' \subseteq Live
  BY <1>0, <1>4, LiveStep
<1>5. ASSUME NEW t \in Threads, OpenFails(t) \/ \E p \in held : serial_close(t, p)
      PROVE  TxOf(f)'
  <2>1. UNCHANGED <<node, outq, due, raced, reused>>
    BY <1>0, <1>5, FreeCalls DEF queues
  <2>2. \A u \in Threads : call'[u].file = f /\ call'[u].op \in {"look", "lsr"} => call'[u] = call[u]
    BY <1>0, <1>5, FreeCalls, NoCallIs
  <2>3. AtRegister(f)' => AtRegister(f)
    BY <2>2, Register
  <2>4. QED
    BY <1>0, <1>4, <1>5, <2>1, <2>3, TxSame
<1>6. ASSUME NEW t \in Threads, serial_read(t)
      PROVE  TxOf(f)'
  <2>1. UNCHANGED <<node, outq, due, raced, reused>>
    BY <1>6 DEF serial_read, entries
  <2>2. PICK n \in 0 .. call[t].size, again \in BOOLEAN :
          call' = [u \in Threads |->
             CASE u = t -> IF again THEN [call[t] EXCEPT !.size = @ - n] ELSE NoCall
               [] u # t -> IF call[u].op = "read" /\ call[u].file = call[t].file /\ n > 0
                           THEN [call[u] EXCEPT !.ok = FALSE] ELSE call[u]]
    BY <1>6 DEF serial_read
  <2>3. \A u \in Threads : /\ [call[u] EXCEPT !.ok = FALSE].op = call[u].op
                           /\ [call[u] EXCEPT !.size = @ - n].op = call[u].op
    BY <1>0 DEF CallType
  <2>4. \A u \in Threads : call'[u].op \in {"look", "lsr"} => call'[u] = call[u]
    BY <1>6, <2>2, <2>3, NoCallIs DEF serial_read
  <2>5. AtRegister(f)' => AtRegister(f)
    BY <2>4, Register
  <2>6. QED
    BY <1>0, <1>4, <1>6, <2>1, <2>5, TxSame
<1>7. ASSUME NEW t \in Threads, Alone(t),
             call'[t].op \in {"look", "lsr"} => call[t].op \in {"look", "lsr"} /\ call'[t].file = call[t].file
      PROVE  AtRegister(f)' => AtRegister(f)
  BY <1>0, <1>7, AloneCalls, Register
<1>8. ASSUME NEW t \in Threads, Alone(t), Settled(t)
      PROVE  TxOf(f)'
  <2>1. UNCHANGED <<outq, due, raced, reused>> /\ node'[f].tx = node[f].tx
    BY <1>0, <1>8, SettledIs
  <2>2. call'[t].op \notin {"look", "lsr"}
    BY <1>0, <1>8, SettledIs
  <2>3. QED
    BY <1>0, <1>4, <1>7, <1>8, <2>1, <2>2, TxSame
<1>9. ASSUME NEW t \in Threads, Alone(t), Linking(t)
      PROVE  TxOf(f)'
  <2>1. UNCHANGED <<outq, due, raced, reused>> /\ (UNCHANGED node \/ Numbered(t))
    BY <1>9 DEF Linking, Numbered, Walk, add_port, NextIsNull, queues, entries
  <2>2. node'[f].tx = node[f].tx
    <3>1. ASSUME NEW x, node' = [node EXCEPT ![call[t].file].fd = x]
          PROVE  node'[f].tx = node[f].tx
      BY <1>0, <3>1 DEF NodeType
    <3>2. Numbered(t) => \E x : node' = [node EXCEPT ![call[t].file].fd = x]
      BY DEF Numbered
    <3>3. QED
      BY <2>1, <3>1, <3>2
  <2>3. call'[t].op \notin {"look", "lsr"}
    BY <1>0, <1>9, OwnCall DEF Linking
  <2>4. QED
    BY <1>0, <1>4, <1>7, <1>9, <2>1, <2>2, <2>3, TxSame
<1>10. ASSUME NEW t \in Threads, Alone(t), NEW p \in held, Entering(t, p)
       PROVE  TxOf(f)'
  <2>. DEFINE g == find_port(p.fd)
  <2>1. UNCHANGED <<due, reused>>
    BY <1>10 DEF Entering, termios_setflags, serial_write, tcdrain, tcflush, TIOCSERGETLSR
  <2>2. node[f].tx => node'[f].tx
    <3>1. CASE UNCHANGED node
      BY <3>1
    <3>2. ASSUME NEW x, node' = [node EXCEPT ![g].flag = x]
          PROVE  node'[f].tx = node[f].tx
      BY <1>0, <3>2 DEF NodeType
    <3>3. CASE node' = [node EXCEPT ![g].tx = TRUE]
      BY <1>0, <3>3 DEF NodeType
    <3>4. QED
      BY <1>10, <3>1, <3>2, <3>3
         DEF Entering, termios_setflags, serial_write, tcdrain, tcflush, TIOCSERGETLSR, entries
  <2>3. CASE TIOCSERGETLSR(t, p)
    <3>1. /\ UNCHANGED <<raced, outq, node>> /\ ~outq[g] /\ call'[t].file = g
      BY <1>0, <2>3, Enters DEF TIOCSERGETLSR, OutputEmpty, queues, entries
    <3>2. CASE f = g
      BY <1>0, <1>4, <1>10, <2>1, <3>1, <3>2 DEF TxOf
    <3>3. CASE f # g
      <4>1. AtRegister(f)' => AtRegister(f)
        BY <1>0, <1>10, <3>1, <3>3, AloneCalls, Register
      <4>2. QED
        BY <1>0, <1>4, <1>10, <2>1, <3>1, <4>1, TxSame
    <3>4. QED
      BY <3>2, <3>3
  <2>4. CASE serial_write(t, p)
    <3>1. /\ outq' = [outq EXCEPT ![g] = TRUE]
          /\ raced' = IF AtRegister(g) THEN raced \cup {g} ELSE raced
          /\ call'[t].op = "write" /\ UNCHANGED node
      BY <1>0, <2>4, Enters DEF serial_write, entries
    <3>2. AtRegister(f)' => AtRegister(f)
      BY <1>0, <1>7, <1>10, <3>1
    <3>3. CASE f = g
      BY <1>0, <1>4, <1>10, <2>1, <3>1, <3>2, <3>3 DEF TxOf
    <3>4. CASE f # g
      BY <1>0, <1>4, <1>10, <2>1, <3>1, <3>2, <3>4, TxSame
    <3>5. QED
      BY <3>3, <3>4
  <2>5. CASE (\E m \in {{"RXCHAR"}, {"RXCHAR", "TXEMPTY"}} : termios_setflags(t, p, m))
               \/ tcdrain(t, p) \/ tcflush(t, p)
    <3>1. UNCHANGED <<raced, outq>>
      BY <2>5 DEF termios_setflags, tcdrain, tcflush, queues
    <3>2. call'[t].op \in {"setflags", "drain", "flush"}
      <4>1. ASSUME NEW m \in {{"RXCHAR"}, {"RXCHAR", "TXEMPTY"}}, termios_setflags(t, p, m)
            PROVE  call'[t].op = "setflags"
        BY <1>0, <4>1, Enters
      <4>2. tcdrain(t, p) \/ tcflush(t, p) => call'[t].op \in {"drain", "flush"}
        BY <1>0, Enters DEF tcdrain, tcflush
      <4>3. QED
        BY <2>5, <4>1, <4>2
    <3>3. QED
      BY <1>0, <1>4, <1>7, <1>10, <2>1, <2>2, <3>1, <3>2, TxSame
  <2>6. QED
    BY <1>10, <2>3, <2>4, <2>5 DEF Entering
<1>11. ASSUME NEW t \in Threads, Alone(t), TxHappened(t) \/ ChangeMask(t) \/ SetCommMask(t) \/ RestoreFlag(t)
       PROVE  TxOf(f)'
  <2>. DEFINE g == call[t].file
  <2>1. UNCHANGED <<due, raced, reused>> /\ (outq'[f] => outq[f])
    BY <1>0, <1>11 DEF TxHappened, ChangeMask, SetCommMask, RestoreFlag, queues
  <2>2. node'[f].tx = node[f].tx
    <3>1. CASE UNCHANGED node
      BY <3>1
    <3>2. ASSUME NEW x, node' = [node EXCEPT ![g] = [@ EXCEPT !.flag = x]]
          PROVE  node'[f].tx = node[f].tx
      BY <1>0, <3>2 DEF NodeType
    <3>3. ChangeMask(t) \/ RestoreFlag(t) => \E x : node' = [node EXCEPT ![g] = [@ EXCEPT !.flag = x]]
      BY DEF ChangeMask, RestoreFlag
    <3>4. QED
      BY <1>11, <3>1, <3>2, <3>3 DEF TxHappened, SetCommMask, entries
  <2>3. call'[t].op \in {"look", "lsr"} => call[t].op \in {"look", "lsr"} /\ call'[t].file = call[t].file
    <3>1. TxHappened(t) => call[t].op = "look"
      BY DEF TxHappened
    <3>2. QED
      BY <1>0, <1>11, <3>1, OwnCall, NoCallIs
  <2>4. QED
    BY <1>0, <1>4, <1>7, <1>11, <2>1, <2>2, <2>3, TxSame
<1>12. ASSUME NEW t \in Threads, Alone(t), StoreTx(t)
       PROVE  TxOf(f)'
  <2>. DEFINE g == call[t].file
              b == (call[t].op # "lsr")
              d == (call[t].op = "write" \/ (due[g] /\ (call[t].op = "lsr" => outq[g])))
  <2>1. /\ node' = [node EXCEPT ![g] = [@ EXCEPT !.tx = b]] /\ due' = [due EXCEPT ![g] = d]
        /\ raced' = IF call[t].op = "write" /\ AtRegister(g) THEN raced \cup {g} ELSE raced
        /\ UNCHANGED <<outq, reused>> /\ call'[t].op = "none" /\ g \in Files
    BY <1>0, <1>12, CallOf, OwnCall, NoCallIs DEF StoreTx, queues
  <2>2. (b <=> call[t].op # "lsr") /\ (d <=> call[t].op = "write" \/ (due[g] /\ (call[t].op = "lsr" => outq[g])))
    OBVIOUS
  <2>. HIDE DEF b, d
  <2>3. AtRegister(f)' => AtRegister(f)
    BY <1>0, <1>7, <1>12, <2>1
  <2>4. CASE f = g
    <3>1. (node'[f].tx <=> b) /\ (due'[f] <=> d)
      BY <1>0, <2>1, <2>4 DEF NodeType
    <3>2. call[t].op = "lsr" => AtRegister(f)
      BY <2>4, RegisterOf
    <3>3. QED
      BY <1>0, <1>4, <1>12, <2>1, <2>2, <2>3, <2>4, <3>1, <3>2 DEF TxOf
  <2>5. CASE f # g
    <3>1. node'[f] = node[f] /\ due'[f] = due[f]
      BY <1>0, <2>1, <2>5
    <3>2. QED
      BY <1>0, <1>4, <1>12, <2>1, <2>3, <2>5, <3>1, TxSame
  <2>6. QED
    BY <2>4, <2>5
<1>13. QED
  BY <1>1, <1>2, <1>3, <1>5, <1>6, <1>8, <1>9, <1>10, <1>11, <1>12, Divided, Kinds DEF Marking

\* What was written is not forgotten before the empty buffer is reported, unless a write
\* and a look at the register overlap: drains, flushes, masks and closes take nothing away.
THEOREM RemembersTx == Spec => []TxRemembered
<1>1. Init => TxInv
  <2>1. Init => \A f \in Files : TxOf(f)
    BY NoCallIs DEF Init, TxOf, AtRegister, On
  <2>2. QED
    BY <2>1, TypeInit DEF TxInv
<1>2. TxInv /\ [Next]_vars => TxInv'
  BY TypeStep, TxStep DEF TxInv
<1>3. TxInv => TxRemembered
  BY ListedFiles DEF TxInv, TInv, TxOf, TxRemembered, Live
<1>4. QED
  BY <1>1, <1>2, <1>3, PTL DEF Spec

-----------------------------------------------------------------------------
(* Event masks.                                                            *)

Others(m) == m \ {"TXEMPTY"}
Maskers(f) == On(f, Masking \cup {"setflags"})

\* A change of the mask asked for is alone at the entry, or the file is in crossed; apart
\* from it, the field, the driver's mask and every copy agree with the mask asked for in all
\* but TXEMPTY, and every copy in that too while no call has copied another's change.
MaskOf(f) ==
  f \in Live \ (crossed \cup reused) =>
    /\ node[f].hComm # "open" => asked[f] = {}
    /\ \A t \in Maskers(f) : call[t].op = "setflags" =>
         /\ node[f].hComm = "open" /\ call[t].old = asked[f]
         /\ call[t].at = "changed" => node[f].flag = asked[f]
         /\ \A u \in Maskers(f) : u = t
    /\ (\A t \in Maskers(f) : call[t].op # "setflags") =>
         /\ node[f].hComm = "open" => Others(drv[f]) = Others(asked[f])
         /\ Others(node[f].flag) = Others(asked[f])
         /\ \A t \in Maskers(f) : Others(call[t].old) = Others(asked[f])
         /\ f \notin lapped => /\ \A t \in Maskers(f) : call[t].old = asked[f]
                               /\ \/ \E t \in Maskers(f) : call[t].at \in {"changed", "set"}
                                  \/ node[f].flag = asked[f]
MaskInv == TInv /\ \A f \in Files : MaskOf(f)

\* A step that touches neither a file's masks nor the calls that change them.
LEMMA MaskSame ==
  ASSUME NEW f, MaskOf(f), f \in Live' => f \in Live,
         f \notin crossed' \cup reused' => f \notin crossed \cup reused,
         f \in lapped => f \in lapped',
         node'[f].hComm = "open" <=> node[f].hComm = "open",
         node'[f].flag = node[f].flag, drv'[f] = drv[f], asked'[f] = asked[f],
         \A u \in Threads : u \in Maskers(f) \/ u \in Maskers(f)' =>
           /\ u \in Maskers(f) /\ u \in Maskers(f)'
           /\ call'[u].op = call[u].op /\ call'[u].at = call[u].at /\ call'[u].old = call[u].old
  PROVE  MaskOf(f)'
<1>1. Maskers(f)' = Maskers(f) /\ Maskers(f) \subseteq Threads
  BY DEF Maskers, On
<1>2. \A u \in Maskers(f) : /\ call'[u].op = call[u].op /\ call'[u].at = call[u].at
                            /\ call'[u].old = call[u].old
  BY <1>1
<1>3. QED
  BY <1>1, <1>2 DEF MaskOf

\* What a step leaves as it was at a file.
Leaves(f) ==
  /\ f \in Live' => f \in Live
  /\ f \notin crossed' \cup reused' => f \notin crossed \cup reused
  /\ f \in lapped => f \in lapped'
  /\ node'[f].hComm = "open" <=> node[f].hComm = "open"
  /\ node'[f].flag = node[f].flag /\ drv'[f] = drv[f] /\ asked'[f] = asked[f]

\* A thread whose call changes no mask of the file, neither before nor after the step.
LEMMA Untouched ==
  ASSUME NEW f, MaskOf(f), Leaves(f), NEW t \in Threads, \A u \in Threads \ {t} : call'[u] = call[u],
         t \notin Maskers(f), t \notin Maskers(f)'
  PROVE  MaskOf(f)'
<1>1. \A u \in Threads : u \in Maskers(f) \/ u \in Maskers(f)' =>
        /\ u \in Maskers(f) /\ u \in Maskers(f)'
        /\ call'[u].op = call[u].op /\ call'[u].at = call[u].at /\ call'[u].old = call[u].old
  BY DEF Maskers, On
<1>2. QED
  BY <1>1, MaskSame DEF Leaves

\* A call that copies event_flag begins.
LEMMA CopyMask ==
  ASSUME NEW f, MaskOf(f), f \in Live' => f \in Live, Copies(f), UNCHANGED reused,
         NEW t \in Threads, \A u \in Threads \ {t} : call'[u] = call[u], t \notin Maskers(f),
         call'[t].op \in Masking, call'[t].at = "begun", call'[t].file = f,
         call'[t].old = node[f].flag, node'[f].hComm = node[f].hComm,
         node'[f].flag = node[f].flag, drv'[f] = drv[f]
  PROVE  MaskOf(f)'
<1>1. Maskers(f)' = Maskers(f) \cup {t} /\ \A u \in Maskers(f) : call'[u] = call[u]
  BY DEF Maskers, On
<1>2. /\ UNCHANGED asked
      /\ f \in crossed => f \in crossed'
      /\ f \in lapped => f \in lapped'
      /\ f \notin crossed' => \A u \in Maskers(f) : call[u].op # "setflags"
      /\ f \notin lapped' => \A u \in Maskers(f) : call[u].at \notin {"changed", "set"} \/ call[u].op = "setflags"
  BY DEF Copies, Maskers, On
<1>3. call'[t].op # "setflags"
  BY DEF Masking
<1>4. QED
  BY <1>1, <1>2, <1>3 DEF MaskOf

\* A call that has not changed the mask, or has restored it, ends.
LEMMA LeaveMask ==
  ASSUME NEW f, MaskOf(f), Leaves(f), NEW t \in Threads, \A u \in Threads \ {t} : call'[u] = call[u],
         t \in Maskers(f), call[t].op # "setflags", call[t].at \notin {"changed", "set"},
         t \notin Maskers(f)'
  PROVE  MaskOf(f)'
<1>1. Maskers(f)' = Maskers(f) \ {t} /\ \A u \in Maskers(f)' : call'[u] = call[u]
  BY DEF Maskers, On
<1>2. QED
  BY <1>1 DEF MaskOf, Leaves

LEMMA NodeFields ==
  ASSUME TInv, NEW f \in Files, NEW g \in Files, NEW x
  PROVE  /\ node' = [node EXCEPT ![g] = [@ EXCEPT !.flag = x]] =>
              /\ node'[f].hComm = node[f].hComm
              /\ node'[f].flag = IF f = g THEN x ELSE node[f].flag
         /\ \/ node' = [node EXCEPT ![g] = [@ EXCEPT !.tx = x]]
            \/ node' = [node EXCEPT ![g] = [@ EXCEPT !.fd = x]]
            => node'[f].hComm = node[f].hComm /\ node'[f].flag = node[f].flag
         /\ node' = [node EXCEPT ![g] = [@ EXCEPT !.hComm = x]] =>
              /\ node'[f].hComm = IF f = g THEN x ELSE node[f].hComm
              /\ node'[f].flag = node[f].flag
<1>0. node \in [Files -> NodeType]
  BY Parts DEF NodePart
<1>1. node' = [node EXCEPT ![g] = [@ EXCEPT !.flag = x]] =>
        /\ node'[f].hComm = node[f].hComm
        /\ node'[f].flag = IF f = g THEN x ELSE node[f].flag
  BY <1>0 DEF NodeType
<1>2. node' = [node EXCEPT ![g] = [@ EXCEPT !.tx = x]] =>
        node'[f].hComm = node[f].hComm /\ node'[f].flag = node[f].flag
  BY <1>0 DEF NodeType
<1>3. node' = [node EXCEPT ![g] = [@ EXCEPT !.fd = x]] =>
        node'[f].hComm = node[f].hComm /\ node'[f].flag = node[f].flag
  BY <1>0 DEF NodeType
<1>4. node' = [node EXCEPT ![g] = [@ EXCEPT !.hComm = x]] =>
        /\ node'[f].hComm = IF f = g THEN x ELSE node[f].hComm
        /\ node'[f].flag = node[f].flag
  BY <1>0 DEF NodeType
<1>5. QED
  BY <1>1, <1>2, <1>3, <1>4

\* The steps of the calls that change the mask.
LEMMA MarkingMask ==
  ASSUME TInv, NEW f \in Files, MaskOf(f), NEW t \in Threads, Alone(t), Marking(t) \/ ReturnsEarly(t)
  PROVE  MaskOf(f)'
<1>. DEFINE g == call[t].file
<1>0. /\ \A u \in Threads \ {t} : call'[u] = call[u]
      /\ Live' \subseteq Live /\ f # NoFile
      /\ call[t].op = "none" => g = NoFile
      /\ call[t].at # "begun" => call[t].op \in Masking \cup {"setflags"}
      /\ call[t].op = "setflags" => call[t].at \in {"begun", "changed"}
      /\ g # NoFile => g \in Files
  BY AloneCalls, LiveStep, CallOf, FilesAssumption DEF Proper
<1>1. t \in Maskers(f) <=> g = f /\ call[t].op \in Masking \cup {"setflags"}
  BY DEF Maskers, On
<1>2. t \in Maskers(f)' <=> call'[t].file = f /\ call'[t].op \in Masking \cup {"setflags"}
  BY DEF Maskers, On
<1>3. NoCall.file # f
  BY <1>0, NoCallIs
<1>4. UNCHANGED reused /\ (UNCHANGED masks \/ TxHappened(t))
  BY DEF Marking, TxHappened, ChangeMask, SetCommMask, RestoreFlag, StoreTx, ReturnsEarly
<1>5. CASE ReturnsEarly(t)
  <2>1. Leaves(f)
    BY <1>0, <1>5 DEF ReturnsEarly, Leaves, entries, masks
  <2>2. call'[t] = NoCall /\ call[t].op \in Masking /\ call[t].at = "begun" /\ call[t].op # "setflags"
    BY <1>5, OwnCall DEF ReturnsEarly, Masking
  <2>3. QED
    BY <1>0, <1>1, <1>2, <1>3, <2>1, <2>2, LeaveMask, Untouched
<1>6. CASE TxHappened(t)
  <2>1. UNCHANGED <<node, drv>> /\ call[t].op = "look" /\ g # NoFile /\ "look" \notin Masking \cup {"setflags"}
    BY <1>6 DEF TxHappened, entries, Masking
  <2>2. CASE call'[t] = NoCall /\ UNCHANGED masks
    <3>1. Leaves(f)
      BY <1>0, <1>4, <2>1, <2>2 DEF Leaves, masks
    <3>2. QED
      BY <1>0, <1>1, <1>2, <1>3, <2>1, <2>2, <3>1, Untouched
  <2>3. CASE /\ call'[t].op = "lsr" /\ call'[t].file = g /\ call'[t].at = call[t].at
             /\ call'[t].old = node[g].flag /\ Copies(g)
    <3>1. CASE f = g
      <4>1. call'[t].at = "begun" /\ call'[t].op \in Masking
        BY <1>0, <2>1, <2>3 DEF Masking
      <4>2. QED
        BY <1>0, <1>1, <1>4, <2>1, <2>3, <3>1, <4>1, CopyMask
    <3>2. CASE f # g
      <4>1. Leaves(f)
        BY <1>0, <1>4, <2>1, <2>3, <3>2 DEF Leaves, Copies
      <4>2. QED
        BY <1>0, <1>1, <1>2, <2>1, <2>3, <3>2, <4>1, Untouched
    <3>3. QED
      BY <3>1, <3>2
  <2>4. QED
    BY <1>6, <2>2, <2>3, OwnCall
<1>7. CASE ChangeMask(t)
  <2>. DEFINE x == Changed(call[t].op, node[g].flag, call[t].old)
  <2>1. /\ call[t].op \in Masking \cup {"setflags"} /\ call[t].at = "begun" /\ g \in Files
        /\ node' = [node EXCEPT ![g] = [@ EXCEPT !.flag = x]] /\ UNCHANGED drv /\ UNCHANGED masks
    BY <1>0, <1>7 DEF ChangeMask
  <2>2. /\ call'[t].op = call[t].op /\ call'[t].file = g
        /\ call'[t].old = call[t].old /\ call'[t].at = "changed"
    BY <1>7, OwnCall
  <2>3. call[t].op = "setflags" => x = call[t].old
    BY DEF Changed
  <2>4. call[t].op # "setflags" => Others(x) = Others(node[g].flag)
    <3>1. CASE call[t].op = "lsr"
      BY <3>1 DEF Changed, Others
    <3>2. CASE call[t].op \notin {"setflags", "lsr"}
      BY <3>2 DEF Changed, Others
    <3>3. QED
      BY <3>1, <3>2
  <2>. HIDE DEF x
  <2>5. /\ node'[f].hComm = node[f].hComm
        /\ node'[f].flag = IF f = g THEN x ELSE node[f].flag
    BY <2>1, NodeFields
  <2>6. CASE f = g
    <3>1. Maskers(f)' = Maskers(f) /\ t \in Maskers(f) /\ \A u \in Maskers(f) \ {t} : call'[u] = call[u]
      BY <1>0, <2>1, <2>2, <2>6 DEF Maskers, On
    <3>2. QED
      BY <1>0, <1>4, <2>1, <2>2, <2>3, <2>4, <2>5, <2>6, <3>1 DEF MaskOf, masks
  <2>7. CASE f # g
    <3>1. Leaves(f)
      BY <1>0, <1>4, <2>1, <2>5, <2>7 DEF Leaves, masks
    <3>2. QED
      BY <1>0, <1>1, <1>2, <2>2, <2>7, <3>1, Untouched
  <2>8. QED
    BY <2>6, <2>7
<1>8. CASE SetCommMask(t)
  <2>1. /\ call[t].at = "changed" /\ g \in Files /\ UNCHANGED node /\ UNCHANGED masks
        /\ drv' = IF node[g].hComm = "open" THEN [drv EXCEPT ![g] = node[g].flag] ELSE drv
    BY <1>0, <1>8 DEF SetCommMask
  <2>2. drv \in [Files -> Masks]
    BY Parts DEF DataPart
  <2>3. CASE f = g
    <3>1. node[f].hComm = "open" => drv'[f] = node[f].flag
      BY <2>1, <2>2, <2>3
    <3>2. CASE call'[t] = NoCall /\ call[t].op = "setflags"
      <4>1. t \in Maskers(f) /\ Maskers(f)' = Maskers(f) \ {t}
        BY <1>0, <1>3, <2>3, <3>2 DEF Maskers, On
      <4>2. QED
        BY <1>0, <1>4, <2>1, <3>1, <3>2, <4>1 DEF MaskOf, masks
    <3>3. CASE /\ call'[t].op = call[t].op /\ call'[t].file = g
               /\ call'[t].old = call[t].old /\ call'[t].at = "set"
               /\ call[t].op # "setflags"
      <4>1. Maskers(f)' = Maskers(f) /\ t \in Maskers(f) /\ \A u \in Maskers(f) \ {t} : call'[u] = call[u]
        BY <1>0, <2>1, <2>3, <3>3 DEF Maskers, On
      <4>2. QED
        BY <1>0, <1>4, <2>1, <3>1, <3>3, <4>1 DEF MaskOf, masks
    <3>4. QED
      BY <1>8, <3>2, <3>3, OwnCall
  <2>4. CASE f # g
    <3>1. Leaves(f)
      BY <1>0, <1>4, <2>1, <2>2, <2>4 DEF Leaves, masks
    <3>2. call'[t] = NoCall \/ call'[t].file = g
      BY <1>8, OwnCall
    <3>3. QED
      BY <1>0, <1>1, <1>2, <1>3, <2>4, <3>1, <3>2, Untouched
  <2>5. QED
    BY <2>3, <2>4
<1>9. CASE RestoreFlag(t)
  <2>1. /\ call[t].at = "set" /\ g \in Files /\ UNCHANGED drv /\ UNCHANGED masks
        /\ node' = [node EXCEPT ![g] = [@ EXCEPT !.flag = call[t].old]]
        /\ call[t].op \in Masking /\ call[t].op # "setflags"
    BY <1>0, <1>9 DEF RestoreFlag, FlagAfter, Masking
  <2>2. /\ node'[f].hComm = node[f].hComm
        /\ node'[f].flag = IF f = g THEN call[t].old ELSE node[f].flag
    BY <2>1, NodeFields
  <2>3. CASE f = g
    <3>1. t \in Maskers(f)
      BY <2>1, <2>3 DEF Maskers, On
    <3>2. CASE call'[t] = NoCall
      <4>1. Maskers(f)' = Maskers(f) \ {t} /\ \A u \in Maskers(f)' : call'[u] = call[u]
        BY <1>0, <1>3, <3>2 DEF Maskers, On
      <4>2. QED
        BY <1>0, <1>4, <2>1, <2>2, <2>3, <3>1, <4>1 DEF MaskOf, masks
    <3>3. CASE /\ call'[t].op = call[t].op /\ call'[t].file = g
               /\ call'[t].old = call[t].old /\ call'[t].at = "restored"
      <4>1. Maskers(f)' = Maskers(f) /\ \A u \in Maskers(f) \ {t} : call'[u] = call[u]
        BY <1>0, <2>1, <2>3, <3>3 DEF Maskers, On
      <4>2. QED
        BY <1>0, <1>4, <2>1, <2>2, <2>3, <3>1, <3>3, <4>1 DEF MaskOf, masks
    <3>4. QED
      BY <1>9, <3>2, <3>3, OwnCall
  <2>4. CASE f # g
    <3>1. Leaves(f)
      BY <1>0, <1>4, <2>1, <2>2, <2>4 DEF Leaves, masks
    <3>2. call'[t] = NoCall \/ call'[t].file = g
      BY <1>9, OwnCall
    <3>3. QED
      BY <1>0, <1>1, <1>2, <1>3, <2>4, <3>1, <3>2, Untouched
  <2>5. QED
    BY <2>3, <2>4
<1>10. CASE StoreTx(t)
  <2>. DEFINE b == (call[t].op # "lsr")
  <2>1. /\ call[t].at = "restored" /\ g \in Files /\ UNCHANGED drv /\ UNCHANGED masks
        /\ node' = [node EXCEPT ![g] = [@ EXCEPT !.tx = b]]
        /\ call[t].op \in Masking /\ call[t].op # "setflags" /\ call'[t] = NoCall
    BY <1>0, <1>10, OwnCall DEF StoreTx, Masking
  <2>. HIDE DEF b
  <2>2. node'[f].hComm = node[f].hComm /\ node'[f].flag = node[f].flag
    BY <2>1, NodeFields
  <2>3. Leaves(f)
    BY <1>0, <1>4, <2>1, <2>2 DEF Leaves, masks
  <2>4. QED
    BY <1>0, <1>1, <1>2, <1>3, <2>1, <2>3, LeaveMask, Untouched
<1>11. QED
  BY <1>5, <1>6, <1>7, <1>8, <1>9, <1>10 DEF Marking

\* The calls that begin.
LEMMA EnteringMask ==
  ASSUME TInv, NEW f \in Files, MaskOf(f), NEW t \in Threads, Alone(t), NEW p \in held, Entering(t, p)
  PROVE  MaskOf(f)'
<1>. DEFINE g == find_port(p.fd)
<1>0. /\ \A u \in Threads \ {t} : call'[u] = call[u]
      /\ Live' \subseteq Live /\ f # NoFile /\ node \in [Files -> NodeType]
      /\ asked \in [Files -> Masks]
  BY AloneCalls, LiveStep, FilesAssumption, Parts DEF NodePart, DataPart
<1>1. /\ call'[t].file = g /\ call'[t].at = "begun" /\ g \in Files
      /\ call[t].op = "none" /\ t \notin Maskers(f)
  <2>1. \A m \in {{"RXCHAR"}, {"RXCHAR", "TXEMPTY"}} : termios_setflags(t, p, m) =>
          /\ call'[t].file = g /\ call'[t].at = "begun" /\ g \in Files /\ call[t].op = "none"
    BY Enters
  <2>2. serial_write(t, p) \/ tcdrain(t, p) \/ tcflush(t, p) \/ TIOCSERGETLSR(t, p) =>
          /\ call'[t].file = g /\ call'[t].at = "begun" /\ g \in Files /\ call[t].op = "none"
    BY Enters DEF serial_write, tcdrain, tcflush
  <2>3. QED
    BY <2>1, <2>2 DEF Entering, Maskers, On, Masking
<1>2. t \in Maskers(f)' <=> g = f /\ call'[t].op \in Masking \cup {"setflags"}
  BY <1>1 DEF Maskers, On
<1>3. ASSUME NEW m \in {{"RXCHAR"}, {"RXCHAR", "TXEMPTY"}}, termios_setflags(t, p, m)
      PROVE  MaskOf(f)'
  <2>1. /\ node' = [node EXCEPT ![g] = [@ EXCEPT !.flag = {}]] /\ asked' = [asked EXCEPT ![g] = m]
        /\ crossed' = IF Maskers(g) = {} /\ node[g].hComm = "open" THEN crossed ELSE crossed \cup {g}
        /\ UNCHANGED <<drv, lapped, reused>> /\ call'[t].op = "setflags" /\ call'[t].old = m
    BY <1>3, Enters DEF termios_setflags, Maskers
  <2>2. node'[f].hComm = node[f].hComm /\ (f # g => node'[f].flag = node[f].flag)
    BY <1>1, <2>1, NodeFields
  <2>3. CASE f = g
    <3>1. asked'[f] = m
      BY <1>0, <2>1, <2>3
    <3>2. f \notin crossed' => Maskers(f) = {} /\ node[f].hComm = "open"
      BY <2>1, <2>3
    <3>3. Maskers(f) = {} => Maskers(f)' = {t}
      BY <1>0, <1>2, <2>1, <2>3 DEF Maskers, On
    <3>4. QED
      BY <1>1, <2>1, <2>2, <3>1, <3>2, <3>3 DEF MaskOf
  <2>4. CASE f # g
    <3>1. Leaves(f)
      BY <1>0, <1>1, <2>1, <2>2, <2>4 DEF Leaves
    <3>2. QED
      BY <1>0, <1>1, <1>2, <2>4, <3>1, Untouched
  <2>5. QED
    BY <2>3, <2>4
<1>4. CASE serial_write(t, p) \/ tcdrain(t, p) \/ tcflush(t, p)
  <2>1. /\ Copies(g) /\ UNCHANGED <<drv, reused>>
        /\ UNCHANGED node \/ node' = [node EXCEPT ![g] = [@ EXCEPT !.tx = TRUE]]
    BY <1>4 DEF serial_write, tcdrain, tcflush, entries
  <2>2. node'[f].hComm = node[f].hComm /\ node'[f].flag = node[f].flag
    BY <1>1, <2>1, NodeFields
  <2>3. call'[t].op \in Masking /\ call'[t].old = node[g].flag
    BY <1>4, Enters DEF serial_write, tcdrain, tcflush, Masking
  <2>4. CASE f = g
    BY <1>0, <1>1, <2>1, <2>2, <2>3, <2>4, CopyMask
  <2>5. CASE f # g
    <3>1. Leaves(f)
      BY <1>0, <2>1, <2>2, <2>5 DEF Leaves, Copies
    <3>2. QED
      BY <1>0, <1>1, <1>2, <2>5, <3>1, Untouched
  <2>6. QED
    BY <2>4, <2>5
<1>5. CASE TIOCSERGETLSR(t, p)
  <2>1. UNCHANGED <<node, drv, masks, reused>> /\ call'[t].op \notin Masking \cup {"setflags"}
    BY <1>5, Enters DEF TIOCSERGETLSR, entries, Masking
  <2>2. Leaves(f)
    BY <1>0, <2>1 DEF Leaves, masks
  <2>3. QED
    BY <1>0, <1>1, <1>2, <2>1, <2>2, Untouched
<1>6. QED
  BY <1>3, <1>4, <1>5 DEF Entering

LEMMA MaskStep == MaskInv /\ [Next]_vars => \A f \in Files : MaskOf(f)'
<1> SUFFICES ASSUME MaskInv, [Next]_vars, NEW f \in Files PROVE MaskOf(f)'
  OBVIOUS
<1>0. /\ TInv /\ MaskOf(f) /\ call \in [Threads -> CallType] /\ node \in [Files -> NodeType]
      /\ drv \in [Files -> Masks] /\ asked \in [Files -> Masks] /\ f # NoFile
  BY CallsType, Parts, FilesAssumption DEF MaskInv, NodePart, DataPart
<1>1. CASE UNCHANGED vars \/ Device
  <2>1. UNCHANGED <<list, node, drv, call, masks, reused>>
    BY <1>1 DEF vars, Device, entries
  <2>2. Live' = Live /\ Maskers(f)' = Maskers(f)
    BY <2>1 DEF Live, Listed, Maskers, On
  <2>3. QED
    BY <1>0, <2>1, <2>2, MaskSame DEF masks
<1>2. ASSUME NEW t \in Threads, NEW g \in Files, serial_open(t, g)
      PROVE  MaskOf(f)'
  <2>1. /\ asked' = [asked EXCEPT ![g] = {}] /\ crossed' = crossed \ {g} /\ lapped' = lapped \ {g}
        /\ UNCHANGED drv /\ Listed' = Listed
    BY <1>2 DEF serial_open, Listed
  <2>2. CASE f = g
    <3>1. node'[f].hComm = "none" /\ node'[f].flag = {} /\ asked'[f] = {}
      BY <1>0, <1>2, <2>1, <2>2, OpenCalls DEF NewNode
    <3>2. f \notin reused' => Maskers(f)' = {}
      <4>1. \A u \in Threads : call'[u].file = f /\ call'[u].op \in Masking \cup {"setflags"} => f \in reused'
        BY <1>0, <1>2, <2>2, OpenCalls DEF Masking
      <4>2. QED
        BY <4>1 DEF Maskers, On
    <3>3. QED
      BY <3>1, <3>2 DEF MaskOf
  <2>3. CASE f # g
    <3>1. \A u \in Threads : call'[u].file = f => call'[u] = call[u]
      BY <1>0, <1>2, <2>3, OpenCalls
    <3>2. \A u \in Threads : call[u].file = f /\ call[u].op # "none" => call'[u] = call[u]
      BY <1>0, <1>2, <2>3, OpenCalls, NoCallIs
    <3>3. \A u \in Threads : u \in Maskers(f) \/ u \in Maskers(f)' =>
           /\ u \in Maskers(f) /\ u \in Maskers(f)'
           /\ call'[u].op = call[u].op /\ call'[u].at = call[u].at /\ call'[u].old = call[u].old
      BY <3>1, <3>2 DEF Maskers, On, Masking
    <3>4. node'[f] = node[f] /\ (f \in reused' <=> f \in reused) /\ asked'[f] = asked[f]
      BY <1>0, <1>2, <2>1, <2>3, OpenCalls
    <3>5. f \in Live' => f \in Live
      BY <2>1, <3>1 DEF Live
    <3>6. QED
      BY <1>0, <2>1, <2>3, <3>3, <3>4, <3>5, MaskSame
  <2>4. QED
    BY <2>2, <2>3
<1>3. ASSUME NEW t \in Threads, OpenFails(t) \/ \E p \in held : serial_close(t, p)
      PROVE  MaskOf(f)'
  <2>1. UNCHANGED <<node, drv, masks, reused>> /\ Live' \subseteq Live
    BY <1>0, <1>3, FreeCalls, LiveStep
  <2>2. CASE f \in Listed'
    <3>1. \A u \in Threads : call[u].file = f /\ call[u].op # "open" => call'[u] = call[u]
      BY <1>0, <1>3, <2>2, FreeCalls
    <3>2. \A u \in Threads : call'[u].file = f => call'[u] = call[u]
      BY <1>0, <1>3, <2>2, FreeCalls, NoCallIs
    <3>3. \A u \in Threads : u \in Maskers(f) \/ u \in Maskers(f)' =>
           /\ u \in Maskers(f) /\ u \in Maskers(f)'
           /\ call'[u].op = call[u].op /\ call'[u].at = call[u].at /\ call'[u].old = call[u].old
      BY <3>1, <3>2 DEF Maskers, On, Masking
    <3>4. QED
      BY <1>0, <2>1, <3>3, MaskSame DEF masks
  <2>3. CASE f \notin Listed' /\ f \in Live'
    <3>1. PICK v \in Threads : call'[v].op \in Unlinked /\ call'[v].file = f
      BY <2>3 DEF Live
    <3>2. call'[v] = call[v] /\ f \notin Listed
      BY <1>0, <1>3, <3>1, FreeCalls, NoCallIs, Parts DEF Unlinked, Opening, Adding, CallPart, CallInv
    <3>3. \A u \in Threads : call[u].file = f /\ call[u].op # "open" => call'[u] = call[u]
      BY <1>0, <1>3, <3>2, FreeCalls
    <3>4. \A u \in Threads : call'[u].file = f => call'[u] = call[u]
      BY <1>0, <1>3, FreeCalls, NoCallIs
    <3>5. \A u \in Threads : u \in Maskers(f) \/ u \in Maskers(f)' =>
           /\ u \in Maskers(f) /\ u \in Maskers(f)'
           /\ call'[u].op = call[u].op /\ call'[u].at = call[u].at /\ call'[u].old = call[u].old
      BY <3>3, <3>4 DEF Maskers, On, Masking
    <3>6. QED
      BY <1>0, <2>1, <3>5, MaskSame DEF masks
  <2>4. CASE f \notin Live'
    BY <2>4 DEF MaskOf
  <2>5. QED
    BY <2>2, <2>3, <2>4
<1>4. ASSUME NEW t \in Threads, serial_read(t)
      PROVE  MaskOf(f)'
  <2>1. UNCHANGED <<node, drv, masks, reused>> /\ Live' \subseteq Live
    BY <1>0, <1>4, LiveStep DEF serial_read, entries
  <2>2. PICK n \in 0 .. call[t].size, again \in BOOLEAN :
          call' = [u \in Threads |->
             CASE u = t -> IF again THEN [call[t] EXCEPT !.size = @ - n] ELSE NoCall
               [] u # t -> IF call[u].op = "read" /\ call[u].file = call[t].file /\ n > 0
                           THEN [call[u] EXCEPT !.ok = FALSE] ELSE call[u]]
    BY <1>4 DEF serial_read
  <2>3. \A u \in Threads : /\ [call[u] EXCEPT !.ok = FALSE].op = call[u].op
                           /\ [call[u] EXCEPT !.size = @ - n].op = call[u].op
    BY <1>0 DEF CallType
  <2>4. call[t].op = "read"
    BY <1>4 DEF serial_read
  <2>5. \A u \in Threads : call'[u] = call[u] \/ /\ call'[u].op \notin Masking \cup {"setflags"}
                                                 /\ call[u].op \notin Masking \cup {"setflags"}
    BY <2>2, <2>3, <2>4, NoCallIs DEF Masking
  <2>6. \A u \in Threads : u \in Maskers(f) \/ u \in Maskers(f)' =>
          /\ u \in Maskers(f) /\ u \in Maskers(f)'
          /\ call'[u].op = call[u].op /\ call'[u].at = call[u].at /\ call'[u].old = call[u].old
    BY <2>5 DEF Maskers, On
  <2>7. QED
    BY <1>0, <2>1, <2>6, MaskSame DEF masks
<1>5. ASSUME NEW t \in Threads, Alone(t), Settled(t), ~ReturnsEarly(t)
      PROVE  MaskOf(f)'
  <2>1. /\ UNCHANGED <<masks, reused>> /\ Live' \subseteq Live /\ node'[f].flag = node[f].flag
        /\ ~CreateFile(t) => UNCHANGED <<node, drv>>
        /\ \A u \in Threads \ {t} : call'[u] = call[u]
    BY <1>0, <1>5, SettledIs, LiveStep, AloneCalls
  <2>2. t \notin Maskers(f) /\ t \notin Maskers(f)'
    <3>1. call[t].file = NoFile \/ call[t].op \in {"none", "open", "test", "wait", "break"}
      BY <1>0, <1>5, SettledIs
    <3>2. call'[t].op \in {"none", "test", "break", "wait", "read", "open"}
      BY <1>0, <1>5, SettledIs
    <3>3. QED
      BY <1>0, <3>1, <3>2 DEF Maskers, On, Masking
  <2>3. CASE ~CreateFile(t) \/ f # call[t].file
    <3>1. node'[f].hComm = node[f].hComm /\ drv'[f] = drv[f]
      BY <1>0, <2>1, <2>3 DEF CreateFile
    <3>2. QED
      BY <1>0, <2>1, <2>2, <3>1, Untouched DEF Leaves, masks
  <2>4. CASE CreateFile(t) /\ f = call[t].file
    <3>1. /\ node[f].hComm = "none"
          /\ \/ node'[f].hComm = "open" /\ drv'[f] = {}
             \/ node'[f].hComm = "invalid"
      BY <1>0, <2>4 DEF CreateFile, NodeType
    <3>2. Maskers(f)' = Maskers(f) /\ UNCHANGED call
      BY <2>4 DEF CreateFile, Maskers, On
    <3>3. Others({}) = {}
      BY DEF Others
    <3>4. QED
      BY <1>0, <2>1, <3>1, <3>2, <3>3 DEF MaskOf, masks
  <2>5. QED
    BY <2>3, <2>4
<1>6. ASSUME NEW t \in Threads, Alone(t), Linking(t)
      PROVE  MaskOf(f)'
  <2>1. /\ UNCHANGED <<drv, masks, reused>> /\ Live' \subseteq Live
        /\ \A u \in Threads \ {t} : call'[u] = call[u]
    BY <1>0, <1>6, LiveStep, AloneCalls DEF Linking, Numbered, Walk, add_port, NextIsNull, entries
  <2>2. node'[f].hComm = node[f].hComm /\ node'[f].flag = node[f].flag
    <3>1. CASE UNCHANGED node
      BY <3>1
    <3>2. CASE Numbered(t)
      <4>1. node' = [node EXCEPT ![call[t].file] = [@ EXCEPT !.fd = get_free_fd]] /\ call[t].file \in Files
        BY <1>0, <3>2, CallOf DEF Numbered, Opening, Adding
      <4>2. QED
        BY <1>0, <4>1, NodeFields
    <3>3. QED
      BY <1>6, <3>1, <3>2 DEF Linking, Walk, add_port, NextIsNull, entries
  <2>3. t \notin Maskers(f) /\ t \notin Maskers(f)'
    <3>1. call[t].op \in {"adding", "numbered", "linking", "linked"}
      BY <1>6 DEF Linking, Numbered, Walk, add_port, NextIsNull
    <3>2. call'[t].op \in {"numbered", "linking", "linked", "open", "crashed"}
      BY <1>0, <1>6, OwnCall DEF Linking
    <3>3. QED
      BY <3>1, <3>2 DEF Maskers, On, Masking
  <2>4. QED
    BY <1>0, <2>1, <2>2, <2>3, Untouched DEF Leaves, masks
<1>7. ASSUME NEW t \in Threads, Alone(t)
      PROVE  MaskOf(f)'
  BY <1>0, <1>5, <1>6, <1>7, Kinds, MarkingMask, EnteringMask
<1>8. QED
  BY <1>1, <1>2, <1>3, <1>4, <1>7, Divided

\* The driver's mask and the entry's field are those asked for, the former apart from the
\* end of the output, however calls that change them for a while overlap, and whatever ports
\* are closed and opened under them.
THEOREM KeepsMask == Spec => []MaskKept
<1>1. Init => MaskInv
  <2>1. Init => \A f \in Files : MaskOf(f)
    <3>1. Init => Listed = {}
      BY DEF Init, Listed
    <3>2. Init => \A t \in Threads : call[t].op \notin Unlinked
      BY NoCallIs DEF Init, Unlinked
    <3>3. Init => Live = {}
      BY <3>1, <3>2 DEF Live
    <3>4. QED
      BY <3>3 DEF MaskOf
  <2>2. QED
    BY <2>1, TypeInit DEF MaskInv
<1>2. MaskInv /\ [Next]_vars => MaskInv'
  BY TypeStep, MaskStep DEF MaskInv
<1>3. MaskInv => MaskKept
  <2>1. SUFFICES ASSUME MaskInv, NEW f \in Listed \ (crossed \cup reused), On(f, {"setflags"}) = {}
                 PROVE  /\ node[f].hComm = "open" => Others(drv[f]) = Others(asked[f])
                        /\ f \notin lapped /\ (\A t \in On(f, Masking) : call[t].at \notin {"changed", "set"}) =>
                             node[f].flag = asked[f]
    BY DEF MaskKept, Others
  <2>2. f \in Live /\ f \in Files /\ MaskOf(f)
    <3>1. f \in Files
      BY <2>1, ListedFiles DEF MaskInv, TInv
    <3>2. QED
      BY <2>1, <3>1 DEF Live, MaskInv
  <2>3. \A t \in Maskers(f) : call[t].op # "setflags" /\ t \in On(f, Masking)
    BY <2>1 DEF Maskers, On
  <2>4. QED
    BY <2>1, <2>2, <2>3 DEF MaskOf
<1>4. QED
  BY <1>1, <1>2, <1>3, PTL DEF Spec

-----------------------------------------------------------------------------
(* Descriptors.                                                            *)

Ends == {t \in Threads : call[t].op \in {"linked", "open"}}
Owners == {p.file : p \in held} \cup {call[t].file : t \in Ends}
Head1 == IF list = <<>> THEN NoFile ELSE list[1]
Last == IF list = <<>> THEN NoFile ELSE list[Len(list)]

\* What an open knows of the list, at each of its steps.
Knows(t) ==
  /\ call[t].op # "crashed"
  /\ call[t].op \in {"adding", "numbered"} => call[t].tail = Head1
  /\ call[t].op \in {"numbered", "linking"} =>
       call[t].fd = Len(list) + 1 /\ node[call[t].file].fd = Len(list) + 1
  /\ call[t].op = "linking" => call[t].tail = Last
  /\ call[t].op = "linked" => Last = call[t].file
  /\ call[t].op \in {"linked", "open"} => call[t].fd \in DOMAIN list /\ list[call[t].fd] = call[t].file
  /\ call[t].op \in Opening => \A p \in held : p.file # call[t].file

\* The numbers count the entries; who has a port open, or opens it, has the number of its
\* entry, and nobody else has.
Numbers ==
  /\ \A i \in DOMAIN list : Fd(i) = i
  /\ \A p \in held : p.fd \in DOMAIN list /\ list[p.fd] = p.file
  /\ \A t \in Threads : Knows(t)
  /\ ~skipped => Listed = Owners
NumberInv == TInv /\ (~gap /\ ~mingled => Numbers)

\* As long as the numbers count the entries, a number is found at its place, and the
\* next one is free.
LEMMA Places ==
  ASSUME TInv, \A i \in DOMAIN list : Fd(i) = i
  PROVE  /\ \A k \in DOMAIN list : find_port(k) = list[k] /\ list[k] \in Files /\ list[k] \in Listed
         /\ get_free_fd = Len(list) + 1
<1>1. DOMAIN list = 1 .. Len(list) /\ Len(list) \in Nat /\ \A k \in DOMAIN list : list[k] \in Files
  BY DEF TInv, TypeOK
<1>2. ASSUME NEW k \in DOMAIN list PROVE find_port(k) = list[k]
  <2>1. \A i \in First(k) : i = k
    BY DEF First
  <2>2. \A j \in 1 .. k - 1 : Fd(j) # k
    BY <1>1
  <2>3. k \in First(k)
    BY <2>2 DEF First
  <2>4. (CHOOSE i \in First(k) : TRUE) \in First(k)
    BY <2>3
  <2>5. QED
    BY <2>1, <2>3, <2>4 DEF find_port
<1>3. list = <<>> => get_free_fd = Len(list) + 1
  BY DEF get_free_fd
<1>4. ASSUME list # <<>> PROVE get_free_fd = Len(list) + 1
  <2>. DEFINE P(i) == Gap(i) /\ \A j \in 1 .. i - 1 : ~Gap(j)
              n == CHOOSE i \in DOMAIN list : P(i)
  <2>1. Len(list) \in DOMAIN list /\ 1 \in DOMAIN list
    BY <1>1, <1>4
  <2>2. \A i \in DOMAIN list : Gap(i) <=> i = Len(list)
    BY <1>1 DEF Gap
  <2>3. P(Len(list)) /\ \A i \in DOMAIN list : P(i) => i = Len(list)
    BY <1>1, <2>1, <2>2
  <2>. HIDE DEF P
  <2>4. n = Len(list)
    BY <2>1, <2>3
  <2>5. Fd(1) = 1 /\ Fd(n) = n
    BY <2>1, <2>4
  <2>6. get_free_fd = Fd(n) + 1
    BY <1>4, <2>5 DEF get_free_fd, P
  <2>7. QED
    BY <2>4, <2>5, <2>6
<1>5. QED
  BY <1>1, <1>2, <1>3, <1>4 DEF Listed

\* A step that leaves the list, the numbers and who has which, and opens nothing.
LEMMA NumbersSame ==
  ASSUME TInv, Numbers, UNCHANGED <<list, held, skipped>>,
         \A f \in Files : node'[f].fd = node[f].fd,
         \A u \in Threads :
           \/ call'[u] = call[u]
           \/ call[u].op \notin Opening /\ call'[u].op \notin Opening \cup {"crashed"}
  PROVE  Numbers'
<1>1. Ends' = Ends /\ \A t \in Ends : call'[t] = call[t]
  <2>1. {"linked", "open"} \subseteq Opening
    BY DEF Opening, Adding
  <2>2. \A t \in Threads : t \in Ends => call'[t] = call[t] /\ t \in Ends'
    BY <2>1 DEF Ends
  <2>3. \A t \in Threads : t \in Ends' => t \in Ends
    BY <2>1 DEF Ends
  <2>4. QED
    BY <2>2, <2>3 DEF Ends
<1>2. Listed' = Listed /\ Owners' = Owners /\ Head1' = Head1 /\ Last' = Last
  BY <1>1 DEF Listed, Owners, Head1, Last
<1>3. \A i \in DOMAIN list : Fd(i)' = Fd(i)
  BY DEF Fd, TInv, TypeOK
<1>4. ASSUME NEW t \in Threads PROVE Knows(t)'
  <2>1. CASE call'[t] = call[t]
    <3>1. call[t].op \in Opening => call[t].file \in Files
      BY CallOf
    <3>2. {"adding", "numbered", "linking", "linked", "open"} \subseteq Opening
      BY DEF Opening, Adding
    <3>3. Knows(t)
      BY DEF Numbers
    <3>4. QED
      BY <1>2, <2>1, <3>1, <3>2, <3>3 DEF Knows
  <2>2. CASE call'[t].op \notin Opening \cup {"crashed"}
    BY <2>2 DEF Knows, Opening, Adding
  <2>3. QED
    BY <2>1, <2>2
<1>5. QED
  BY <1>1, <1>2, <1>3, <1>4 DEF Numbers

\* What a close of a port does to the list while only the last entry was ever removed.
LEMMA LastGoes ==
  ASSUME TInv, Numbers, NEW fd \in DOMAIN list,
         IF list = <<>> THEN UNCHANGED <<list, gap, skipped>> ELSE Unlink(fd),
         ~gap'
  PROVE  \/ UNCHANGED list /\ skipped'
         \/ /\ fd = Len(list) /\ UNCHANGED skipped /\ list' # list
            /\ DOMAIN list' = 1 .. Len(list) - 1
            /\ \A i \in DOMAIN list' : list'[i] = list[i] /\ i \in DOMAIN list
            /\ Listed' = Listed \ {list[fd]}
<1>1. DOMAIN list = 1 .. Len(list) /\ Len(list) \in Nat
  BY DEF TInv, TypeOK
<1>2. find_port(fd) = list[fd] /\ list[fd] \in Files
  BY Places DEF Numbers
<1>3. list # <<>> /\ Unlink(fd) /\ list[fd] # NoFile
  BY <1>1, <1>2, FilesAssumption
<1>4. CASE Skips
  <2>1. skipped'
    BY Zenon, <1>3, <1>4 DEF Unlink
  <2>2. UNCHANGED list
    BY <1>3, <1>4 DEF Unlink
  <2>3. QED
    BY <2>1, <2>2
<1>5. CASE ~Skips
  <2>1. PICK i \in DOMAIN list : /\ list[i] = list[fd] /\ list' = Without(i)
                                 /\ gap' = (gap \/ i # Len(list)) /\ UNCHANGED skipped
    BY <1>2, <1>3, <1>5 DEF Unlink
  <2>2. i = fd
    BY <2>1 DEF TInv, ListInv
  <2>3. i = Len(list)
    BY Zenon, <2>1
  <2>4. Listed' = Listed \ {list[fd]} /\ list' # list
    <3>1. Listed' = Listed \ {list[i]} /\ Len(list') = Len(list) - 1
      BY <2>1, RemoveEntry DEF TInv
    <3>2. \A n \in Nat : n - 1 # n
      OBVIOUS
    <3>3. list' # list
      BY Zenon, <1>1, <3>1, <3>2
    <3>4. QED
      BY <2>2, <3>1, <3>3
  <2>5. list' = [k \in 1 .. Len(list) - 1 |-> IF k < Len(list) THEN list[k] ELSE list[k + 1]]
    BY <2>1, <2>3 DEF Without
  <2>6. /\ DOMAIN list' = 1 .. Len(list) - 1
        /\ \A k \in DOMAIN list' : list'[k] = list[k] /\ k \in DOMAIN list
    <3>1. DOMAIN list' = 1 .. Len(list) - 1
      BY <2>5
    <3>2. ASSUME NEW k \in 1 .. Len(list) - 1 PROVE list'[k] = list[k] /\ k \in DOMAIN list
      <4>1. k < Len(list) /\ k \in DOMAIN list
        BY <1>1
      <4>2. QED
        BY <2>5, <4>1
    <3>3. QED
      BY <3>1, <3>2
  <2>7. QED
    BY <2>1, <2>2, <2>3, <2>4, <2>6
<1>6. QED
  BY <1>4, <1>5

\* The steps that leave the list and the opens under way as they are.
LEMMA NumbersKept ==
  ASSUME TInv, Numbers, NEW t \in Threads, Alone(t), ~Linking(t), ~CreateFile(t), ~OpenDone(t)
  PROVE  Numbers'
<1>1. UNCHANGED <<list, held, skipped>>
  BY Kinds DEF Linking, Settled, Entering, Marking, serial_test, termios_setflags, serial_write,
     tcdrain, tcflush, TIOCSERGETLSR, sendBreak, BeginRead, TestDone, Dangling, ReturnsEarly,
     TxHappened, ChangeMask, SetCommMask, RestoreFlag, StoreTx, ReadWaits, tcsendbreak,
     entries, ghosts
<1>2. \A f \in Files : node'[f].fd = node[f].fd
  <2>0. node \in [Files -> NodeType]
    BY Parts DEF NodePart
  <2>1. ASSUME NEW g, NEW x, \/ node' = [node EXCEPT ![g].flag = x]
                             \/ node' = [node EXCEPT ![g].tx = x]
        PROVE  \A f \in Files : node'[f].fd = node[f].fd
    BY <2>0, <2>1 DEF NodeType
  <2>2. \/ UNCHANGED node
        \/ \E g, x : \/ node' = [node EXCEPT ![g].flag = x]
                     \/ node' = [node EXCEPT ![g].tx = x]
    BY Kinds DEF Linking, Settled, Entering, Marking, serial_test, termios_setflags, serial_write,
       tcdrain, tcflush, TIOCSERGETLSR, sendBreak, BeginRead, TestDone, Dangling, ReturnsEarly,
       TxHappened, ChangeMask, SetCommMask, RestoreFlag, StoreTx, ReadWaits, tcsendbreak, entries
  <2>3. QED
    BY <2>1, <2>2
<1>3. call[t].op \notin Opening
  <2>1. /\ call[t].at # "begun" => call[t].op \in Masking \cup {"setflags"}
        /\ call[t].op \in Opening => call[t].file # NoFile
    BY CallOf DEF Proper
  <2>2. \A p \in held : Entering(t, p) \/ sendBreak(t, p) \/ (\E n \in Sizes : BeginRead(t, p, n))
                        => call[t].op = "none"
    BY DEF Entering, termios_setflags, serial_write, tcdrain, tcflush, TIOCSERGETLSR, sendBreak,
       BeginRead, Enter, Idle
  <2>3. QED
    BY <2>1, <2>2, Kinds DEF Linking, Settled, Marking, serial_test, TestDone, Dangling, ReturnsEarly,
       TxHappened, ChangeMask, SetCommMask, RestoreFlag, StoreTx, ReadWaits, tcsendbreak, Idle,
       Opening, Adding, Masking
<1>4. call'[t].op \notin Opening \cup {"crashed"}
  <2>1. CASE Settled(t)
    <3>1. \A p \in held : sendBreak(t, p) \/ (\E n \in Sizes : BeginRead(t, p, n))
                          => call'[t].op \in {"break", "wait"}
      BY Enters
    <3>2. QED
      BY <2>1, <3>1, OwnCall, NoCallIs DEF Settled, TestDone, Dangling, ReturnsEarly, tcsendbreak,
         Opening, Adding
  <2>2. ASSUME NEW p \in held, Entering(t, p)
        PROVE  call'[t].op \in {"setflags", "write", "drain", "flush", "look"}
    BY <2>2, Enters DEF Entering, serial_write, tcdrain, tcflush
  <2>3. CASE Marking(t)
    <3>1. call[t].op # "crashed"
      BY DEF Numbers, Knows
    <3>2. QED
      BY <1>3, <2>3, <3>1, OwnCall, NoCallIs DEF Marking, StoreTx, Opening, Adding
  <2>4. QED
    BY <2>1, <2>2, <2>3, Kinds DEF Opening, Adding
<1>5. QED
  BY <1>1, <1>2, <1>3, <1>4, AloneCalls, NumbersSame

\* An open begins: it sees the first entry.
LEMMA NumbersOpen ==
  ASSUME TInv, Numbers, NEW t \in Threads, NEW f \in Files, serial_open(t, f)
  PROVE  Numbers'
<1>1. /\ UNCHANGED <<list, held, skipped>> /\ f \notin Listed /\ \A p \in held : p.file # f
      /\ \A u \in Threads : call[u].file = f => call[u].op = "test"
  BY DEF serial_open, Opens, port_opened, ghosts
<1>2. /\ call[t].op = "none"
      /\ call'[t].op = "adding" /\ call'[t].file = f /\ \A g \in Files \ {f} : node'[g] = node[g]
      /\ \A u \in Threads \ {t} :
           \/ call'[u] = call[u]
           \/ call[u].op \notin Opening /\ call'[u].op = call[u].op
  BY OpenCalls, NoCallIs
<1>3. call'[t].tail = Head1
  BY CallsType DEF serial_open, Head1, NoCall
<1>4. Ends' = Ends /\ \A u \in Ends : call'[u] = call[u]
  <2>1. {"linked", "open"} \subseteq Opening
    BY DEF Opening, Adding
  <2>2. \A u \in Threads : u \in Ends => call'[u] = call[u] /\ u \in Ends'
    BY <1>2, <2>1 DEF Ends
  <2>3. \A u \in Threads : u \in Ends' => u \in Ends
    BY <1>2, <2>1 DEF Ends
  <2>4. QED
    BY <2>2, <2>3 DEF Ends
<1>5. Listed' = Listed /\ Owners' = Owners /\ Head1' = Head1 /\ Last' = Last
  BY <1>1, <1>4 DEF Listed, Owners, Head1, Last
<1>6. \A i \in DOMAIN list : Fd(i)' = Fd(i)
  <2>1. \A i \in DOMAIN list : list[i] \in Files \ {f}
    BY <1>1 DEF Listed, TInv, TypeOK
  <2>2. QED
    BY <1>1, <1>2, <2>1 DEF Fd
<1>7. ASSUME NEW u \in Threads PROVE Knows(u)'
  <2>1. Knows(u)
    BY DEF Numbers
  <2>2. CASE u = t
    BY <1>1, <1>2, <1>3, <1>5, <2>2 DEF Knows
  <2>3. CASE u # t /\ call'[u] = call[u]
    <3>1. call[u].op \in Opening => call[u].file \in Files \ {f}
      BY <1>1, CallOf DEF Opening, Adding
    <3>2. {"adding", "numbered", "linking", "linked", "open"} \subseteq Opening
      BY DEF Opening, Adding
    <3>3. QED
      BY <1>1, <1>2, <1>5, <2>1, <2>3, <3>1, <3>2 DEF Knows
  <2>4. CASE call[u].op \notin Opening /\ call'[u].op = call[u].op
    BY <2>1, <2>4 DEF Knows, Opening, Adding
  <2>5. QED
    BY <1>2, <2>2, <2>3, <2>4
<1>8. QED
  BY <1>1, <1>5, <1>6, <1>7 DEF Numbers

\* An open goes on, and knows what it needs: the list stays as it is.
LEMMA NumbersGoOn ==
  ASSUME TInv, Numbers, NEW t \in Threads, UNCHANGED <<list, held, skipped>>,
         \A u \in Threads \ {t} : call'[u] = call[u],
         \A f \in Files : f # call[t].file => node'[f].fd = node[f].fd,
         call[t].op \in Opening, call'[t].file = call[t].file,
         call[t].op \in Unlinked \/ \A f \in Files : node'[f].fd = node[f].fd,
         call[t].op \in {"linked", "open"} <=> call'[t].op \in {"linked", "open"},
         Knows(t)'
  PROVE  Numbers'
<1>1. Ends' = Ends /\ \A u \in Ends : call'[u].file = call[u].file
  BY DEF Ends
<1>2. Listed' = Listed /\ Owners' = Owners /\ Head1' = Head1 /\ Last' = Last
  BY <1>1 DEF Listed, Owners, Head1, Last
<1>3. \A i \in DOMAIN list : Fd(i)' = Fd(i)
  <2>1. \A i \in DOMAIN list : list[i] \in Files /\ list[i] \in Listed
    BY DEF Listed, TInv, TypeOK
  <2>2. call[t].op \in Unlinked => call[t].file \notin Listed
    BY Parts DEF CallPart, CallInv
  <2>3. QED
    BY <2>1, <2>2 DEF Fd
<1>4. ASSUME NEW u \in Threads \ {t} PROVE Knows(u)'
  <2>1. Knows(u)
    BY DEF Numbers
  <2>2. call[u].op \in Opening => call[u].file \in Files /\ call[u].file # call[t].file
    BY CallOf, Parts DEF CallPart, CallInv
  <2>3. {"adding", "numbered", "linking", "linked", "open"} \subseteq Opening
    BY DEF Opening, Adding
  <2>4. QED
    BY <1>2, <2>1, <2>2, <2>3 DEF Knows
<1>5. QED
  BY <1>2, <1>3, <1>4 DEF Numbers

LEMMA NumbersTaken ==
  ASSUME TInv, Numbers, NEW t \in Threads, Numbered(t)
  PROVE  Numbers'
<1>. DEFINE f == call[t].file
            n == get_free_fd
<1>1. /\ UNCHANGED <<list, held, skipped>> /\ call[t].op = "adding"
      /\ call' = [call EXCEPT ![t].op = "numbered", ![t].fd = n]
      /\ node' = [node EXCEPT ![f].fd = n]
  BY DEF Numbered, ghosts
<1>2. f \in Files /\ node \in [Files -> NodeType] /\ call \in [Threads -> CallType]
  BY <1>1, CallOf, CallsType, Parts DEF NodePart, Opening, Adding
<1>3. n = Len(list) + 1
  BY Places DEF Numbers
<1>. HIDE DEF n
<1>4. /\ call'[t].op = "numbered" /\ call'[t].fd = n /\ call'[t].file = f
      /\ call'[t].tail = call[t].tail
  BY <1>1, <1>2 DEF CallType
<1>5. node'[f].fd = n /\ \A g \in Files : g # f => node'[g].fd = node[g].fd
  BY <1>1, <1>2 DEF NodeType
<1>6. Knows(t)'
  <2>1. Knows(t)
    BY DEF Numbers
  <2>2. Head1' = Head1
    BY <1>1 DEF Head1
  <2>3. QED
    BY <1>1, <1>3, <1>4, <1>5, <2>1, <2>2 DEF Knows, Opening, Adding
<1>7. \A u \in Threads \ {t} : call'[u] = call[u]
  BY <1>1, <1>2
<1>8. QED
  BY <1>1, <1>4, <1>5, <1>6, <1>7, NumbersGoOn DEF Opening, Adding, Unlinked

LEMMA NumbersWalk ==
  ASSUME TInv, Numbers, NEW t \in Threads, Walk(t)
  PROVE  Numbers'
<1>1. /\ UNCHANGED <<list, held, skipped, node>> /\ call[t].op = "numbered" /\ call[t].tail = Head1
      /\ call[t].fd = Len(list) + 1 /\ node[call[t].file].fd = Len(list) + 1
      /\ \A p \in held : p.file # call[t].file
  BY DEF Walk, ghosts, entries, Numbers, Knows, Opening, Adding
<1>2. list # <<>> => Head1 \in Listed
  BY DEF Head1, Listed, TInv, TypeOK
<1>3. call' = [call EXCEPT ![t].op = "linking", ![t].tail = Last]
  BY <1>1, <1>2 DEF Walk, Last
<1>4. /\ call'[t].op = "linking" /\ call'[t].tail = Last /\ call'[t].file = call[t].file
      /\ call'[t].fd = call[t].fd /\ \A u \in Threads \ {t} : call'[u] = call[u]
  BY <1>3, CallsType DEF CallType
<1>5. Knows(t)'
  <2>1. Last' = Last
    BY <1>1 DEF Last
  <2>2. QED
    BY <1>1, <1>4, <2>1 DEF Knows
<1>6. QED
  BY <1>1, <1>4, <1>5, NumbersGoOn DEF Opening, Adding, Unlinked

\* The entry goes to the end: nobody else adds one, or the list mingles.
LEMMA NumbersLink ==
  ASSUME TInv, Numbers, NEW t \in Threads, add_port(t), ~mingled'
  PROVE  Numbers'
<1>. DEFINE f == call[t].file
<1>1. /\ UNCHANGED <<held, skipped, node>> /\ call[t].op = "linking" /\ call[t].tail = Last
      /\ call[t].fd = Len(list) + 1 /\ node[f].fd = Len(list) + 1
      /\ \A p \in held : p.file # f
  BY DEF add_port, Numbers, Knows, Opening, Adding
<1>2. f \in Files /\ f \notin Listed /\ f # NoFile
  BY <1>1, CallOf, Parts, FilesAssumption DEF CallPart, CallInv, Unlinked, Opening, Adding
<1>3. DOMAIN list = 1 .. Len(list) /\ Len(list) \in Nat /\ \A i \in DOMAIN list : list[i] \in Files
  BY DEF TInv, TypeOK
<1>4. list' = Append(list, f)
  <2>1. CASE list = <<>>
    <3>1. call[t].tail = NoFile
      BY <1>1, <2>1 DEF Last
    <3>2. list' = <<f>>
      BY <3>1 DEF add_port
    <3>3. QED
      BY <2>1, <3>2
  <2>2. CASE list # <<>>
    <3>1. Len(list) \in DOMAIN list /\ Last = list[Len(list)]
      BY <1>3, <2>2 DEF Last
    <3>2. Upto(Last) = list /\ Last \in Listed /\ Last # NoFile
      BY <1>3, <3>1, UptoEntry, FilesAssumption DEF TInv, Listed
    <3>3. QED
      BY <1>1, <3>2 DEF add_port
  <2>3. QED
    BY <2>1, <2>2
<1>5. /\ Len(list') = Len(list) + 1 /\ Listed' = Listed \cup {f}
      /\ \A i \in DOMAIN list : list'[i] = list[i]
      /\ list'[Len(list) + 1] = f
  BY <1>2, <1>4, AppendEntry DEF TInv
<1>6. DOMAIN list' = 1 .. Len(list) + 1
  BY <1>2, <1>3, <1>4, <1>5, AppendEntry, LenProperties DEF TInv
<1>7. ASSUME NEW u \in Threads \ {t} PROVE call'[u] = call[u] /\ call[u].op \notin Adding
  <2>1. call'[u] = call[u]
    BY CallsType DEF add_port
  <2>2. list' # list
    BY <1>3, <1>5
  <2>3. mingled' = (mingled \/ \E v \in Threads \ {t} : call[v].op \in Adding)
    BY <2>2 DEF add_port, Mingles
  <2>4. QED
    BY Zenon, <2>1, <2>3
<1>8. /\ call'[t].op = "linked" /\ call'[t].file = f /\ call'[t].fd = call[t].fd
  BY CallsType DEF add_port, CallType
<1>9. Owners' = Owners \cup {f}
  <2>1. Ends' = Ends \cup {t} /\ \A u \in Ends : call'[u] = call[u]
    BY <1>1, <1>7, <1>8 DEF Ends
  <2>2. QED
    BY <1>1, <1>8, <2>1 DEF Owners
<1>10. \A i \in DOMAIN list' : Fd(i)' = i
  <2>1. \A i \in DOMAIN list : node'[list'[i]].fd = i
    BY <1>1, <1>5 DEF Fd, Numbers
  <2>2. node'[list'[Len(list) + 1]].fd = Len(list) + 1
    BY <1>1, <1>5
  <2>3. QED
    BY <1>3, <1>6, <2>1, <2>2 DEF Fd
<1>11. ASSUME NEW u \in Threads PROVE Knows(u)'
  <2>1. Knows(u)
    BY DEF Numbers
  <2>2. CASE u = t
    <3>1. Last' = f
      BY <1>3, <1>5 DEF Last
    <3>2. QED
      BY <1>1, <1>3, <1>5, <1>6, <1>8, <2>2, <3>1 DEF Knows
  <2>3. CASE u # t
    <3>1. call'[u] = call[u] /\ call[u].op \notin Adding
      BY <1>7, <2>3
    <3>2. QED
      BY <1>1, <1>3, <1>5, <1>6, <2>1, <3>1 DEF Knows, Adding
  <2>4. QED
    BY <2>2, <2>3
<1>12. QED
  <2>1. \A p \in held' : p.fd \in DOMAIN list' /\ list'[p.fd] = p.file
    BY <1>1, <1>3, <1>5, <1>6 DEF Numbers
  <2>2. ~skipped' => Listed' = Owners'
    BY <1>1, <1>5, <1>9 DEF Numbers
  <2>3. QED
    BY <1>10, <1>11, <2>1, <2>2 DEF Numbers

LEMMA NumbersLinked ==
  ASSUME TInv, Numbers, NEW t \in Threads, NextIsNull(t)
  PROVE  Numbers'
<1>1. call[t].op = "linked" /\ Last = call[t].file /\ UNCHANGED <<held, skipped, node>>
  BY DEF NextIsNull, Numbers, Knows
<1>2. /\ call'[t].op = "open" /\ call'[t].file = call[t].file /\ call'[t].fd = call[t].fd
      /\ \A u \in Threads \ {t} : call'[u] = call[u]
  BY CallsType DEF NextIsNull, CallType
<1>3. UNCHANGED list
  <2>1. CASE list = <<>>
    BY <2>1 DEF NextIsNull, Listed
  <2>2. CASE list # <<>>
    <3>1. Len(list) \in DOMAIN list
      BY <2>2 DEF TInv, TypeOK
    <3>2. Upto(Last) = list
      BY <2>2, <3>1, UptoEntry DEF TInv, Last
    <3>3. QED
      BY <1>1, <3>2 DEF NextIsNull
  <2>3. QED
    BY <2>1, <2>2
<1>4. Knows(t)'
  BY <1>1, <1>2, <1>3 DEF Knows, Numbers, Opening, Adding
<1>5. QED
  BY <1>1, <1>2, <1>3, <1>4, NumbersGoOn DEF Opening, Adding, Unlinked

LEMMA NumbersDevice ==
  ASSUME TInv, Numbers, NEW t \in Threads, CreateFile(t)
  PROVE  Numbers'
<1>1. node \in [Files -> NodeType] /\ UNCHANGED <<list, held, skipped, call>>
  BY Parts DEF NodePart, CreateFile, ghosts
<1>2. \A f \in Files : node'[f].fd = node[f].fd
  <2>1. ASSUME NEW g, NEW x, node' = [node EXCEPT ![g].hComm = x]
        PROVE  \A f \in Files : node'[f].fd = node[f].fd
    BY <1>1, <2>1 DEF NodeType
  <2>2. \E g, x : node' = [node EXCEPT ![g].hComm = x]
    BY DEF CreateFile
  <2>3. QED
    BY <2>1, <2>2
<1>3. QED
  BY <1>1, <1>2, NumbersSame

\* The caller has the port open, under the number its open has.
LEMMA NumbersDone ==
  ASSUME TInv, Numbers, NEW t \in Threads, OpenDone(t)
  PROVE  Numbers'
<1>. DEFINE f == call[t].file
            q == [file |-> f, fd |-> call[t].fd]
<1>1. /\ UNCHANGED <<list, skipped, node>> /\ call[t].op = "open" /\ held' = held \cup {q}
      /\ call'[t] = NoCall /\ \A u \in Threads \ {t} : call'[u] = call[u]
      /\ call[t].fd \in DOMAIN list /\ list[call[t].fd] = f
  BY CallsType DEF OpenDone, ghosts, Return, Numbers, Knows
<1>2. Owners' = Owners
  <2>1. t \in Ends /\ Ends' = Ends \ {t} /\ \A u \in Ends \ {t} : call'[u] = call[u]
    BY <1>1, NoCallIs DEF Ends
  <2>2. q.file = f
    OBVIOUS
  <2>. HIDE DEF q
  <2>3. QED
    BY <1>1, <2>1, <2>2 DEF Owners
<1>3. ASSUME NEW u \in Threads PROVE Knows(u)'
  <2>1. CASE u = t
    BY <1>1, <2>1, NoCallIs DEF Knows, Opening, Adding
  <2>2. CASE u # t
    <3>1. Knows(u) /\ call'[u] = call[u] /\ UNCHANGED <<list, node>>
      BY <1>1, <2>2 DEF Numbers
    <3>2. call[u].op \in Opening => call[u].file # f
      BY <1>1, <2>2, Parts DEF CallPart, CallInv, Opening
    <3>3. Head1' = Head1 /\ Last' = Last
      BY <3>1 DEF Head1, Last
    <3>4. QED
      BY <1>1, <3>1, <3>2, <3>3 DEF Knows
  <2>3. QED
    BY <2>1, <2>2
<1>4. Listed' = Listed /\ \A i \in DOMAIN list : Fd(i)' = Fd(i)
  BY <1>1 DEF Listed, Fd
<1>5. \A p \in held' : p.fd \in DOMAIN list' /\ list'[p.fd] = p.file
  BY <1>1 DEF Numbers
<1>6. QED
  BY <1>1, <1>2, <1>3, <1>4, <1>5 DEF Numbers

\* The port given back is the last, or a close is skipped.
LEMMA NumbersFreed ==
  ASSUME TInv, Numbers, NEW t \in Threads, OpenFails(t) \/ \E p \in held : serial_close(t, p),
         ~gap', ~mingled'
  PROVE  Numbers'
<1>0. /\ \A u \in Threads : Knows(u) /\ DOMAIN list = 1 .. Len(list) /\ Len(list) \in Nat
      /\ \A i, j \in DOMAIN list : list[i] = list[j] => i = j
  BY DEF Numbers, TInv, TypeOK, ListInv
<1>1. PICK fd \in DOMAIN list :
        /\ IF list = <<>> THEN UNCHANGED <<list, gap, skipped>> ELSE Unlink(fd)
        /\ Mingles(t) /\ UNCHANGED node /\ call[t].op \in {"none", "open"}
        /\ held' \subseteq held /\ \A q \in held' : q.file # list[fd]
        /\ \A q \in held \ held' : q.file = list[fd]
        /\ \A u \in Threads : call'[u].op \in {"linked", "open"} => call'[u] = call[u] /\ call[u].file # list[fd]
        /\ \A u \in Threads : \/ call'[u] = call[u]
                              \/ call[u].op = "open" /\ call[u].file = list[fd] /\ call'[u].op = "none"
                              \/ call[u].op \notin Opening /\ call'[u].op = call[u].op
  <2>1. CASE OpenFails(t)
    <3>1. /\ call[t].op = "open" /\ call[t].fd \in DOMAIN list /\ list[call[t].fd] = call[t].file
          /\ \A q \in held : q.file # call[t].file
      BY <1>0, <2>1 DEF OpenFails, Knows, Opening
    <3>2. call'[t] = NoCall
      <4>. DEFINE c == [call EXCEPT ![t] = NoCall]
      <4>1. c[t] = NoCall /\ Frees(c)
        BY <2>1, CallsType DEF OpenFails
      <4>2. NoFile \notin Listed
        BY ListedFiles DEF TInv
      <4>. HIDE DEF c
      <4>3. QED
        BY <4>1, <4>2, NoCallIs DEF Frees
    <3>3. \A u \in Threads \ {t} : call[u].op \in Opening => call[u].file # call[t].file
      BY <3>1, Parts DEF CallPart, CallInv, Opening
    <3>4. \A u \in Threads \ {t} : \/ call'[u] = call[u]
                                   \/ call[u].op \notin Opening /\ call'[u].op = call[u].op
      BY <2>1, FreeCalls
    <3>5. "linked" \in Opening /\ "open" \in Opening
      BY DEF Opening, Adding
    <3>6. \A u \in Threads : call'[u].op \in {"linked", "open"} => call'[u] = call[u] /\ call[u].file # call[t].file
      BY <3>2, <3>3, <3>4, <3>5, NoCallIs
    <3>7. \A u \in Threads : \/ call'[u] = call[u]
                             \/ call[u].op = "open" /\ call[u].file = call[t].file /\ call'[u].op = "none"
                             \/ call[u].op \notin Opening /\ call'[u].op = call[u].op
      BY <3>1, <3>2, <3>4, NoCallIs
    <3>8. /\ IF list = <<>> THEN UNCHANGED <<list, gap, skipped>> ELSE Unlink(call[t].fd)
          /\ Mingles(t) /\ UNCHANGED <<node, held>>
      BY <2>1 DEF OpenFails
    <3>9. QED
      BY <3>1, <3>6, <3>7, <3>8
  <2>2. CASE \E p \in held : serial_close(t, p)
    <3>1. PICK p \in held : serial_close(t, p)
      BY <2>2
    <3>2. p.fd \in DOMAIN list /\ list[p.fd] = p.file /\ call[t].op = "none"
      BY <3>1 DEF Numbers, serial_close, Idle
    <3>3. held' = held \ {p} /\ \A q \in held' : q.file # p.file
      <4>1. held \subseteq [file : Files, fd : Nat \ {0}] /\ held' = held \ {p}
        BY <3>1, Parts DEF DataPart, serial_close
      <4>2. \A q \in held : q.file = p.file => q.fd = p.fd
        BY <1>0, <3>2 DEF Numbers
      <4>3. QED
        BY <4>1, <4>2
    <3>4. \A u \in Threads : call[u].op \in Opening => call[u].file # p.file
      BY <1>0 DEF Knows
    <3>5. \A u \in Threads : \/ call'[u] = call[u]
                             \/ call[u].op \notin Opening /\ call'[u].op = call[u].op
      BY <3>1, <3>2, FreeCalls
    <3>6. "linked" \in Opening /\ "open" \in Opening
      BY DEF Opening, Adding
    <3>7. \A u \in Threads : call'[u].op \in {"linked", "open"} => call'[u] = call[u] /\ call[u].file # p.file
      BY <3>4, <3>5, <3>6
    <3>8. /\ IF list = <<>> THEN UNCHANGED <<list, gap, skipped>> ELSE Unlink(p.fd)
          /\ Mingles(t) /\ UNCHANGED node
      BY <3>1 DEF serial_close
    <3>9. QED
      BY <3>2, <3>3, <3>5, <3>7, <3>8
  <2>3. QED
    BY <2>1, <2>2
<1>2. Owners' = Owners \ {list[fd]}
  <2>1. \A u \in Threads : u \in Ends' <=> u \in Ends /\ call[u].file # list[fd]
    <3>1. "linked" \in Opening /\ "open" \in Opening
      BY DEF Opening, Adding
    <3>2. QED
      BY <1>1, <3>1 DEF Ends
  <2>2. \A u \in Ends' : call'[u].file = call[u].file
    BY <1>1 DEF Ends
  <2>3. \A q \in held : q \in held' <=> q.file # list[fd]
    BY <1>1
  <2>4. Ends \subseteq Threads /\ Ends' \subseteq Threads
    BY DEF Ends
  <2>5. QED
    BY <1>1, <2>1, <2>2, <2>3, <2>4 DEF Owners
<1>3. ASSUME UNCHANGED list, skipped' PROVE Numbers'
  <2>1. \A i \in DOMAIN list : Fd(i)' = Fd(i)
    BY <1>1, <1>3 DEF Fd
  <2>2. \A q \in held' : q.fd \in DOMAIN list' /\ list'[q.fd] = q.file
    BY <1>1, <1>3 DEF Numbers
  <2>3. ASSUME NEW u \in Threads PROVE Knows(u)'
    <3>1. Head1' = Head1 /\ Last' = Last
      BY <1>3 DEF Head1, Last
    <3>2. CASE call'[u] = call[u]
      BY <1>0, <1>1, <1>3, <3>1, <3>2 DEF Knows
    <3>3. CASE call'[u].op \notin Opening /\ call'[u].op # "crashed"
      BY <3>3 DEF Knows, Opening, Adding
    <3>4. call[u].op # "crashed" /\ "none" \notin Opening
      BY <1>0 DEF Knows, Opening, Adding
    <3>5. QED
      BY <1>1, <3>2, <3>3, <3>4
  <2>4. QED
    BY <1>3, <2>1, <2>2, <2>3 DEF Numbers
<1>4. ASSUME fd = Len(list), UNCHANGED skipped, list' # list, DOMAIN list' = 1 .. Len(list) - 1,
             \A i \in DOMAIN list' : list'[i] = list[i] /\ i \in DOMAIN list,
             Listed' = Listed \ {list[fd]}
      PROVE  Numbers'
  <2>1. \A i \in DOMAIN list' : Fd(i)' = i
    BY <1>1, <1>4 DEF Fd, Numbers
  <2>2. \A i \in DOMAIN list : i # fd => i \in DOMAIN list'
    BY <1>0, <1>4
  <2>3. \A q \in held' : q.fd \in DOMAIN list' /\ list'[q.fd] = q.file
    BY <1>1, <1>4, <2>2 DEF Numbers
  <2>4. \A u \in Threads : call[u].op \notin Adding
    <3>1. mingled' = (mingled \/ \E u \in Threads \ {t} : call[u].op \in Adding)
      BY <1>1, <1>4 DEF Mingles
    <3>2. \A u \in Threads \ {t} : call[u].op \notin Adding
      BY Zenon, <3>1
    <3>3. call[t].op \notin Adding
      BY <1>1 DEF Adding
    <3>4. QED
      BY <3>2, <3>3
  <2>5. ASSUME NEW u \in Threads PROVE Knows(u)'
    <3>1. call'[u].op \notin Adding /\ call'[u].op # "crashed"
      BY <1>0, <1>1, <2>4 DEF Knows, Adding
    <3>2. CASE call'[u].op = "open"
      <4>1. call'[u] = call[u] /\ call[u].file # list[fd]
        BY <1>1, <3>2
      <4>2. /\ call[u].fd \in DOMAIN list /\ list[call[u].fd] = call[u].file
            /\ \A q \in held : q.file # call[u].file
        BY <1>0, <3>2, <4>1 DEF Knows, Opening
      <4>3. QED
        BY <1>1, <1>4, <2>2, <3>2, <4>1, <4>2 DEF Knows
    <3>3. QED
      BY <3>1, <3>2 DEF Knows, Opening, Adding
  <2>6. ~skipped' => Listed' = Owners'
    BY <1>2, <1>4 DEF Numbers
  <2>7. QED
    BY <2>1, <2>3, <2>5, <2>6 DEF Numbers
<1>5. QED
  BY <1>1, <1>3, <1>4, LastGoes

LEMMA NumbersStep == NumberInv /\ [Next]_vars => (~gap' /\ ~mingled' => Numbers')
<1>1. SUFFICES ASSUME NumberInv, [Next]_vars, ~gap', ~mingled' PROVE Numbers'
  OBVIOUS
<1>2. TInv /\ Numbers
  <2>1. gap \in BOOLEAN /\ mingled \in BOOLEAN
    BY <1>1, Parts DEF NumberInv, DataPart
  <2>2. (gap => gap') /\ (mingled => mingled')
    <3>1. UNCHANGED vars \/ Device => UNCHANGED <<gap, mingled>>
      BY DEF vars, ghosts, Device
    <3>2. ASSUME NEW t \in Threads, Alone(t) PROVE UNCHANGED gap /\ (UNCHANGED mingled \/ Mingles(t))
      BY <3>2 DEF Alone, serial_test, termios_setflags, serial_write,
         tcdrain, tcflush, TIOCSERGETLSR, sendBreak, BeginRead, TestDone, Dangling, ReturnsEarly,
         TxHappened, ChangeMask, SetCommMask, RestoreFlag, StoreTx, ReadWaits, tcsendbreak,
         Numbered, Walk, add_port, NextIsNull, CreateFile, OpenDone, ghosts
    <3>3. ASSUME NEW t \in Threads, \/ OpenFails(t) \/ (\E p \in held : serial_close(t, p))
                 PROVE (gap => gap') /\ Mingles(t)
      <4>1. PICK fd : IF list = <<>> THEN UNCHANGED <<list, gap, skipped>> ELSE Unlink(fd)
        BY <3>3 DEF OpenFails, serial_close
      <4>2. Mingles(t)
        BY <3>3 DEF OpenFails, serial_close
      <4>3. gap => gap'
        BY Zenon, <4>1 DEF Unlink
      <4>4. QED
        BY <4>2, <4>3
    <3>4. ASSUME NEW t \in Threads, (\E f \in Files : serial_open(t, f)) \/ serial_read(t)
          PROVE  UNCHANGED <<gap, mingled>>
      BY <3>4 DEF serial_open, serial_read, ghosts
    <3>5. \A t : Mingles(t) => (mingled => mingled')
      BY Zenon DEF Mingles
    <3>6. QED
      BY <1>1, <3>1, <3>2, <3>3, <3>4, <3>5, Divided
  <2>3. QED
    BY Zenon, <1>1, <2>1, <2>2 DEF NumberInv
<1>3. CASE UNCHANGED vars
  BY <1>2, <1>3, NumbersSame DEF vars, entries, ghosts
<1>4. CASE Device
  BY <1>2, <1>4, NumbersSame DEF Device, entries, ghosts
<1>5. ASSUME NEW t \in Threads, serial_read(t) PROVE Numbers'
  <2>1. UNCHANGED <<list, node, held, skipped>>
    BY <1>5 DEF serial_read, entries, ghosts
  <2>2. \A u \in Threads : \/ call'[u] = call[u]
                           \/ call[u].op \notin Opening /\ call'[u].op \notin Opening \cup {"crashed"}
    <3>1. PICK n \in 0 .. call[t].size, again \in BOOLEAN :
            call' = [u \in Threads |->
               CASE u = t -> IF again THEN [call[t] EXCEPT !.size = @ - n] ELSE NoCall
                 [] u # t -> IF call[u].op = "read" /\ call[u].file = call[t].file /\ n > 0
                             THEN [call[u] EXCEPT !.ok = FALSE] ELSE call[u]]
      BY <1>5 DEF serial_read
    <3>2. \A u \in Threads : /\ [call[u] EXCEPT !.ok = FALSE].op = call[u].op
                             /\ [call[u] EXCEPT !.size = @ - n].op = call[u].op
      BY <1>2, CallsType DEF CallType
    <3>3. call[t].op = "read"
      BY <1>5 DEF serial_read
    <3>4. QED
      BY <3>1, <3>2, <3>3, NoCallIs DEF Opening, Adding
  <2>3. QED
    BY <1>2, <2>1, <2>2, NumbersSame
<1>6. ASSUME NEW t \in Threads, Alone(t) PROVE Numbers'
  BY <1>1, <1>2, <1>6, NumbersKept, NumbersTaken, NumbersWalk, NumbersLink, NumbersLinked,
     NumbersDevice, NumbersDone DEF Linking
<1>7. QED
  BY <1>1, <1>2, <1>3, <1>4, <1>5, <1>6, Divided, NumbersOpen, NumbersFreed

\* A descriptor leads to the port it was given out for, and the entries are those of the
\* ports held and opened, as long as only last entries were removed, no close was skipped
\* and the list never changed while another entry was added.
THEOREM LeadsToOwnPort == Spec => []OwnPort
<1>1. Init => NumberInv
  <2>1. Init => /\ DOMAIN list = {} /\ held = {} /\ Listed = {} /\ Ends = {}
    BY NoCallIs DEF Init, Listed, Ends
  <2>2. Init => \A t \in Threads : Knows(t)
    BY NoCallIs DEF Init, Knows, Opening, Adding
  <2>3. QED
    BY <2>1, <2>2, TypeInit DEF NumberInv, Numbers, Owners
<1>2. NumberInv /\ [Next]_vars => NumberInv'
  BY TypeStep, NumbersStep DEF NumberInv
<1>3. NumberInv => OwnPort
  <2>1. SUFFICES ASSUME TInv, Numbers, ~skipped
                 PROVE  /\ \A i, j \in DOMAIN list : i < j => Fd(i) < Fd(j)
                        /\ \A p \in held : find_port(p.fd) = p.file
                        /\ Listed = Owners
                        /\ ~Crashed
    BY DEF NumberInv, OwnPort, Owners, Ends
  <2>2. \A p \in held : find_port(p.fd) = p.file
    BY <2>1, Places DEF Numbers
  <2>3. ~Crashed
    BY <2>1 DEF Crashed, Numbers, Knows
  <2>4. \A i, j \in DOMAIN list : i < j => Fd(i) < Fd(j)
    BY <2>1 DEF Numbers
  <2>5. QED
    BY <2>1, <2>2, <2>3, <2>4 DEF Numbers
<1>4. QED
  BY <1>1, <1>2, <1>3, PTL DEF Spec

=============================================================================
