--------------------------- MODULE LineEventsProofs ---------------------------
(***************************************************************************)
(* The passes of the event loop over lines and counters, proved for any    *)
(* sets of lines and counters, any width of the counters and any numbers   *)
(* of errors: types, no event without a change, no event without an error, *)
(* and that the loop implements LineWatch.                                 *)
(***************************************************************************)
EXTENDS LineEvents, TLAPS

-----------------------------------------------------------------------------
(* Types.                                                                  *)

USE LinesAssumption, CountersAssumption, WAssumption

\* The counters start within their width.
LEMMA TypeInit == Init => TypeOK
<1> SUFFICES ASSUME Init PROVE TypeOK
  OBVIOUS
<1>1. /\ level \in [Lines -> BOOLEAN] /\ told \in [Lines -> BOOLEAN]
      /\ mflags \in [Lines -> BOOLEAN] /\ omflags \in [Lines -> BOOLEAN]
      /\ since \in [Lines -> SUBSET BOOLEAN] /\ todo \subseteq Lines
  BY DEF Init
<1>2. count \in [Counters -> 0 .. W - 1]
  BY DEF Init
<1>3. FirstCounts \in [Counters -> 0 .. W - 1]
  BY <1>2 DEF FirstCounts
<1>4. /\ osis \in [Counters -> 0 .. W - 1] /\ sis \in [Counters -> 0 .. W - 1]
      /\ errs \in [Counters -> 0 .. MaxErrors] /\ sent \in [Counters -> Nat]
  BY <1>3 DEF Init
<1>5. /\ build \in {"unix", "windows"} /\ flagged \subseteq Counters
      /\ caps \in [icount : BOOLEAN, lsr : BOOLEAN, mget : BOOLEAN]
      /\ pc \in {"top", "lsr", "icount", "counts", "tiocmget", "lines", "data", "ended"}
  BY DEF Init
<1>6. output \in BOOLEAN /\ closing \in BOOLEAN
  BY Zenon DEF Init
<1>7. QED
  BY <1>1, <1>2, <1>4, <1>5, <1>6 DEF TypeOK

\* Counting the flags keeps the counters within their width.
LEMMA CountedType ==
  ASSUME TypeOK
  PROVE  Counted \in [Counters -> 0 .. W - 1]
<1>1. \A c \in Counters : count[c] \in 0 .. W - 1 /\ (count[c] + 1) % W \in 0 .. W - 1
  BY DEF TypeOK
<1>2. QED
  BY <1>1 DEF Counted

\* An ioctl keeps the types of what it changes.
LEMMA ClearErrorsType ==
  ASSUME TypeOK, ClearErrors
  PROVE  count' \in [Counters -> 0 .. W - 1] /\ flagged' \subseteq Counters
BY CountedType DEF ClearErrors, TypeOK

\* The passes keep the types.
LEMMA TypePass ==
  ASSUME TypeOK, eventLoop \/ report_serial_events
  PROVE  TypeOK'
<1>. USE DEF TypeOK, Loop
<1>1. CASE eventLoop
  BY <1>1 DEF eventLoop, env, eis, local, flags
<1>2. CASE check_line_status_register
  <2>1. count' \in [Counters -> 0 .. W - 1] /\ flagged' \subseteq Counters
    BY <1>2, ClearErrorsType DEF check_line_status_register
  <2>2. QED
    BY <1>2, <2>1 DEF check_line_status_register, env, eis, local, flags
<1>3. CASE check_cgi_count
  <2>1. count' \in [Counters -> 0 .. W - 1] /\ flagged' \subseteq Counters
    BY <1>3, ClearErrorsType DEF check_cgi_count, TIOCGICOUNT
  <2>2. QED
    BY <1>3, <2>1 DEF check_cgi_count, TIOCGICOUNT, env, eis, flags
<1>4. CASE \E c \in Counters : SendCount(c)
  <2>1. PICK c \in Counters : SendCount(c)
    BY <1>4
  <2>2. (osis[c] + 1) % W \in 0 .. W - 1 /\ sent[c] + 1 \in Nat
    BY <2>1
  <2>3. osis' \in [Counters -> 0 .. W - 1] /\ sent' \in [Counters -> Nat]
    BY <2>1, <2>2 DEF SendCount
  <2>4. QED
    BY <2>1, <2>3 DEF SendCount, env, flags, local
<1>5. CASE CountsDone
  BY <1>5 DEF CountsDone, env, flags, local
<1>6. CASE check_tiocmget_changes
  <2>1. count' \in [Counters -> 0 .. W - 1] /\ flagged' \subseteq Counters
    BY <1>6, ClearErrorsType DEF check_tiocmget_changes
  <2>2. mflags' \in [Lines -> BOOLEAN] /\ todo' \subseteq Lines
    BY <1>6 DEF check_tiocmget_changes
  <2>3. QED
    BY <1>6, <2>1, <2>2 DEF check_tiocmget_changes, env, eis, flags
<1>7. CASE \E l \in Lines : SendLine(l)
  <2>1. PICK l \in Lines : SendLine(l)
    BY <1>7
  <2>2. told' \in [Lines -> BOOLEAN] /\ since' \in [Lines -> SUBSET BOOLEAN]
    <3>1. mflags[l] \in BOOLEAN /\ {level[l]} \in SUBSET BOOLEAN
      OBVIOUS
    <3>2. QED
      BY <2>1, <3>1 DEF SendLine
  <2>3. QED
    BY <2>1, <2>2 DEF SendLine, env, flags, eis
<1>8. CASE LinesDone
  BY <1>8 DEF LinesDone, env, flags, local
<1>9. CASE port_has_changed_fionread
  <2>1. count' \in [Counters -> 0 .. W - 1] /\ flagged' \subseteq Counters
    BY <1>9, ClearErrorsType DEF port_has_changed_fionread
  <2>2. QED
    BY <1>9, <2>1 DEF port_has_changed_fionread, env, eis, local, flags
<1>10. QED
  BY <1>1, <1>2, <1>3, <1>4, <1>5, <1>6, <1>7, <1>8, <1>9 DEF report_serial_events

\* So do the lines, the errors and the other threads.
LEMMA TypeOther ==
  ASSUME TypeOK,
         \/ \E l \in Lines : Change(l)
         \/ \E c \in Counters : Error(c)
         \/ Query \/ notifyOnOutputEmpty \/ interruptEventLoop
  PROVE  TypeOK'
<1>. USE DEF TypeOK
<1>1. CASE \E l \in Lines : Change(l)
  <2>1. PICK l \in Lines : Change(l)
    BY <1>1
  <2>2. level' \in [Lines -> BOOLEAN] /\ since' \in [Lines -> SUBSET BOOLEAN]
    <3>1. (~level[l]) \in BOOLEAN /\ since[l] \cup {~level[l]} \in SUBSET BOOLEAN
      BY Zenon
    <3>2. QED
      BY <2>1, <3>1 DEF Change
  <2>3. QED
    BY <2>1, <2>2 DEF Change, flags, eis, local
<1>2. CASE \E c \in Counters : Error(c)
  <2>1. PICK c \in Counters : Error(c)
    BY <1>2
  <2>2. errs' \in [Counters -> 0 .. MaxErrors]
    <3>1. errs[c] + 1 \in 0 .. MaxErrors
      BY <2>1 DEF Error
    <3>2. QED
      BY <2>1, <3>1 DEF Error
  <2>3. count' \in [Counters -> 0 .. W - 1] /\ flagged' \subseteq Counters
    <3>1. (count[c] + 1) % W \in 0 .. W - 1
      OBVIOUS
    <3>2. QED
      BY <2>1, <3>1 DEF Error
  <2>4. QED
    BY <2>1, <2>2, <2>3 DEF Error, flags, eis, local
<1>3. CASE Query
  <2>1. count' \in [Counters -> 0 .. W - 1] /\ flagged' \subseteq Counters
    BY <1>3, ClearErrorsType DEF Query
  <2>2. QED
    BY <1>3, <2>1 DEF Query, env, flags, eis, local
<1>4. CASE notifyOnOutputEmpty
  BY <1>4 DEF notifyOnOutputEmpty, env, eis, local
<1>5. CASE interruptEventLoop
  <2>1. closing' \in BOOLEAN
    BY Zenon, <1>5 DEF interruptEventLoop
  <2>2. QED
    BY <1>5, <2>1 DEF interruptEventLoop, env, eis, local
<1>6. QED
  BY <1>1, <1>2, <1>3, <1>4, <1>5

\* A step of any kind keeps the types.
LEMMA TypeStep == TypeOK /\ [Next]_vars => TypeOK'
<1> SUFFICES ASSUME TypeOK, [Next]_vars PROVE TypeOK'
  OBVIOUS
<1>1. CASE Next
  BY <1>1, TypePass, TypeOther DEF Next
<1>2. CASE UNCHANGED vars
  BY <1>2 DEF vars, env, flags, eis, local, TypeOK
<1>3. QED
  BY <1>1, <1>2

(* Every variable of the event loop's passes keeps its type: above all, the *)
(* copies of the counters stay within the width of the driver's.           *)
THEOREM TypeCorrect == Spec => []TypeOK
BY TypeInit, TypeStep, PTL DEF Spec

-----------------------------------------------------------------------------
(* The lines.                                                              *)

\* What was last told of a line, by place of the loop: between the looks at the
\* lines omflags has it, during the events mflags for those already sent.
ToldInv ==
  /\ pc # "lines" => \A l \in Lines : told[l] = omflags[l]
  /\ pc = "lines" =>
       \A l \in Lines :
         IF l \in todo
         THEN told[l] = omflags[l] /\ mflags[l] = ~told[l] /\ mflags[l] \in since[l]
         ELSE told[l] = mflags[l]

\* A line has its present level since it was last told.
SinceInv == \A l \in Lines : level[l] \in since[l]

LineInv == TypeOK /\ ToldInv /\ SinceInv

LEMMA LineInit == Init => LineInv
BY TypeInit DEF Init, LineInv, ToldInv, SinceInv

\* A step that leaves the lines, their copies and the place alone keeps it.
LEMMA LineSame ==
  ASSUME LineInv, UNCHANGED <<level, told, since, omflags>>,
         \/ UNCHANGED <<pc, mflags, todo>>
         \/ pc # "lines" /\ pc' # "lines"
  PROVE  ToldInv' /\ SinceInv'
BY DEF LineInv, ToldInv, SinceInv

LEMMA LinePass ==
  ASSUME LineInv, eventLoop \/ report_serial_events
  PROVE  ToldInv' /\ SinceInv'
<1>. USE DEF Loop
<1>1. CASE eventLoop \/ check_line_status_register \/ check_cgi_count
           \/ (\E c \in Counters : SendCount(c)) \/ CountsDone \/ port_has_changed_fionread
  BY <1>1, LineSame DEF eventLoop, check_line_status_register, check_cgi_count, SendCount,
     CountsDone, port_has_changed_fionread, env, eis, local
<1>2. CASE check_tiocmget_changes
  <2>1. CASE ~caps.mget
    BY <1>2, <2>1, LineSame DEF check_tiocmget_changes, env, eis
  <2>2. CASE caps.mget
    <3>1. /\ pc = "tiocmget" /\ pc' = "lines" /\ \A l \in Lines : told[l] = omflags[l]
          /\ UNCHANGED <<level, told, since, omflags>>
          /\ mflags' = level /\ todo' = {l \in Lines : level[l] # omflags[l]}
      BY <1>2, <2>2 DEF check_tiocmget_changes, LineInv, ToldInv, env, eis
    <3>2. ASSUME NEW l \in Lines, l \in todo'
          PROVE  told'[l] = omflags'[l] /\ mflags'[l] = ~told'[l] /\ mflags'[l] \in since'[l]
      <4>1. level[l] # told[l] /\ level[l] \in BOOLEAN /\ told[l] \in BOOLEAN
        BY <3>1, <3>2 DEF LineInv, TypeOK
      <4>2. level[l] = ~told[l]
        BY Zenon, <4>1
      <4>3. QED
        BY <3>1, <4>2 DEF LineInv, SinceInv
    <3>3. ASSUME NEW l \in Lines, l \notin todo'
          PROVE  told'[l] = mflags'[l]
      BY <3>1, <3>3
    <3>4. QED
      BY <3>1, <3>2, <3>3 DEF LineInv, ToldInv, SinceInv
  <2>3. QED
    BY <2>1, <2>2
<1>3. CASE \E l \in Lines : SendLine(l)
  <2>1. PICK l \in Lines : SendLine(l)
    BY <1>3
  <2>2. /\ pc = "lines" /\ pc' = "lines" /\ l \in todo /\ todo' = todo \ {l}
        /\ UNCHANGED <<level, omflags, mflags>>
        /\ told' = [told EXCEPT ![l] = mflags[l]]
        /\ since' = [since EXCEPT ![l] = {level[l]}]
    BY <2>1 DEF SendLine, env, eis
  <2>3. SinceInv'
    BY <2>2 DEF LineInv, SinceInv, TypeOK
  <2>4. ToldInv'
    BY <2>2 DEF LineInv, ToldInv, TypeOK
  <2>5. QED
    BY <2>3, <2>4
<1>4. CASE LinesDone
  <2>1. /\ pc = "lines" /\ pc' = "data" /\ todo = {} /\ omflags' = mflags
        /\ UNCHANGED <<level, told, since>>
    BY <1>4 DEF LinesDone, env
  <2>2. \A l \in Lines : told[l] = mflags[l]
    BY <2>1 DEF LineInv, ToldInv
  <2>3. QED
    BY <2>1, <2>2 DEF LineInv, ToldInv, SinceInv
<1>5. QED
  BY <1>1, <1>2, <1>3, <1>4 DEF report_serial_events

LEMMA LineStep == LineInv /\ [Next]_vars => LineInv'
<1> SUFFICES ASSUME LineInv, [Next]_vars PROVE ToldInv' /\ SinceInv'
  BY TypeStep DEF LineInv
<1>1. CASE eventLoop \/ report_serial_events
  BY <1>1, LinePass
<1>2. CASE \E l \in Lines : Change(l)
  BY <1>2 DEF Change, eis, local, LineInv, ToldInv, SinceInv, TypeOK
<1>3. CASE \E c \in Counters : Error(c)
  BY <1>3, LineSame DEF Error, eis, local
<1>4. CASE Query \/ notifyOnOutputEmpty \/ interruptEventLoop
  BY <1>4, LineSame DEF Query, notifyOnOutputEmpty, interruptEventLoop, env, eis, local
<1>5. CASE UNCHANGED vars
  BY <1>5, LineSame DEF vars, env, eis, local
<1>6. QED
  BY <1>1, <1>2, <1>3, <1>4, <1>5 DEF Next

\* The initial states are those of LineWatch.
LEMMA WatchInit == Init => Watch!Init
<1> SUFFICES ASSUME Init PROVE Watch!Init
  OBVIOUS
<1>1. (caps.mget /\ PassesGoOn) \in BOOLEAN
  BY Zenon, TypeInit DEF PassesGoOn, TypeOK
<1>2. QED
  BY <1>1 DEF Init, Watch!Init

\* A step that tells nothing and leaves the lines alone may change what is promised.
LEMMA WatchOnly ==
  ASSUME TypeOK', UNCHANGED <<level, told, since>>
  PROVE  [Watch!Next]_Watch!vars
<1>1. (caps.mget /\ PassesGoOn)' \in BOOLEAN
  BY Zenon DEF PassesGoOn, TypeOK
<1>2. QED
  BY <1>1 DEF Watch!Next, Watch!Watch

\* Each step is one of LineWatch, or changes nothing it is about.
LEMMA WatchStep == LineInv /\ LineInv' /\ [Next]_vars => [Watch!Next]_Watch!vars
<1> SUFFICES ASSUME LineInv, LineInv', [Next]_vars
             PROVE  [Watch!Next]_Watch!vars
  OBVIOUS
<1>0. TypeOK'
  BY DEF LineInv
<1>1. CASE eventLoop \/ check_line_status_register \/ check_cgi_count
           \/ (\E c \in Counters : SendCount(c)) \/ CountsDone
           \/ check_tiocmget_changes \/ LinesDone \/ port_has_changed_fionread
  BY <1>0, <1>1, WatchOnly DEF eventLoop, check_line_status_register, check_cgi_count,
     SendCount, CountsDone, check_tiocmget_changes, LinesDone, port_has_changed_fionread, env
<1>2. CASE \E l \in Lines : SendLine(l)
  <2>1. PICK l \in Lines : SendLine(l)
    BY <1>2
  <2>2. pc = "lines" /\ l \in todo
    BY <2>1 DEF SendLine, Loop
  <2>3. mflags[l] = ~told[l] /\ (~told[l]) \in since[l]
    BY <2>2 DEF LineInv, ToldInv
  <2>4. UNCHANGED <<level, caps.mget /\ PassesGoOn>>
    BY <2>1 DEF SendLine, env, flags, PassesGoOn
  <2>5. Watch!Tell(l)
    BY <2>1, <2>3, <2>4 DEF SendLine, Watch!Tell
  <2>6. QED
    BY <2>5 DEF Watch!Next
<1>3. CASE \E l \in Lines : Change(l)
  <2>1. PICK l \in Lines : Change(l)
    BY <1>3
  <2>2. UNCHANGED <<told, caps.mget /\ PassesGoOn>>
    BY <2>1 DEF Change, flags, PassesGoOn
  <2>3. Watch!Change(l)
    BY <2>1, <2>2 DEF Change, Watch!Change
  <2>4. QED
    BY <2>3 DEF Watch!Next
<1>4. CASE (\E c \in Counters : Error(c)) \/ Query \/ notifyOnOutputEmpty \/ interruptEventLoop
  BY <1>0, <1>4, WatchOnly DEF Error, Query, notifyOnOutputEmpty, interruptEventLoop, env
<1>5. CASE UNCHANGED vars
  BY <1>0, <1>5, WatchOnly DEF vars, env
<1>6. QED
  BY <1>1, <1>2, <1>3, <1>4, <1>5 DEF Next, report_serial_events

(* The event loop implements LineWatch: a listener is told of a line's      *)
(* levels in turn, and of none the line has not had since it was last told, *)
(* however lines change between the events of a pass.                       *)
THEOREM Refinement == Spec => TellsInTurn
<1>1. Init => LineInv /\ Watch!Init
  BY LineInit, WatchInit
<1>2. LineInv /\ [Next]_vars => LineInv'
  BY LineStep
<1>3. LineInv /\ LineInv' /\ [Next]_vars => [Watch!Next]_Watch!vars
  BY WatchStep
<1>4. QED
  BY <1>1, <1>2, <1>3, PTL DEF Spec, TellsInTurn, Watch!Spec

-----------------------------------------------------------------------------
(* The counters.                                                           *)

\* b is what a counter shows d counts after it showed a.
After(a, b, d) == \E q \in Nat : b = a + d - q * W

\* The next value of a counter.
LEMMA NextCount ==
  ASSUME NEW x \in 0 .. W - 1
  PROVE  (x + 1) % W = IF x + 1 = W THEN 0 ELSE x + 1
OBVIOUS

LEMMA AfterNone == ASSUME NEW a \in Int PROVE After(a, a, 0)
<1>1. 0 \in Nat /\ a = a + 0 - 0 * W
  OBVIOUS
<1>2. QED
  BY <1>1 DEF After

\* Counting once more on the one side,
LEMMA AfterCount ==
  ASSUME NEW a \in 0 .. W - 1, NEW b \in 0 .. W - 1, NEW d \in Nat, After(a, b, d)
  PROVE  After(a, (b + 1) % W, d + 1)
<1>1. PICK q \in Nat : b = a + d - q * W
  BY DEF After
<1>2. CASE b + 1 = W
  <2>1. q + 1 \in Nat /\ (b + 1) % W = a + (d + 1) - (q + 1) * W
    <3>1. (q + 1) * W = q * W + W /\ q * W \in Nat /\ q + 1 \in Nat
      OBVIOUS
    <3>2. (b + 1) % W = 0
      BY <1>2, NextCount
    <3>3. a + (d + 1) - (q * W + W) = 0
      BY <1>1, <1>2, <3>1
    <3>4. QED
      BY <3>1, <3>2, <3>3
  <2>2. QED
    BY <2>1 DEF After
<1>3. CASE b + 1 # W
  <2>1. q * W \in Nat
    OBVIOUS
  <2>2. (b + 1) % W = a + (d + 1) - q * W
    BY <1>1, <1>3, <2>1, NextCount
  <2>3. QED
    BY <2>2 DEF After
<1>4. QED
  BY <1>2, <1>3

\* and catching up by one on the other, which a difference leaves room for.
LEMMA AfterSend ==
  ASSUME NEW a \in 0 .. W - 1, NEW b \in 0 .. W - 1, NEW d \in Nat, After(a, b, d), a # b
  PROVE  d > 0 /\ After((a + 1) % W, b, d - 1)
<1>1. PICK q \in Nat : b = a + d - q * W
  BY DEF After
<1>2. d > 0
  <2>1. CASE q = 0
    <3>1. q * W = 0
      BY <2>1
    <3>2. QED
      BY <1>1, <3>1
  <2>2. CASE q > 0
    <3>1. q * W \in Nat /\ q * W >= W
      <4>1. q - 1 \in Nat /\ (q - 1) * W \in Nat
        BY <2>2
      <4>2. q * W = (q - 1) * W + W
        OBVIOUS
      <4>3. QED
        BY <4>1, <4>2
    <3>2. QED
      BY <1>1, <3>1
  <2>3. QED
    BY <2>1, <2>2
<1>3. CASE a + 1 = W
  <2>1. q > 0
    <3>1. SUFFICES ASSUME q = 0 PROVE FALSE
      OBVIOUS
    <3>2. q * W = 0
      BY <3>1
    <3>3. b = a + d
      BY <1>1, <3>2
    <3>4. QED
      BY <1>2, <1>3, <3>3
  <2>2. q - 1 \in Nat /\ (q - 1) * W = q * W - W /\ q * W \in Nat
    BY <2>1
  <2>3. b = ((a + 1) % W) + (d - 1) - (q - 1) * W
    BY <1>1, <1>3, <2>2, NextCount
  <2>4. QED
    BY <1>2, <2>2, <2>3 DEF After
<1>4. CASE a + 1 # W
  <2>1. q * W \in Nat
    OBVIOUS
  <2>2. b = ((a + 1) % W) + (d - 1) - q * W
    BY <1>1, <1>4, <2>1, NextCount
  <2>3. QED
    BY <1>2, <2>2 DEF After
<1>5. QED
  BY <1>3, <1>4

One(p) == IF p THEN 1 ELSE 0

\* An ioctl counts at most the errors flagged.
LEMMA AfterClear ==
  ASSUME TypeOK, NEW c \in Counters, NEW a \in 0 .. W - 1, NEW d \in Nat,
         After(a, count[c], d), ClearErrors \/ UNCHANGED <<count, flagged>>
  PROVE  \E n \in Nat : /\ After(a, count'[c], n)
                        /\ n + One(c \in flagged') <= d + One(c \in flagged)
<1>1. CASE count'[c] = count[c] /\ (c \in flagged' => c \in flagged)
  BY <1>1 DEF One
<1>2. CASE count'[c] = (count[c] + 1) % W /\ c \in flagged /\ c \notin flagged'
  <2>1. After(a, count'[c], d + 1)
    BY <1>2, AfterCount DEF TypeOK
  <2>2. QED
    BY <1>2, <2>1 DEF One
<1>3. QED
  BY <1>1, <1>2 DEF ClearErrors, Counted, TypeOK

\* The events still owed for a counter: e in the pass that has read it into sis, d in
\* later ones.  They and those sent are no more than the errors that were counted, and
\* each error flagged and not counted stands for one more.
Owed(c) ==
  \E d, e \in Nat :
    /\ IF pc = "counts" THEN After(osis[c], sis[c], e) /\ After(sis[c], count[c], d)
       ELSE e = 0 /\ After(osis[c], count[c], d)
    /\ sent[c] + d + e + One(c \in flagged) <= errs[c]

CountInv ==
  /\ pc \in {"icount", "counts"} => caps.icount
  /\ \A c \in Counters : IF caps.icount THEN Owed(c) ELSE sent[c] = 0

PhantomInv == TypeOK /\ CountInv

LEMMA PhantomInit == Init => PhantomInv
<1> SUFFICES ASSUME Init PROVE CountInv
  BY TypeInit DEF PhantomInv
<1>1. ASSUME NEW c \in Counters, caps.icount
      PROVE  Owed(c)
  <2>1. pc # "counts" /\ osis[c] = count[c] /\ flagged = {} /\ sent[c] = 0 /\ errs[c] = 0
    BY <1>1 DEF Init, FirstCounts
  <2>2. count[c] \in Int
    BY TypeInit DEF TypeOK
  <2>3. After(osis[c], count[c], 0)
    BY <2>1, <2>2, AfterNone
  <2>4. QED
    BY <2>1, <2>3 DEF Owed, One
<1>2. QED
  BY <1>1 DEF Init, CountInv

\* Reading the driver, with or without errors to count, keeps what is owed.
LEMMA OwedClear ==
  ASSUME TypeOK, NEW c \in Counters, Owed(c),
         ClearErrors \/ UNCHANGED <<count, flagged>>,
         UNCHANGED <<osis, sent, errs>>,
         \/ pc # "counts" /\ pc' # "counts"
         \/ pc = "counts" /\ pc' = "counts" /\ UNCHANGED sis
  PROVE  Owed(c)'
<1>1. PICK d \in Nat, e \in Nat :
        /\ IF pc = "counts" THEN After(osis[c], sis[c], e) /\ After(sis[c], count[c], d)
           ELSE e = 0 /\ After(osis[c], count[c], d)
        /\ sent[c] + d + e + One(c \in flagged) <= errs[c]
  BY DEF Owed
<1>2. /\ osis[c] \in 0 .. W - 1 /\ sis[c] \in 0 .. W - 1 /\ sent[c] \in Nat /\ errs[c] \in Nat
      /\ One(c \in flagged) \in Nat /\ One(c \in flagged') \in Nat
  BY DEF TypeOK, One
<1>3. CASE pc = "counts"
  <2>1. PICK n \in Nat : /\ After(sis[c], count'[c], n)
                         /\ n + One(c \in flagged') <= d + One(c \in flagged)
    BY <1>1, <1>2, <1>3, AfterClear
  <2>2. sent'[c] + n + e + One(c \in flagged') <= errs'[c]
    BY <1>1, <1>2, <2>1
  <2>3. QED
    BY <1>1, <1>3, <2>1, <2>2 DEF Owed
<1>4. CASE pc # "counts"
  <2>1. PICK n \in Nat : /\ After(osis[c], count'[c], n)
                         /\ n + One(c \in flagged') <= d + One(c \in flagged)
    BY <1>1, <1>2, <1>4, AfterClear
  <2>2. sent'[c] + n + e + One(c \in flagged') <= errs'[c] /\ e = 0
    BY <1>1, <1>2, <1>4, <2>1
  <2>3. QED
    BY <1>4, <2>1, <2>2 DEF Owed
<1>5. QED
  BY <1>3, <1>4

\* So does taking the counters into sis,
LEMMA OwedRead ==
  ASSUME TypeOK, NEW c \in Counters, Owed(c), check_cgi_count
  PROVE  Owed(c)'
<1>1. /\ pc = "icount" /\ pc' = "counts" /\ sis' = count'
      /\ UNCHANGED <<osis, sent, errs>> /\ ClearErrors
  BY DEF check_cgi_count, TIOCGICOUNT, Loop, env, eis
<1>2. PICK d \in Nat : /\ After(osis[c], count[c], d)
                       /\ sent[c] + d + One(c \in flagged) <= errs[c]
  <2>1. PICK d \in Nat, e \in Nat :
          /\ e = 0 /\ After(osis[c], count[c], d)
          /\ sent[c] + d + e + One(c \in flagged) <= errs[c]
    BY <1>1 DEF Owed
  <2>2. sent[c] \in Nat /\ sent[c] + d + e = sent[c] + d
    BY <2>1 DEF TypeOK
  <2>3. QED
    BY <2>1, <2>2
<1>3. /\ osis[c] \in 0 .. W - 1 /\ count'[c] \in 0 .. W - 1
      /\ sent[c] \in Nat /\ errs[c] \in Nat
      /\ One(c \in flagged) \in Nat /\ One(c \in flagged') \in Nat
  BY <1>1, ClearErrorsType DEF TypeOK, One
<1>4. PICK n \in Nat : /\ After(osis[c], count'[c], n)
                       /\ n + One(c \in flagged') <= d + One(c \in flagged)
  BY <1>1, <1>2, <1>3, AfterClear
<1>5. After(sis'[c], count'[c], 0)
  BY <1>1, <1>3, AfterNone
<1>6. sent'[c] + 0 + n + One(c \in flagged') <= errs'[c]
  BY <1>1, <1>2, <1>3, <1>4
<1>7. QED
  BY <1>1, <1>4, <1>5, <1>6 DEF Owed

\* sending an event for a difference,
LEMMA OwedSend ==
  ASSUME TypeOK, NEW c \in Counters, Owed(c), NEW k \in Counters, SendCount(k)
  PROVE  Owed(c)'
<1>1. /\ pc = "counts" /\ pc' = "counts" /\ sis[k] # osis[k]
      /\ UNCHANGED <<sis, count, flagged, errs>>
      /\ osis' = [osis EXCEPT ![k] = (@ + 1) % W]
      /\ sent' = [sent EXCEPT ![k] = @ + 1]
  BY DEF SendCount, Differs, Loop, env, local
<1>2. CASE c # k
  <2>1. osis'[c] = osis[c] /\ sent'[c] = sent[c]
    BY <1>1, <1>2 DEF TypeOK
  <2>2. QED
    BY <1>1, <2>1 DEF Owed
<1>3. CASE c = k
  <2>1. PICK d \in Nat, e \in Nat :
          /\ After(osis[c], sis[c], e) /\ After(sis[c], count[c], d)
          /\ sent[c] + d + e + One(c \in flagged) <= errs[c]
    BY <1>1 DEF Owed
  <2>2. /\ osis[c] \in 0 .. W - 1 /\ sis[c] \in 0 .. W - 1 /\ sent[c] \in Nat /\ errs[c] \in Nat
        /\ One(c \in flagged) \in Nat
    BY DEF TypeOK, One
  <2>3. e > 0 /\ After((osis[c] + 1) % W, sis[c], e - 1)
    BY <1>1, <1>3, <2>1, <2>2, AfterSend
  <2>4. osis'[c] = (osis[c] + 1) % W /\ sent'[c] = sent[c] + 1
    BY <1>1, <1>3 DEF TypeOK
  <2>5. e - 1 \in Nat /\ sent'[c] + d + (e - 1) + One(c \in flagged) <= errs[c]
    BY <2>1, <2>2, <2>3, <2>4
  <2>6. QED
    BY <1>1, <2>1, <2>3, <2>4, <2>5 DEF Owed
<1>4. QED
  BY <1>2, <1>3

\* and noting that there is no difference left.
LEMMA OwedDone ==
  ASSUME TypeOK, NEW c \in Counters, Owed(c), CountsDone
  PROVE  Owed(c)'
<1>1. /\ pc = "counts" /\ pc' = "tiocmget" /\ osis' = sis
      /\ UNCHANGED <<count, flagged, errs, sent>>
  BY DEF CountsDone, Loop, env
<1>2. PICK d \in Nat, e \in Nat : /\ After(sis[c], count[c], d)
                                  /\ sent[c] + d + e + One(c \in flagged) <= errs[c]
  <2>1. PICK d \in Nat, e \in Nat :
          /\ IF pc = "counts" THEN After(osis[c], sis[c], e) /\ After(sis[c], count[c], d)
             ELSE e = 0 /\ After(osis[c], count[c], d)
          /\ sent[c] + d + e + One(c \in flagged) <= errs[c]
    BY DEF Owed
  <2>2. After(sis[c], count[c], d)
    BY <1>1, <2>1
  <2>3. QED
    BY <2>1, <2>2
<1>3. sent[c] \in Nat /\ errs[c] \in Nat /\ One(c \in flagged) \in Nat
  BY DEF TypeOK, One
<1>4. sent[c] + d + 0 + One(c \in flagged) <= errs[c]
  BY <1>2, <1>3
<1>5. QED
  BY <1>1, <1>2, <1>4 DEF Owed

\* An error raises what may be owed before it is counted.
LEMMA OwedError ==
  ASSUME TypeOK, NEW c \in Counters, Owed(c), NEW k \in Counters, Error(k)
  PROVE  Owed(c)'
<1>1. /\ UNCHANGED <<pc, osis, sis, sent>>
      /\ errs' = [errs EXCEPT ![k] = @ + 1]
  BY DEF Error, eis, local
<1>2. PICK d \in Nat, e \in Nat :
        /\ IF pc = "counts" THEN After(osis[c], sis[c], e) /\ After(sis[c], count[c], d)
           ELSE e = 0 /\ After(osis[c], count[c], d)
        /\ sent[c] + d + e + One(c \in flagged) <= errs[c]
  BY DEF Owed
<1>3. /\ osis[c] \in 0 .. W - 1 /\ sis[c] \in 0 .. W - 1 /\ count[c] \in 0 .. W - 1
      /\ sent[c] \in Nat /\ errs[c] \in Nat
      /\ One(c \in flagged) \in 0 .. 1 /\ One(c \in flagged') \in 0 .. 1
  BY DEF TypeOK, One
<1>4. CASE c # k
  <2>1. errs'[c] = errs[c] /\ count'[c] = count[c] /\ One(c \in flagged') = One(c \in flagged)
    BY <1>1, <1>4 DEF Error, TypeOK, One
  <2>2. QED
    BY <1>1, <1>2, <2>1 DEF Owed
<1>5. CASE c = k /\ build = "windows"
  <2>1. errs'[c] = errs[c] + 1 /\ count' = count
    BY <1>1, <1>5 DEF Error, TypeOK
  <2>2. sent[c] + d + e + One(c \in flagged') <= errs'[c]
    <3>1. One(c \in flagged) >= 0 /\ One(c \in flagged') <= 1
      BY <1>3
    <3>2. QED
      BY <1>2, <1>3, <2>1, <3>1
  <2>3. QED
    BY <1>1, <1>2, <2>1, <2>2 DEF Owed
<1>6. CASE c = k /\ build # "windows"
  <2>1. errs'[c] = errs[c] + 1 /\ count'[c] = (count[c] + 1) % W /\ flagged' = flagged
    BY <1>1, <1>6 DEF Error, TypeOK
  <2>2. sent[c] + (d + 1) + e + One(c \in flagged') <= errs'[c]
    BY <1>2, <1>3, <2>1
  <2>3. IF pc = "counts" THEN After(osis[c], sis[c], e) /\ After(sis[c], count'[c], d + 1)
        ELSE e = 0 /\ After(osis[c], count'[c], d + 1)
    BY <1>2, <1>3, <2>1, AfterCount
  <2>4. QED
    BY <1>1, <2>2, <2>3 DEF Owed
<1>7. QED
  BY <1>4, <1>5, <1>6

LEMMA PhantomStep == PhantomInv /\ [Next]_vars => PhantomInv'
<1> SUFFICES ASSUME PhantomInv, [Next]_vars PROVE CountInv'
  BY TypeStep DEF PhantomInv
<1>. USE DEF PhantomInv, CountInv
<1>1. CASE check_cgi_count
  BY <1>1, OwedRead DEF check_cgi_count, Loop, env
<1>2. CASE \E k \in Counters : SendCount(k)
  <2>1. PICK k \in Counters : SendCount(k)
    BY <1>2
  <2>2. pc = "counts" /\ pc' = "counts" /\ UNCHANGED caps
    BY <2>1 DEF SendCount, Loop, env
  <2>3. QED
    BY <2>1, <2>2, OwedSend
<1>3. CASE CountsDone
  BY <1>3, OwedDone DEF CountsDone, Loop, env
<1>4. CASE \E k \in Counters : Error(k)
  <2>1. PICK k \in Counters : Error(k)
    BY <1>4
  <2>2. UNCHANGED <<pc, caps, sent>>
    BY <2>1 DEF Error
  <2>3. QED
    BY <2>1, <2>2, OwedError
<1>5. CASE eventLoop \/ check_line_status_register \/ check_tiocmget_changes
           \/ (\E l \in Lines : SendLine(l)) \/ LinesDone \/ port_has_changed_fionread
  <2>1. /\ UNCHANGED <<osis, sent, errs, caps>>
        /\ pc # "counts" /\ pc' # "counts"
        /\ pc' = "icount" => caps.icount
        /\ ClearErrors \/ UNCHANGED <<count, flagged>>
    BY <1>5 DEF eventLoop, check_line_status_register, check_tiocmget_changes, SendLine,
       LinesDone, port_has_changed_fionread, Loop, env, eis
  <2>2. QED
    BY <2>1, OwedClear
<1>6. CASE (\E l \in Lines : Change(l)) \/ Query \/ notifyOnOutputEmpty
           \/ interruptEventLoop \/ UNCHANGED vars
  <2>1. /\ UNCHANGED <<osis, sis, sent, errs, caps, pc>>
        /\ ClearErrors \/ UNCHANGED <<count, flagged>>
    BY <1>6 DEF Change, Query, notifyOnOutputEmpty, interruptEventLoop, vars, env, eis, local
  <2>2. QED
    BY <2>1, OwedClear
<1>7. QED
  BY <1>1, <1>2, <1>3, <1>4, <1>5, <1>6 DEF Next, report_serial_events

(* There is no event for an error that did not happen, whatever the width   *)
(* of the counters and wherever they were when the loop started.            *)
THEOREM NoPhantoms == Spec => []NoPhantomErrors
<1>1. PhantomInv => NoPhantomErrors
  <2> SUFFICES ASSUME PhantomInv, NEW c \in Counters PROVE sent[c] <= errs[c]
    BY DEF NoPhantomErrors
  <2>1. sent[c] \in Nat /\ errs[c] \in Nat
    BY DEF PhantomInv, TypeOK
  <2>2. CASE ~caps.icount
    BY <2>1, <2>2 DEF PhantomInv, CountInv
  <2>3. CASE caps.icount
    <3>1. PICK d \in Nat, e \in Nat : sent[c] + d + e + One(c \in flagged) <= errs[c]
      BY <2>3 DEF PhantomInv, CountInv, Owed
    <3>2. One(c \in flagged) \in Nat
      BY DEF One
    <3>3. QED
      BY <2>1, <3>1, <3>2
  <2>4. QED
    BY <2>2, <2>3
<1>2. QED
  BY <1>1, PhantomInit, PhantomStep, PTL DEF Spec
==============================================================================
