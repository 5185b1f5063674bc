-------------------------- MODULE SerialParamsProofs --------------------------
(***************************************************************************)
(* The line parameters, proved for any threads, requests, flow modes and   *)
(* number of calls, on the three builds.                                   *)
(***************************************************************************)
EXTENDS SerialParams, TLAPS

ReqType == [speed : Int, bits : Int, stop : Int, par : Parities]
JavaType == [speed : Int, bits : Int, stop : Int, par : Parities, flow : SUBSET FlowFlags,
             timeout : 0 .. 1]
CallType == [op : {"idle", "params", "flow", "eof", "modem", "stored", "timeout"},
             tio : Termios, seen : Termios, req : ReqType, flow : SUBSET FlowFlags,
             line : {"none", "hangup", "dtr", "rts"}, got : Outputs, out : Outputs]
ParityType == SUBSET {"PARENB", "PARODD", "CMSPAR"}

\* The types, part by part.
DevOK == build \in Builds /\ dev \in Termios /\ ttyset \in Termios
OutOK == modem \in Outputs /\ msr \in Outputs /\ wanted \in Outputs /\ mixed \in SUBSET Lines
CallOK == call \in [Threads -> CallType]
RestOK ==
  /\ base \in {"set", "garbage"} /\ divisor \in {"set", "garbage"}
  /\ lost \in BOOLEAN /\ torn \in BOOLEAN /\ apart \in BOOLEAN
CountOK == calls \in 0 .. MaxCalls
JavaOK == java \in JavaType

TInv == DevOK /\ JavaOK /\ OutOK /\ CallOK /\ RestOK /\ CountOK

LEMMA Types == TInv => TypeOK
BY DEF TInv, DevOK, JavaOK, OutOK, CallOK, RestOK, CountOK, TypeOK, JavaType, CallType, ReqType

-----------------------------------------------------------------------------
(* The operators.                                                          *)

LEMMA Codes ==
  /\ ValidCode \subseteq Nat /\ 0 \in ValidCode /\ B9600 \in ValidCode /\ B38400 \in ValidCode
  /\ \A c \in ValidCode : c \in 0 .. 15 \/ c \in 4096 .. 4111
BY DEF ValidCode, B9600, B38400

\* A copy of a termios with other values in a field or two.
LEMMA TermiosOK ==
  ASSUME NEW tio \in Termios
  PROVE  /\ \A c \in ValidCode : [tio EXCEPT !.code = c] \in Termios
         /\ \A n \in 5 .. 8 : [tio EXCEPT !.bits = n] \in Termios
         /\ \A b \in BOOLEAN : [tio EXCEPT !.stop2 = b] \in Termios
         /\ \A p \in ParityType : [tio EXCEPT !.par = p] \in Termios
         /\ \A v \in 0 .. 1 : [tio EXCEPT !.eof = v] \in Termios /\ [tio EXCEPT !.vtime = v] \in Termios
         /\ \A n \in 5 .. 8 : \A c \in ValidCode : [tio EXCEPT !.bits = n, !.code = c] \in Termios
         /\ \A a, b, c \in BOOLEAN : [tio EXCEPT !.hw = a, !.xin = b, !.xout = c] \in Termios
BY DEF Termios, ParityType

LEMMA FirstValues ==
  /\ Configured \in Termios /\ BothOn \in Outputs /\ NoRequest \in ReqType /\ Idle \in CallType
<1>1. Configured \in Termios
  BY Codes DEF Configured, Termios
<1>2. BothOn \in Outputs
  BY DEF BothOn, Outputs
<1>3. NoRequest \in ReqType
  BY DEF NoRequest, ReqType, Parities
<1>4. Idle \in CallType
  BY <1>1, <1>2, <1>3 DEF Idle, CallType
<1>5. QED
  BY <1>1, <1>2, <1>3, <1>4

\* OR of sizes and of codes, bit by bit.
LEMMA OrOfBits ==
  ASSUME NEW a \in 5 .. 8, NEW b \in 5 .. 8
  PROVE  OrBits(a, b) \in 5 .. 8 /\ OrBits(a, a) = a
<1>1. OrBits(a, b) \in 5 .. 8
  BY DEF OrBits
<1>2. \A w \in {1, 2} : w \in OrNat(a - 5, a - 5, {1, 2}) <=> ((a - 5) \div w) % 2 = 1
  BY DEF OrNat, Bit
<1>3. OrBits(a, a) = 5 + (IF (a - 5) % 2 = 1 THEN 1 ELSE 0) + (IF ((a - 5) \div 2) % 2 = 1 THEN 2 ELSE 0)
  BY <1>2 DEF OrBits
<1>4. QED
  BY <1>1, <1>3

LEMMA OrOfCodes ==
  ASSUME NEW a \in ValidCode, NEW b \in ValidCode
  PROVE  OrCode(a, b) \in ValidCode /\ OrCode(a, a) = a
<1>. DEFINE W == {1, 2, 4, 8, 4096}
<1>1. OrCode(a, b) \in ValidCode
  BY DEF OrCode, ValidCode
<1>2. \A w \in W : w \in OrNat(a, a, W) <=> (a \div w) % 2 = 1
  BY DEF OrNat, Bit
<1>3. OrCode(a, a) = (IF a % 2 = 1 THEN 1 ELSE 0) + (IF (a \div 2) % 2 = 1 THEN 2 ELSE 0)
                     + (IF (a \div 4) % 2 = 1 THEN 4 ELSE 0) + (IF (a \div 8) % 2 = 1 THEN 8 ELSE 0)
                     + (IF (a \div 4096) % 2 = 1 THEN 4096 ELSE 0)
  BY <1>2, Codes DEF OrCode
<1>4. QED
  BY <1>1, <1>3, Codes

LEMMA GetType == DevOK => tcgetattr \in Termios
<1> SUFFICES ASSUME DevOK PROVE tcgetattr \in Termios
  OBVIOUS
<1>1. dev \in Termios /\ dev.bits \in 5 .. 8 /\ dev.code \in ValidCode
      /\ ttyset.bits \in 5 .. 8 /\ ttyset.code \in ValidCode
  BY DEF DevOK, Termios
<1>2. OrBits(ttyset.bits, dev.bits) \in 5 .. 8 /\ OrCode(ttyset.code, dev.code) \in ValidCode
  BY <1>1, OrOfBits, OrOfCodes
<1>3. [dev EXCEPT !.bits = OrBits(ttyset.bits, dev.bits),
                  !.code = OrCode(ttyset.code, dev.code)] \in Termios
  BY <1>1, <1>2, TermiosOK
<1>4. QED
  BY <1>1, <1>3 DEF tcgetattr

LEMMA TranslatedType ==
  ASSUME NEW b \in {"cmspar", "plain", "windows"}, NEW tio \in Termios, NEW r \in ReqType, Accepts(b, r)
  PROVE  Translated(b, tio, r) \in Termios
<1>1. r.bits \in 5 .. 8 /\ r.stop \in 1 .. 3
  BY DEF Accepts
<1>2. translate_parity(b, tio.par, r.par) \in ParityType
  BY DEF translate_parity, ParityBits, ParityType, Termios
<1>3. translate_data_bits(tio, r.bits) \in Termios
  BY <1>1, TermiosOK DEF translate_data_bits
<1>4. translate_stop_bits(translate_data_bits(tio, r.bits), r.stop) \in Termios
  <2>. DEFINE d == translate_data_bits(tio, r.bits)
  <2>0. d \in Termios
    BY <1>3
  <2>. HIDE DEF d
  <2>1. [d EXCEPT !.stop2 = FALSE] \in Termios /\ [d EXCEPT !.stop2 = TRUE] \in Termios
        /\ [d EXCEPT !.bits = 5] \in Termios
    <3>1. \A s \in BOOLEAN : [d EXCEPT !.stop2 = s] \in Termios
      BY <2>0, TermiosOK
    <3>2. \A n \in 5 .. 8 : [d EXCEPT !.bits = n] \in Termios
      BY <2>0, TermiosOK
    <3>3. TRUE \in BOOLEAN /\ FALSE \in BOOLEAN /\ 5 \in 5 .. 8
      OBVIOUS
    <3>4. QED
      BY Zenon, <3>1, <3>2, <3>3
  <2>2. translate_stop_bits(d, r.stop) \in Termios
    BY <1>1, <2>1 DEF translate_stop_bits
  <2>3. QED
    BY <2>2 DEF d
<1>5. QED
  BY <1>2, <1>4, TermiosOK DEF Translated

-----------------------------------------------------------------------------
(* Types.                                                                  *)

LEMMA TypeInit == Init => TInv
<1> SUFFICES ASSUME Init PROVE TInv
  OBVIOUS
<1>1. DevOK
  BY FirstValues DEF Init, DevOK
<1>2. JavaOK
  BY DEF Init, JavaOK, JavaType, Parities
<1>3. OutOK
  BY FirstValues DEF Init, OutOK, Outputs
<1>4. CallOK
  BY FirstValues DEF Init, CallOK
<1>5. RestOK
  BY DEF Init, RestOK
<1>6. CountOK
  <2>1. calls = 0
    BY DEF Init
  <2>2. QED
    BY <2>1, CallsAssumption DEF CountOK
<1>7. QED
  BY <1>1, <1>2, <1>3, <1>4, <1>5, <1>6 DEF TInv

\* A call that begins.
LEMMA BeginType ==
  ASSUME TInv, NEW t \in Threads, NEW c \in CallType, Begin(t, c)
  PROVE  call' \in [Threads -> CallType]
BY DEF Begin, TInv, CallOK

LEMMA ChangeType ==
  ASSUME TInv, NEW t \in Threads, NEW op \in {"params", "flow", "eof"}, NEW tio \in Termios,
         NEW r \in ReqType, NEW f \in SUBSET FlowFlags, NEW l \in {"none", "hangup"},
         Change(t, op, tio, r, f, l)
  PROVE  CallOK' /\ UNCHANGED <<build, dev, ttyset, java, lost, mixed, torn, apart>>
<1>. DEFINE c == [Idle EXCEPT !.op = op, !.tio = tio, !.seen = dev, !.req = r, !.flow = f,
                              !.line = l]
<1>1. c \in CallType
  BY FirstValues DEF CallType, TInv, DevOK
<1>2. Begin(t, c)
  BY DEF Change
<1>. HIDE DEF c
<1>3. QED
  BY <1>1, <1>2, BeginType DEF CallOK, Begin

\* The outputs as one ioctl sets them.
LEMMA OutputsOK ==
  ASSUME NEW m \in Outputs
  PROVE  \A l \in {"dtr", "rts", "hangup", "none"}, v \in BOOLEAN : [m EXCEPT ![l] = v] \in Outputs
BY DEF Outputs, Lines

LEMMA ParamsType ==
  ASSUME TInv, NEW t \in Threads, NEW r \in Requests, SetSerialPortParams(t, r), CountOK'
  PROVE  TInv'
<1>. DEFINE c == translate_speed(r.speed)
            tio == Translated(build, tcgetattr, r)
<1>0. r \in ReqType /\ build \in {"cmspar", "plain", "windows"} /\ {} \in SUBSET FlowFlags
  BY RequestAssumption, BuildAssumption DEF TInv, DevOK, ReqType
<1>1. tio \in Termios
  BY <1>0, GetType, TranslatedType DEF TInv, SetSerialPortParams
<1>2. \A d \in ValidCode : [tio EXCEPT !.code = d] \in Termios
  BY <1>1, TermiosOK
<1>3. WinSpeed(tio, c) \in Termios
  BY <1>1, <1>2, Codes DEF WinSpeed
<1>. HIDE DEF c, tio
<1>4. \E d \in Termios, l \in {"none", "hangup"} : Change(t, "params", d, r, {}, l)
  BY <1>1, <1>2, <1>3, Codes DEF SetSerialPortParams, HangsUp, c, tio
<1>5. CallOK' /\ UNCHANGED <<build, dev, ttyset, java, lost, mixed, torn, apart>>
  BY <1>0, <1>4, ChangeType
<1>6. base' \in {"set", "garbage"} /\ divisor' \in {"set", "garbage"}
  BY DEF SetSerialPortParams, serial, TInv, RestOK
<1>7. UNCHANGED <<modem, msr, wanted>>
  BY DEF SetSerialPortParams
<1>8. QED
  BY <1>5, <1>6, <1>7 DEF TInv, DevOK, JavaOK, OutOK, RestOK

LEMMA OtherCallType ==
  ASSUME TInv, NEW t \in Threads, CountOK',
         \/ \E f \in FlowModes : setflowcontrol(t, f)
         \/ nativeSetEndOfInputChar(t, 1)
  PROVE  TInv'
<1>0. NoRequest \in ReqType /\ {} \in SUBSET FlowFlags /\ tcgetattr \in Termios
  BY FirstValues, GetType DEF TInv
<1>1. ASSUME NEW f \in FlowModes, setflowcontrol(t, f)
      PROVE CallOK' /\ UNCHANGED <<build, dev, ttyset, java, lost, mixed, torn, apart>>
  <2>. DEFINE d == [tcgetattr EXCEPT !.hw = f \cap {"RTSCTS_IN", "RTSCTS_OUT"} # {},
                                     !.xin = "XONXOFF_IN" \in f,
                                     !.xout = "XONXOFF_OUT" \in f]
  <2>1. \A a, b, e \in BOOLEAN : [tcgetattr EXCEPT !.hw = a, !.xin = b, !.xout = e] \in Termios
    BY <1>0, TermiosOK
  <2>5. (f \cap {"RTSCTS_IN", "RTSCTS_OUT"} # {}) \in BOOLEAN
    OBVIOUS
  <2>6. ("XONXOFF_IN" \in f) \in BOOLEAN
    OBVIOUS
  <2>7. ("XONXOFF_OUT" \in f) \in BOOLEAN
    OBVIOUS
  <2>2. d \in Termios
    BY Zenon, <2>1, <2>5, <2>6, <2>7
  <2>3. Change(t, "flow", d, NoRequest, f, "none")
    BY <1>1 DEF setflowcontrol
  <2>. HIDE DEF d
  <2>4. QED
    BY <1>0, <2>2, <2>3, FlowAssumption, ChangeType
<1>2. ASSUME nativeSetEndOfInputChar(t, 1)
      PROVE CallOK' /\ UNCHANGED <<build, dev, ttyset, java, lost, mixed, torn, apart>>
  <2>0. \A v \in 0 .. 1 : [tcgetattr EXCEPT !.eof = v] \in Termios
    BY <1>0, TermiosOK
  <2>1. [tcgetattr EXCEPT !.eof = 1] \in Termios
    BY <2>0
  <2>2. QED
    BY <1>0, <1>2, <2>1, ChangeType DEF nativeSetEndOfInputChar
<1>3. UNCHANGED <<modem, msr, wanted, base, divisor>>
  BY DEF setflowcontrol, nativeSetEndOfInputChar, outputs, serial
<1>4. QED
  BY <1>1, <1>2, <1>3 DEF TInv, DevOK, JavaOK, OutOK, RestOK

LEMMA TimeoutType ==
  ASSUME TInv, NEW t \in Threads, CountOK',
         \/ \E v \in {0, 1} : enableReceiveTimeout(t, v)
         \/ NativeEnableReceiveTimeoutThreshold(t)
  PROVE  TInv'
<1>1. UNCHANGED <<build, dev, ttyset, modem, msr, wanted, mixed, base, divisor, lost, torn>>
  BY DEF enableReceiveTimeout, NativeEnableReceiveTimeoutThreshold, outputs, serial
<1>2. ASSUME NEW v \in {0, 1}, enableReceiveTimeout(t, v) PROVE TInv'
  <2>1. java' \in JavaType
    BY <1>2 DEF enableReceiveTimeout, TInv, JavaOK, JavaType
  <2>2. apart' \in BOOLEAN
    BY Zenon, <1>2 DEF enableReceiveTimeout
  <2>. DEFINE d == [Configured EXCEPT !.vtime = v]
              c == [Idle EXCEPT !.op = "stored", !.tio = d]
  <2>0. \A w \in 0 .. 1 : [Configured EXCEPT !.vtime = w] \in Termios
    BY FirstValues, TermiosOK
  <2>3. d \in Termios
    BY <2>0
  <2>4. Idle.tio = Configured
    BY DEF Idle
  <2>5. c = [Idle EXCEPT !.op = "stored", !.tio.vtime = v]
    BY <2>4 DEF Idle
  <2>6. call' = [call EXCEPT ![t] = c]
    BY <1>2, <2>5 DEF enableReceiveTimeout
  <2>. HIDE DEF d
  <2>7. c \in CallType
    BY <2>3, FirstValues DEF CallType
  <2>. HIDE DEF c
  <2>8. CallOK'
    BY <2>6, <2>7 DEF TInv, CallOK
  <2>9. QED
    BY <1>1, <2>1, <2>2, <2>8 DEF TInv, DevOK, JavaOK, OutOK, RestOK
<1>3. ASSUME NativeEnableReceiveTimeoutThreshold(t) PROVE TInv'
  <2>0. call[t] \in CallType /\ call[t].tio.vtime \in 0 .. 1
    BY DEF TInv, CallOK, CallType, Termios
  <2>. DEFINE d == [tcgetattr EXCEPT !.vtime = call[t].tio.vtime]
              c == [call[t] EXCEPT !.op = "timeout", !.seen = dev, !.tio = d]
  <2>1. d \in Termios
    BY <2>0, GetType, TermiosOK DEF TInv
  <2>2. call' = [call EXCEPT ![t].op = "timeout", ![t].seen = dev, ![t].tio = d]
    BY <1>3 DEF NativeEnableReceiveTimeoutThreshold
  <2>. HIDE DEF d
  <2>3. c \in CallType
    BY <2>0, <2>1 DEF CallType, TInv, DevOK
  <2>4. call' = [call EXCEPT ![t] = c]
    BY <2>0, <2>2 DEF TInv, CallOK, CallType
  <2>. HIDE DEF c
  <2>5. CallOK'
    BY <2>3, <2>4 DEF TInv, CallOK
  <2>6. QED
    BY <1>1, <1>3, <2>5 DEF NativeEnableReceiveTimeoutThreshold, TInv, DevOK, JavaOK, OutOK, RestOK
<1>4. QED
  BY <1>2, <1>3

LEMMA LineType ==
  ASSUME TInv, NEW t \in Threads, CountOK', NEW v \in BOOLEAN, setDTR(t, v) \/ setRTS(t, v)
  PROVE  TInv'
<1>1. PICK l \in {"dtr", "rts"} : SetLine(t, l, v)
  BY DEF setDTR, setRTS
<1>. DEFINE o == [TIOCMGET EXCEPT ![l] = v]
            c == [Idle EXCEPT !.op = "modem", !.line = l, !.got = TIOCMGET, !.out = o]
<1>2. TIOCMGET \in Outputs /\ o \in Outputs
  BY OutputsOK DEF TIOCMGET, TInv, OutOK
<1>3. Begin(t, c) /\ UNCHANGED <<modem, msr, wanted, base, divisor>>
  BY <1>1 DEF SetLine, serial
<1>. HIDE DEF o
<1>4. c \in CallType
  BY <1>2, FirstValues DEF CallType
<1>. HIDE DEF c
<1>5. CallOK'
  BY <1>3, <1>4, BeginType DEF CallOK
<1>6. QED
  BY <1>3, <1>5 DEF Begin, TInv, DevOK, JavaOK, OutOK, RestOK

\* A change of one output is one of the outputs.
LEMMA SetOutputType ==
  ASSUME TInv, NEW c \in CallType, SetOutput(c)
  PROVE  modem' \in Outputs /\ msr' \in Outputs /\ wanted' \in Outputs /\ mixed' \in SUBSET Lines
<1>1. c.out \in Outputs
  BY DEF CallType
<1>2. modem' \in Outputs /\ msr' \in Outputs
  BY <1>1 DEF SetOutput, TIOCMSET, TInv, OutOK
<1>3. wanted' \in Outputs
  BY <1>1 DEF SetOutput, Outputs, TInv, OutOK, CallType, Lines
<1>4. mixed' \in SUBSET Lines
  BY DEF SetOutput, TInv, OutOK
<1>5. QED
  BY <1>2, <1>3, <1>4

LEMMA HangUpType ==
  ASSUME TInv, NEW t \in Threads, CountOK', HangUpGet(t) \/ HangUpSet(t)
  PROVE  TInv'
<1>1. call[t] \in CallType
  BY DEF TInv, CallOK
<1>2. UNCHANGED <<build, dev, ttyset, java, base, divisor, lost, torn, apart>>
  BY DEF HangUpGet, HangUpSet, serial
<1>3. CASE HangUpGet(t)
  <2>. DEFINE o == [TIOCMGET EXCEPT !["dtr"] = FALSE]
  <2>1. TIOCMGET \in Outputs /\ o \in Outputs
    BY OutputsOK DEF TIOCMGET, TInv, OutOK
  <2>2. call' = [call EXCEPT ![t].line = "dtr", ![t].got = TIOCMGET, ![t].out = o]
    BY <1>3 DEF HangUpGet
  <2>. HIDE DEF o
  <2>3. CallOK'
    BY <1>1, <2>1, <2>2 DEF CallType, TInv, CallOK
  <2>4. UNCHANGED <<modem, msr, wanted, mixed>>
    BY <1>3 DEF HangUpGet, outputs
  <2>5. QED
    BY <1>2, <2>3, <2>4 DEF TInv, DevOK, JavaOK, OutOK, RestOK
<1>4. CASE HangUpSet(t)
  <2>1. CallOK'
    BY <1>1, <1>4 DEF HangUpSet, CallType, TInv, CallOK
  <2>2. OutOK'
    BY <1>1, <1>4, SetOutputType DEF HangUpSet, OutOK
  <2>3. QED
    BY <1>2, <2>1, <2>2 DEF TInv, DevOK, JavaOK, RestOK
<1>5. QED
  BY <1>3, <1>4

\* What the end of a call stores.
LEMMA Stored ==
  ASSUME TInv, NEW t \in Threads
  PROVE  /\ call[t] \in CallType /\ call[t].tio \in Termios
         /\ JavaFields(call[t]) \in JavaType
         /\ termios_to_DCB(call[t].tio) \in Termios
         /\ OldTimeouts(termios_to_DCB(call[t].tio)) \in Termios
         /\ [BothOn EXCEPT !["rts"] = call[t].tio.hw] \in Outputs
<1>1. call[t] \in CallType /\ call[t].tio \in Termios
  BY DEF TInv, CallOK, CallType
<1>2. JavaFields(call[t]) \in JavaType
  <2>1. java \in JavaType /\ call[t].flow \in SUBSET FlowFlags
        /\ call[t].req.speed \in Int /\ call[t].req.bits \in Int /\ call[t].req.stop \in Int
        /\ call[t].req.par \in Parities
    BY <1>1 DEF CallType, ReqType, TInv, JavaOK
  <2>. DEFINE b == IF call[t].req.stop = 3 THEN 5 ELSE call[t].req.bits
  <2>2. b \in Int
    BY <2>1
  <2>. HIDE DEF b
  <2>3. [java EXCEPT !.speed = call[t].req.speed, !.bits = b, !.stop = call[t].req.stop,
                     !.par = call[t].req.par] \in JavaType
    BY <2>1, <2>2 DEF JavaType
  <2>4. [java EXCEPT !.flow = call[t].flow] \in JavaType
    BY <2>1 DEF JavaType
  <2>5. QED
    BY <2>1, <2>3, <2>4 DEF JavaFields, b
<1>3. termios_to_DCB(call[t].tio) \in Termios
  <2>1. (IF "PARENB" \in call[t].tio.par
         THEN {"PARENB"} \cup (call[t].tio.par \cap {"PARODD", "CMSPAR"}) ELSE {}) \in ParityType
    BY <1>1 DEF ParityType, Termios
  <2>2. QED
    BY <1>1, <2>1, TermiosOK DEF termios_to_DCB
<1>4. OldTimeouts(termios_to_DCB(call[t].tio)) \in Termios
  <2>1. dev.vtime \in 0 .. 1
    BY DEF TInv, DevOK, Termios
  <2>2. QED
    BY <1>3, <2>1, TermiosOK DEF OldTimeouts
<1>5. [BothOn EXCEPT !["rts"] = call[t].tio.hw] \in Outputs
  <2>1. call[t].tio.hw \in BOOLEAN
    BY <1>1 DEF Termios
  <2>2. QED
    BY <2>1, FirstValues, OutputsOK
<1>6. QED
  BY <1>1, <1>2, <1>3, <1>4, <1>5

LEMMA AtRateType ==
  ASSUME NEW m \in Outputs, NEW old, NEW new
  PROVE  AtRate(old, new, m) \in Outputs
<1>1. PICK b \in BOOLEAN : b <=> new # 0
  OBVIOUS
<1>2. [l \in Lines |-> new # 0] = [l \in Lines |-> b]
  BY Zenon, <1>1
<1>3. [l \in Lines |-> b] \in Outputs
  BY DEF Outputs
<1>4. QED
  BY <1>2, <1>3 DEF AtRate

LEMMA SetType ==
  ASSUME TInv, NEW t \in Threads, UnixSet(t) \/ WinSet(t)
  PROVE  /\ dev' \in Termios /\ ttyset' \in Termios /\ JavaOK'
         /\ lost' \in BOOLEAN /\ torn' \in BOOLEAN
         /\ modem' \in Outputs /\ wanted' \in Outputs /\ mixed' \in SUBSET Lines
<1>1. lost' \in BOOLEAN
  <2>1. (lost \/ dev # call[t].seen) \in BOOLEAN
    BY Zenon
  <2>2. lost' = lost \/ lost' = (lost \/ dev # call[t].seen)
    BY Zenon DEF UnixSet, WinSet
  <2>3. QED
    BY Zenon, <2>1, <2>2 DEF TInv, RestOK
<1>2. torn' \in BOOLEAN
  BY DEF UnixSet, WinSet, TInv, RestOK
<1>3. dev' \in Termios /\ ttyset' \in Termios /\ JavaOK'
  BY Stored DEF UnixSet, WinSet, TInv, DevOK, JavaOK
<1>4. modem' \in Outputs /\ wanted' \in Outputs
  BY Stored, AtRateType DEF UnixSet, WinSet, TInv, OutOK
<1>5. mixed' \in SUBSET Lines
  BY DEF UnixSet, WinSet, TInv, OutOK
<1>6. QED
  BY <1>1, <1>2, <1>3, <1>4, <1>5

LEMMA FinishType ==
  ASSUME TInv, NEW t \in Threads, Finish(t), CountOK'
  PROVE  TInv'
<1>. DEFINE c == call[t]
<1>0. c \in CallType
  BY Stored
<1>1. CallOK' /\ UNCHANGED <<build, base, divisor>>
  BY FirstValues DEF Finish, serial, TInv, CallOK
<1>2. CASE c.op # "modem" /\ (UnixSet(t) \/ WinSet(t)) /\ UNCHANGED msr
           /\ apart' = (apart \/ (c.op = "timeout" /\ dev' # c.tio))
  <2>1. apart' \in BOOLEAN
    BY Zenon, <1>2
  <2>2. QED
    BY <1>1, <1>2, <2>1, SetType DEF TInv, DevOK, OutOK, RestOK
<1>3. CASE SetOutput(c) /\ UNCHANGED <<dev, ttyset, java, lost, torn, apart>>
  <2>1. OutOK'
    BY <1>0, <1>3, SetOutputType DEF OutOK
  <2>2. QED
    BY <1>1, <1>3, <2>1 DEF TInv, DevOK, JavaOK, RestOK
<1>4. QED
  BY <1>2, <1>3 DEF Finish

LEMMA TypeStep == TInv /\ [Next]_vars => TInv'
<1> SUFFICES ASSUME TInv, [Next]_vars PROVE TInv'
  OBVIOUS
<1>1. ASSUME calls < MaxCalls, Calls, calls' = calls + 1 PROVE TInv'
  <2>1. CountOK'
    BY <1>1, CallsAssumption DEF TInv, CountOK
  <2>2. ASSUME NEW t \in Threads, NEW r \in Requests, SetSerialPortParams(t, r) PROVE TInv'
    BY <2>1, <2>2, ParamsType
  <2>3. ASSUME NEW t \in Threads, \/ \E f \in FlowModes : setflowcontrol(t, f)
                                  \/ nativeSetEndOfInputChar(t, 1)
        PROVE  TInv'
    BY <2>1, <2>3, OtherCallType
  <2>4. ASSUME NEW t \in Threads, \E v \in {0, 1} : enableReceiveTimeout(t, v) PROVE TInv'
    BY <2>1, <2>4, TimeoutType
  <2>5. ASSUME NEW t \in Threads, \E v \in BOOLEAN : setDTR(t, v) \/ setRTS(t, v) PROVE TInv'
    BY <2>1, <2>5, LineType
  <2>6. CASE nativeSetBaudBase \/ nativeSetDivisor
    BY <2>1, <2>6 DEF nativeSetBaudBase, nativeSetDivisor, outputs, serial, TInv, DevOK, JavaOK,
                      OutOK, CallOK, RestOK
  <2>7. QED
    BY <1>1, <2>2, <2>3, <2>4, <2>5, <2>6 DEF Calls
<1>2. ASSUME NEW t \in Threads, UNCHANGED calls,
             \/ HangUpGet(t) \/ HangUpSet(t)
             \/ NativeEnableReceiveTimeoutThreshold(t)
             \/ Finish(t)
      PROVE  TInv'
  <2>1. CountOK'
    BY <1>2 DEF TInv, CountOK
  <2>2. QED
    BY <1>2, <2>1, HangUpType, TimeoutType, FinishType
<1>3. CASE UNCHANGED vars
  BY <1>3 DEF vars, outputs, serial, TInv, DevOK, JavaOK, OutOK, CallOK, RestOK, CountOK
<1>4. QED
  BY <1>1, <1>2, <1>3 DEF Next

(* Every variable holds a value of its type; above all the copies that     *)
(* are written back are settings a device can have, although rates without *)
(* a constant are passed on and termios.c ors sizes and rates.             *)
THEOREM TypeCorrect == Spec => []TypeOK
<1>1. Spec => []TInv
  BY TypeInit, TypeStep, PTL DEF Spec
<1>2. QED
  BY <1>1, Types, PTL

-----------------------------------------------------------------------------
(* The modem outputs on Unix.                                              *)

\* A call that has read the outputs is to change one of them.
ChangesOne(c) == \A l \in Lines \ {c.line} : c.out[l] = c.got[l]
Reads(c) == c.op = "modem" \/ (c.op = "params" /\ c.line = "dtr")
LineInv == build # "windows" => \A t \in Threads : Reads(call[t]) => ChangesOne(call[t])

\* A step of one thread's call.
LEMMA LineCall ==
  ASSUME TInv, LineInv, NEW t \in Threads, NEW c, call' = [call EXCEPT ![t] = c], build' = build,
         build # "windows" /\ Reads(c) => ChangesOne(c)
  PROVE  LineInv'
<1>1. call'[t] = c /\ \A u \in Threads \ {t} : call'[u] = call[u]
  BY DEF TInv, CallOK
<1>2. QED
  BY <1>1 DEF LineInv

\* What is made of what was read differs from it in one output.
LEMMA OneChanged ==
  ASSUME TInv, NEW l \in Lines, NEW v
  PROVE  \A k \in Lines \ {l} : [TIOCMGET EXCEPT ![l] = v][k] = TIOCMGET[k]
BY DEF TIOCMGET, TInv, OutOK, Outputs

LEMMA LineStep == TInv /\ LineInv /\ [Next]_vars => LineInv'
<1> SUFFICES ASSUME TInv, LineInv, [Next]_vars PROVE LineInv'
  OBVIOUS
<1>1. ASSUME UNCHANGED <<build, call>> PROVE LineInv'
  BY <1>1 DEF LineInv
<1>2. ASSUME NEW t \in Threads, NEW op \in {"params", "flow", "eof"}, NEW tio, NEW r, NEW f,
             NEW l \in {"none", "hangup"}, Change(t, op, tio, r, f, l)
      PROVE  LineInv'
  <2>. DEFINE c == [Idle EXCEPT !.op = op, !.tio = tio, !.seen = dev, !.req = r, !.flow = f,
                                !.line = l]
  <2>1. ~Reads(c)
    BY DEF Idle, Reads
  <2>2. call' = [call EXCEPT ![t] = c] /\ build' = build
    BY <1>2 DEF Change, Begin
  <2>. HIDE DEF c
  <2>3. QED
    BY <2>1, <2>2, LineCall
<1>3. ASSUME NEW t \in Threads, NEW l \in Lines, NEW v \in BOOLEAN, SetLine(t, l, v)
      PROVE  LineInv'
  <2>. DEFINE c == [Idle EXCEPT !.op = "modem", !.line = l, !.got = TIOCMGET,
                                !.out = [TIOCMGET EXCEPT ![l] = v]]
  <2>1. c.line = l /\ c.got = TIOCMGET /\ c.out = [TIOCMGET EXCEPT ![l] = v]
    BY DEF Idle
  <2>2. call' = [call EXCEPT ![t] = c] /\ build' = build
    BY <1>3 DEF SetLine, Begin
  <2>. HIDE DEF c
  <2>3. ChangesOne(c)
    BY <2>1, OneChanged DEF ChangesOne
  <2>4. QED
    BY <2>2, <2>3, LineCall
<1>4. ASSUME NEW t \in Threads, HangUpGet(t) PROVE LineInv'
  <2>. DEFINE o == [TIOCMGET EXCEPT !["dtr"] = FALSE]
              c == [call[t] EXCEPT !.line = "dtr", !.got = TIOCMGET, !.out = o]
  <2>1. call[t] \in CallType
    BY DEF TInv, CallOK
  <2>2. c.line = "dtr" /\ c.got = TIOCMGET /\ c.out = o
    BY <2>1 DEF CallType
  <2>3. call' = [call EXCEPT ![t].line = "dtr", ![t].got = TIOCMGET, ![t].out = o]
        /\ build' = build
    BY <1>4 DEF HangUpGet
  <2>4. \A k \in Lines \ {"dtr"} : o[k] = TIOCMGET[k]
    BY OneChanged DEF Lines
  <2>. HIDE DEF o
  <2>5. call' = [call EXCEPT ![t] = c]
    BY <2>1, <2>3 DEF TInv, CallOK, CallType
  <2>. HIDE DEF c
  <2>6. ChangesOne(c)
    BY <2>2, <2>4 DEF ChangesOne
  <2>7. QED
    BY <2>3, <2>5, <2>6, LineCall
<1>5. ASSUME NEW t \in Threads, HangUpSet(t) PROVE LineInv'
  <2>. DEFINE c == [call[t] EXCEPT !.line = "none"]
  <2>1. call[t] \in CallType /\ call[t].op = "params"
    BY <1>5 DEF HangUpSet, TInv, CallOK
  <2>2. ~Reads(c)
    BY <2>1 DEF CallType, Reads
  <2>3. call' = [call EXCEPT ![t] = c] /\ build' = build
    BY <1>5, <2>1 DEF HangUpSet, TInv, CallOK, CallType
  <2>. HIDE DEF c
  <2>4. QED
    BY <2>2, <2>3, LineCall
<1>6. ASSUME NEW t \in Threads, NEW c \in {"stored", "timeout"}, call'[t].op = c, build' = build,
             \A u \in Threads \ {t} : call'[u] = call[u]
      PROVE  LineInv'
  BY <1>6 DEF LineInv, Reads
<1>7. ASSUME NEW t \in Threads, NEW v \in {0, 1}, enableReceiveTimeout(t, v) PROVE LineInv'
  <2>. DEFINE c == [Idle EXCEPT !.op = "stored", !.tio.vtime = v]
  <2>1. ~Reads(c)
    BY DEF Idle, Reads
  <2>2. call' = [call EXCEPT ![t] = c] /\ build' = build
    BY <1>7 DEF enableReceiveTimeout
  <2>. HIDE DEF c
  <2>3. QED
    BY <2>1, <2>2, LineCall
<1>8. ASSUME NEW t \in Threads, NativeEnableReceiveTimeoutThreshold(t) PROVE LineInv'
  <2>1. /\ call'[t].op = "timeout" /\ build' = build
        /\ \A u \in Threads \ {t} : call'[u] = call[u]
    BY <1>8 DEF NativeEnableReceiveTimeoutThreshold, TInv, CallOK, CallType
  <2>2. QED
    BY <1>6, <2>1
<1>9. ASSUME NEW t \in Threads, Finish(t) PROVE LineInv'
  <2>1. call' = [call EXCEPT ![t] = Idle] /\ build' = build
    BY <1>9 DEF Finish
  <2>2. ~Reads(Idle)
    BY DEF Idle, Reads
  <2>3. QED
    BY <2>1, <2>2, LineCall
<1>10. CASE Calls
  <2>1. ASSUME NEW t \in Threads, NEW r \in Requests, SetSerialPortParams(t, r) PROVE LineInv'
    BY <1>2, <2>1 DEF SetSerialPortParams, HangsUp
  <2>2. ASSUME NEW t \in Threads, NEW f \in FlowModes, setflowcontrol(t, f) PROVE LineInv'
    BY <1>2, <2>2 DEF setflowcontrol
  <2>3. ASSUME NEW t \in Threads, nativeSetEndOfInputChar(t, 1) PROVE LineInv'
    BY <1>2, <2>3 DEF nativeSetEndOfInputChar
  <2>4. ASSUME NEW t \in Threads, NEW v \in BOOLEAN, setDTR(t, v) \/ setRTS(t, v) PROVE LineInv'
    BY <1>3, <2>4 DEF setDTR, setRTS, Lines
  <2>5. CASE nativeSetBaudBase \/ nativeSetDivisor
    BY <1>1, <2>5 DEF nativeSetBaudBase, nativeSetDivisor
  <2>6. QED
    BY <1>7, <1>10, <2>1, <2>2, <2>3, <2>4, <2>5 DEF Calls
<1>11. CASE UNCHANGED vars
  BY <1>1, <1>11 DEF vars
<1>12. QED
  BY <1>4, <1>5, <1>8, <1>9, <1>10, <1>11 DEF Next

\* The second half of a change of one output leaves the other one as it is, or marks it.
LEMMA OutputSet ==
  ASSUME TInv, OutputsHeld, NEW c \in CallType, build' = build,
         build # "windows" => ChangesOne(c), SetOutput(c)
  PROVE  OutputsHeld'
<1> SUFFICES ASSUME build # "windows", NEW l \in Lines, l \notin mixed' PROVE modem'[l] = wanted'[l]
  BY DEF OutputsHeld
<1>1. /\ modem' = c.out /\ wanted' = [wanted EXCEPT ![c.line] = c.out[c.line]]
      /\ mixed' = (mixed \ {c.line}) \cup {k \in Lines \ {c.line} : modem[k] # c.got[k]}
      /\ wanted \in Outputs
  BY DEF SetOutput, TIOCMSET, TInv, OutOK
<1>2. CASE l = c.line
  BY <1>1, <1>2 DEF Outputs
<1>3. CASE l # c.line
  <2>1. l \notin mixed /\ modem[l] = c.got[l]
    BY <1>1, <1>3
  <2>2. c.out[l] = c.got[l] /\ modem[l] = wanted[l]
    BY <1>3, <2>1 DEF ChangesOne, OutputsHeld
  <2>3. QED
    BY <1>1, <1>3, <2>1, <2>2 DEF Outputs
<1>4. QED
  BY <1>2, <1>3

LEMMA OutputsStep == TInv /\ LineInv /\ OutputsHeld /\ [Next]_vars => OutputsHeld'
<1> SUFFICES ASSUME TInv, LineInv, OutputsHeld, [Next]_vars PROVE OutputsHeld'
  OBVIOUS
<1>1. ASSUME UNCHANGED <<build, modem, wanted, mixed>> PROVE OutputsHeld'
  BY <1>1 DEF OutputsHeld
<1>2. ASSUME NEW t \in Threads, HangUpGet(t) PROVE OutputsHeld'
  BY <1>1, <1>2 DEF HangUpGet, outputs
<1>3. ASSUME NEW t \in Threads, HangUpSet(t) PROVE OutputsHeld'
  <2>1. call[t] \in CallType
    BY Stored
  <2>2. build # "windows" => ChangesOne(call[t])
    BY <1>3 DEF HangUpSet, LineInv, Reads
  <2>3. SetOutput(call[t]) /\ build' = build
    BY <1>3 DEF HangUpSet
  <2>4. QED
    BY <2>1, <2>2, <2>3, OutputSet
<1>4. ASSUME NEW t \in Threads, Finish(t) PROVE OutputsHeld'
  <2>1. UNCHANGED build
    BY <1>4 DEF Finish
  <2>2. CASE UnixSet(t)
    <3>1. CASE UNCHANGED <<modem, wanted, mixed>>
      BY <1>1, <2>1, <3>1
    <3>2. CASE modem' = wanted'
      BY <2>1, <3>2 DEF OutputsHeld
    <3>3. QED
      BY <2>2, <3>1, <3>2 DEF UnixSet, AtRate
  <2>3. CASE WinSet(t)
    BY <2>1, <2>3 DEF WinSet, OutputsHeld
  <2>4. CASE call[t].op = "modem" /\ SetOutput(call[t])
    <3>1. call[t] \in CallType
      BY Stored
    <3>2. build # "windows" => ChangesOne(call[t])
      BY <2>4 DEF LineInv, Reads
    <3>3. QED
      BY <2>1, <2>4, <3>1, <3>2, OutputSet
  <2>5. QED
    BY <1>4, <2>2, <2>3, <2>4 DEF Finish
<1>5. CASE Calls
  <2>1. ASSUME NEW t \in Threads, NEW r \in Requests, SetSerialPortParams(t, r) PROVE OutputsHeld'
    BY <1>1, <2>1 DEF SetSerialPortParams, Change, Begin
  <2>2. ASSUME NEW t \in Threads, NEW f \in FlowModes, setflowcontrol(t, f) PROVE OutputsHeld'
    BY <1>1, <2>2 DEF setflowcontrol, Change, Begin, outputs
  <2>3. ASSUME NEW t \in Threads, nativeSetEndOfInputChar(t, 1) PROVE OutputsHeld'
    BY <1>1, <2>3 DEF nativeSetEndOfInputChar, Change, Begin, outputs
  <2>4. ASSUME NEW t \in Threads, NEW v \in {0, 1}, enableReceiveTimeout(t, v) PROVE OutputsHeld'
    BY <1>1, <2>4 DEF enableReceiveTimeout, outputs
  <2>5. ASSUME NEW t \in Threads, NEW v \in BOOLEAN, setDTR(t, v) \/ setRTS(t, v) PROVE OutputsHeld'
    BY <1>1, <2>5 DEF setDTR, setRTS, SetLine, Begin
  <2>6. CASE nativeSetBaudBase \/ nativeSetDivisor
    BY <1>1, <2>6 DEF nativeSetBaudBase, nativeSetDivisor, outputs
  <2>7. QED
    BY <1>5, <2>1, <2>2, <2>3, <2>4, <2>5, <2>6 DEF Calls
<1>6. ASSUME NEW t \in Threads, NativeEnableReceiveTimeoutThreshold(t) PROVE OutputsHeld'
  BY <1>1, <1>6 DEF NativeEnableReceiveTimeoutThreshold, outputs
<1>7. CASE UNCHANGED vars
  BY <1>1, <1>7 DEF vars, outputs
<1>8. QED
  BY <1>2, <1>3, <1>4, <1>5, <1>6, <1>7 DEF Next

(* On Unix each of DTR and RTS is what was last asked for it: no change of *)
(* the parameters but to rate 0 and back moves them; the write of a call   *)
(* that had read both before the other changed may undo that change, and   *)
(* the next call for the output, or change of rate, puts it right.         *)
THEOREM HoldsOutputs == Spec => []OutputsHeld
<1>1. Init => OutputsHeld
  <2>1. SUFFICES ASSUME Init, build # "windows" PROVE modem = BothOn /\ wanted = BothOn
    BY DEF OutputsHeld
  <2>2. [BothOn EXCEPT !["rts"] = TRUE] = BothOn
    BY DEF BothOn, Lines
  <2>3. (build # "windows") = TRUE
    BY <2>1
  <2>4. QED
    BY Zenon, <2>1, <2>2, <2>3 DEF Init
<1>2. Init => LineInv
  BY DEF Init, LineInv, Reads, Idle
<1>3. QED
  BY <1>1, <1>2, OutputsStep, LineStep, TypeInit, TypeStep, PTL DEF Spec

-----------------------------------------------------------------------------
(* termios.c reads back what it wrote.                                     *)

\* The copy has the size and the rate of the DCB
CopyInv ==
  build = "windows" /\ ~torn => ttyset.bits = dev.bits /\ ttyset.code = dev.code

LEMMA CopyStep == TInv /\ CopyInv /\ [Next]_vars => CopyInv'
<1> SUFFICES ASSUME TInv, CopyInv, [Next]_vars PROVE CopyInv'
  OBVIOUS
<1>1. ASSUME UNCHANGED <<build, dev, ttyset, torn>> PROVE CopyInv'
  BY <1>1 DEF CopyInv
<1>2. ASSUME NEW t \in Threads, Finish(t) PROVE CopyInv'
  <2>1. UNCHANGED build
    BY <1>2 DEF Finish
  <2>2. CASE UnixSet(t)
    BY <2>1, <2>2 DEF UnixSet, CopyInv
  <2>3. CASE WinSet(t)
    <3>1. termios_to_DCB(call[t].tio).bits = call[t].tio.bits
          /\ termios_to_DCB(call[t].tio).code = call[t].tio.code
      BY Stored DEF termios_to_DCB, Termios
    <3>2. \/ dev' = termios_to_DCB(call[t].tio) /\ ttyset' = call[t].tio
          \/ torn' = TRUE
          \/ UNCHANGED <<dev, ttyset, torn>>
      BY <2>3 DEF WinSet
    <3>3. QED
      BY <2>1, <3>1, <3>2 DEF CopyInv
  <2>4. CASE UNCHANGED <<dev, ttyset, torn>>
    BY <1>1, <2>1, <2>4
  <2>5. QED
    BY <1>2, <2>2, <2>3, <2>4 DEF Finish
<1>3. CASE Calls
  <2>1. ASSUME NEW t \in Threads, NEW r \in Requests, SetSerialPortParams(t, r) PROVE CopyInv'
    BY <1>1, <2>1 DEF SetSerialPortParams, Change, Begin
  <2>2. ASSUME NEW t \in Threads, NEW f \in FlowModes, setflowcontrol(t, f) PROVE CopyInv'
    BY <1>1, <2>2 DEF setflowcontrol, Change, Begin
  <2>3. ASSUME NEW t \in Threads, nativeSetEndOfInputChar(t, 1) PROVE CopyInv'
    BY <1>1, <2>3 DEF nativeSetEndOfInputChar, Change, Begin
  <2>4. ASSUME NEW t \in Threads, NEW v \in {0, 1}, enableReceiveTimeout(t, v) PROVE CopyInv'
    BY <1>1, <2>4 DEF enableReceiveTimeout
  <2>5. ASSUME NEW t \in Threads, NEW v \in BOOLEAN, setDTR(t, v) \/ setRTS(t, v) PROVE CopyInv'
    BY <1>1, <2>5 DEF setDTR, setRTS, SetLine, Begin
  <2>6. CASE nativeSetBaudBase \/ nativeSetDivisor
    BY <1>1, <2>6 DEF nativeSetBaudBase, nativeSetDivisor
  <2>7. QED
    BY <1>3, <2>1, <2>2, <2>3, <2>4, <2>5, <2>6 DEF Calls
<1>4. ASSUME NEW t \in Threads,
             HangUpGet(t) \/ HangUpSet(t) \/ NativeEnableReceiveTimeoutThreshold(t)
      PROVE  CopyInv'
  BY <1>1, <1>4 DEF HangUpGet, HangUpSet, NativeEnableReceiveTimeoutThreshold
<1>5. CASE UNCHANGED vars
  BY <1>1, <1>5 DEF vars
<1>6. QED
  BY <1>2, <1>3, <1>4, <1>5 DEF Next

\* What is or-ed together is the same
LEMMA SameReadBack == TInv /\ CopyInv => ReadsBack
<1> SUFFICES ASSUME TInv, CopyInv, ~torn, build = "windows" PROVE tcgetattr = dev
  BY DEF ReadsBack, tcgetattr
<1>1. dev \in Termios /\ dev.bits \in 5 .. 8 /\ dev.code \in ValidCode
  BY DEF TInv, DevOK, Termios
<1>2. tcgetattr = [dev EXCEPT !.bits = OrBits(dev.bits, dev.bits), !.code = OrCode(dev.code, dev.code)]
  BY DEF tcgetattr, CopyInv
<1>3. tcgetattr = [dev EXCEPT !.bits = dev.bits, !.code = dev.code]
  BY <1>1, <1>2, OrOfBits, OrOfCodes
<1>4. QED
  BY <1>1, <1>3 DEF Termios

(* tcgetattr of termios.c, which ors the DCB into its copy without         *)
(* clearing a bit, reads back what the driver has after any calls, as long *)
(* as no tcsetattr failed between the DCB and the copy.                    *)
THEOREM ReadsItsWrites == Spec => []ReadsBack
<1>1. Init => CopyInv
  BY DEF Init, CopyInv
<1>2. QED
  BY <1>1, CopyStep, SameReadBack, TypeInit, TypeStep, PTL DEF Spec
-----------------------------------------------------------------------------
(* What RXTXPort believes.                                                 *)

\* Rate, size, stop bits and parity of a setSerialPortParams, or of the fields, in a termios
LineAgrees(speed, bits, stop, par, tio) ==
  /\ speed \in Standard /\ (build = "windows" => speed # 0) => get_java_baudrate(tio.code) = speed
  /\ bits = tio.bits
  /\ stop = 1 => ~tio.stop2
  /\ stop = 2 => tio.stop2
  /\ stop \in 1 .. 3
  /\ IF build = "plain" THEN ParityBits(par) \subseteq tio.par ELSE tio.par = ParityBits(par)
FlowAgrees(flow, tio) ==
  /\ tio.hw <=> flow \cap {"RTSCTS_IN", "RTSCTS_OUT"} # {}
  /\ tio.xin <=> "XONXOFF_IN" \in flow
  /\ tio.xout <=> "XONXOFF_OUT" \in flow

SameLine(a, b) == a.code = b.code /\ a.bits = b.bits /\ a.stop2 = b.stop2 /\ a.par = b.par
SameFlow(a, b) == a.hw = b.hw /\ a.xin = b.xin /\ a.xout = b.xout

\* What a call is about to write back: what it saw with its own change
Size(r) == IF r.stop = 3 THEN 5 ELSE r.bits
Follows(c) ==
  /\ c.op = "params" => LineAgrees(c.req.speed, Size(c.req), c.req.stop, c.req.par, c.tio)
                        /\ SameFlow(c.tio, c.seen) /\ c.tio.vtime = c.seen.vtime
  /\ c.op = "flow" => FlowAgrees(c.flow, c.tio)
                      /\ SameLine(c.tio, c.seen) /\ c.tio.vtime = c.seen.vtime
  /\ c.op = "eof" => SameFlow(c.tio, c.seen) /\ SameLine(c.tio, c.seen)
                     /\ c.tio.vtime = c.seen.vtime
  /\ c.op = "timeout" => SameFlow(c.tio, c.seen) /\ SameLine(c.tio, c.seen)

\* The timeout is that of the device, or of the one call that is to set it
TimeoutAgrees ==
  /\ (\A t \in Threads : ~InTimeout(t)) => dev.vtime = java.timeout
  /\ \A t \in Threads : InTimeout(t) => call[t].tio.vtime = java.timeout
  /\ \A t, u \in Threads : InTimeout(t) /\ InTimeout(u) => t = u

AgreeInv ==
  ~lost /\ ~torn =>
    /\ LineAgrees(java.speed, java.bits, java.stop, java.par, dev)
    /\ FlowAgrees(java.flow, dev)
    /\ \A t \in Threads : Follows(call[t])
    /\ ~apart => TimeoutAgrees

\* A rate that has a constant is translated to its code
LEMMA RateKept ==
  ASSUME NEW s \in Standard
  PROVE  translate_speed(s) \in RateCode /\ get_java_baudrate(translate_speed(s)) = s
<1>1. \E c \in RateCode : get_java_baudrate(c) = s
  BY Zenon DEF Standard
<1>2. translate_speed(s) = CHOOSE c \in RateCode : get_java_baudrate(c) = s
  BY Zenon DEF translate_speed
<1>3. QED
  BY Zenon, <1>1, <1>2

\* Parities differ in their bits, a parity is what nativeGetParity makes of its bits but
\* for space, and the DCB keeps it
LEMMA ParityKept ==
  ASSUME NEW p \in Parities
  PROVE  /\ (CHOOSE q \in Parities : ParityBits(q) = ParityBits(p)) = p
         /\ \A tio : tio.par = ParityBits(p) /\ p # "space" => nativeGetParity(tio) = p
         /\ ParityBits(p) = IF "PARENB" \in ParityBits(p)
                            THEN {"PARENB"} \cup (ParityBits(p) \cap {"PARODD", "CMSPAR"}) ELSE {}
<1>1. \A q \in Parities : ParityBits(q) = ParityBits(p) => q = p
  BY DEF Parities, ParityBits
<1>2. (CHOOSE q \in Parities : ParityBits(q) = ParityBits(p)) = p
  BY <1>1
<1>3. ASSUME NEW tio, tio.par = ParityBits(p), p # "space" PROVE nativeGetParity(tio) = p
  <2>1. CASE p = "none"
    BY <1>3, <2>1 DEF ParityBits, nativeGetParity
  <2>2. CASE p = "even"
    BY <1>3, <2>2 DEF ParityBits, nativeGetParity
  <2>3. CASE p = "odd"
    BY <1>3, <2>3 DEF ParityBits, nativeGetParity
  <2>4. CASE p = "mark"
    BY <1>3, <2>4 DEF ParityBits, nativeGetParity
  <2>5. QED
    BY <1>3, <2>1, <2>2, <2>3, <2>4 DEF Parities
<1>4. ParityBits(p) = IF "PARENB" \in ParityBits(p)
                      THEN {"PARENB"} \cup (ParityBits(p) \cap {"PARODD", "CMSPAR"}) ELSE {}
  BY DEF Parities, ParityBits
<1>5. QED
  BY <1>2, <1>3, <1>4

\* The invariant says what RXTXPort tells
LEMMA AgreeTold == TInv /\ AgreeInv => ParamsAgree
<1> SUFFICES ASSUME TInv, AgreeInv, ~lost, ~torn PROVE ParamsAgree
  BY DEF ParamsAgree
<1>. DEFINE told == set_java_vars(dev)
<1>1. LineAgrees(java.speed, java.bits, java.stop, java.par, dev) /\ FlowAgrees(java.flow, dev)
      /\ (~apart => TimeoutAgrees)
  BY DEF AgreeInv
<1>2. dev \in Termios /\ java.par \in Parities /\ java.flow \in SUBSET FlowFlags
  BY DEF TInv, DevOK, JavaOK, JavaType
<1>3. /\ told.speed = get_java_baudrate(dev.code) /\ told.bits = dev.bits
      /\ told.stop = (IF dev.stop2 THEN 2 ELSE 1)
      /\ told.par = CHOOSE p \in Parities : ParityBits(p) = dev.par
  BY DEF set_java_vars
<1>. HIDE DEF told
<1>4. java.speed \in Standard /\ (build = "windows" => java.speed # 0) => told.speed = java.speed
  BY <1>1, <1>3 DEF LineAgrees
<1>5. java.bits = told.bits /\ (java.stop # 3 => told.stop = java.stop)
  <2>1. java.stop \in 1 .. 3 /\ dev.stop2 \in BOOLEAN
    BY <1>1, <1>2 DEF LineAgrees, Termios
  <2>2. QED
    BY <1>1, <1>3, <2>1 DEF LineAgrees
<1>6. IF build = "plain" THEN ParityBits(java.par) \subseteq dev.par
      ELSE /\ told.par = java.par
           /\ java.par # "space" => nativeGetParity(dev) = java.par
  <2>1. CASE build = "plain"
    BY <1>1, <2>1 DEF LineAgrees
  <2>2. CASE build # "plain"
    <3>1. dev.par = ParityBits(java.par)
      BY <1>1, <2>2 DEF LineAgrees
    <3>2. QED
      BY <1>2, <1>3, <2>2, <3>1, ParityKept
  <2>3. QED
    BY <2>1, <2>2
<1>7. nativeGetFlowControlMode(dev) = BothWays(java.flow)
  <2>1. dev.hw \in BOOLEAN /\ dev.xin \in BOOLEAN /\ dev.xout \in BOOLEAN
    BY <1>2 DEF Termios
  <2>2. QED
    BY <1>1, <1>2, <2>1 DEF FlowAgrees, nativeGetFlowControlMode, BothWays, FlowFlags
<1>8. ~apart /\ (\A t \in Threads : ~InTimeout(t)) => dev.vtime = java.timeout
  BY <1>1 DEF TimeoutAgrees
<1>9. QED
  BY <1>4, <1>5, <1>6, <1>7, <1>8 DEF ParamsAgree, told

LEMMA AgreeInit == Init => AgreeInv
<1> SUFFICES ASSUME Init PROVE AgreeInv
  OBVIOUS
<1>1. dev = Configured /\ java.speed = 9600 /\ java.bits = 8 /\ java.stop = 1 /\ java.par = "none"
      /\ java.flow = {} /\ java.timeout = 0 /\ \A t \in Threads : call[t] = Idle
  BY DEF Init
<1>2. LineAgrees(9600, 8, 1, "none", Configured)
  <2>1. get_java_baudrate(B9600) = 9600
    BY DEF get_java_baudrate, B9600, LowRates
  <2>2. Configured.code = B9600 /\ Configured.bits = 8 /\ Configured.stop2 = FALSE /\ Configured.par = {}
    BY DEF Configured
  <2>3. QED
    BY <2>1, <2>2 DEF LineAgrees, ParityBits
<1>3. FlowAgrees({}, Configured)
  BY DEF FlowAgrees, Configured
<1>4. Follows(Idle) /\ Idle.op = "idle"
  BY DEF Follows, Idle
<1>5. Configured.vtime = 0
  BY DEF Configured
<1>6. QED
  BY <1>1, <1>2, <1>3, <1>4, <1>5 DEF AgreeInv, TimeoutAgrees, InTimeout

\* A step of one thread that changes neither the device nor the fields
LEMMA AgreeCall ==
  ASSUME TInv, AgreeInv, NEW t \in Threads, NEW c, call' = [call EXCEPT ![t] = c],
         build' = build, dev' = dev, java' = java, lost' = lost, torn' = torn, apart' = apart,
         ~lost /\ ~torn => Follows(c),
         InTimeout(t) <=> c.op \in {"stored", "timeout"},
         InTimeout(t) => c.tio.vtime = call[t].tio.vtime
  PROVE  AgreeInv'
<1> SUFFICES ASSUME ~lost, ~torn PROVE AgreeInv'
  BY DEF AgreeInv
<1>1. call'[t] = c /\ \A u \in Threads \ {t} : call'[u] = call[u]
  BY DEF TInv, CallOK
<1>2. LineAgrees(java.speed, java.bits, java.stop, java.par, dev)'
  BY DEF AgreeInv, LineAgrees
<1>3. FlowAgrees(java.flow, dev)'
  BY DEF AgreeInv, FlowAgrees
<1>4. \A u \in Threads : Follows(call[u])'
  <2>1. \A u \in Threads : Follows(call'[u])
    BY <1>1 DEF AgreeInv
  <2>2. QED
    BY <2>1 DEF Follows, LineAgrees
<1>5. \A u \in Threads : /\ InTimeout(u)' <=> InTimeout(u)
                         /\ InTimeout(u) => call'[u].tio.vtime = call[u].tio.vtime
  BY <1>1 DEF InTimeout
<1>6. ~apart => TimeoutAgrees'
  BY <1>5 DEF AgreeInv, TimeoutAgrees
<1>7. QED
  BY <1>2, <1>3, <1>4, <1>6 DEF AgreeInv

\* A call that has read the device and made its change in the copy
LEMMA AgreeChange ==
  ASSUME TInv, AgreeInv, NEW t \in Threads, NEW op \in {"params", "flow", "eof"},
         NEW tio, NEW r, NEW f, NEW l, Change(t, op, tio, r, f, l),
         ~torn => \A c : /\ c.op = op /\ c.tio = tio /\ c.seen = dev /\ c.req = r /\ c.flow = f
                         => Follows(c)
  PROVE  AgreeInv'
<1>. DEFINE c == [Idle EXCEPT !.op = op, !.tio = tio, !.seen = dev, !.req = r, !.flow = f,
                              !.line = l]
<1>1. c.op = op /\ c.tio = tio /\ c.seen = dev /\ c.req = r /\ c.flow = f
  BY DEF Idle
<1>2. Begin(t, c)
  BY DEF Change
<1>. HIDE DEF c
<1>3. ~torn => Follows(c)
  BY <1>1
<1>4. ~InTimeout(t) /\ c.op \notin {"stored", "timeout"}
  BY <1>1, <1>2 DEF Begin, InTimeout
<1>5. /\ call' = [call EXCEPT ![t] = c]
      /\ build' = build /\ dev' = dev /\ java' = java /\ lost' = lost /\ torn' = torn /\ apart' = apart
  BY <1>2 DEF Begin
<1>6. QED
  BY <1>3, <1>4, <1>5, AgreeCall

\* What set_port_params makes of the copy
LEMMA TranslatedAgrees ==
  ASSUME NEW b, NEW tio \in Termios, NEW r \in ReqType, Accepts(b, r)
  PROVE  LET d == Translated(b, tio, r) IN
         /\ d.bits = Size(r)
         /\ r.stop = 1 => ~d.stop2
         /\ r.stop = 2 => d.stop2
         /\ r.stop \in 1 .. 3
         /\ d.par = translate_parity(b, tio.par, r.par)
         /\ SameFlow(d, tio) /\ d.vtime = tio.vtime
<1>1. r.stop \in 1 .. 3
  BY DEF Accepts
<1>. DEFINE e == translate_data_bits(tio, r.bits)
            g == translate_stop_bits(e, r.stop)
            d == Translated(b, tio, r)
<1>2. e \in [{"code", "bits", "stop2", "par", "hw", "xin", "xout", "eof", "vtime"} ->
             {e.code, e.bits, e.stop2, e.par, e.hw, e.xin, e.xout, e.eof, e.vtime}]
      /\ e.bits = r.bits /\ SameFlow(e, tio) /\ e.vtime = tio.vtime
  BY DEF translate_data_bits, Termios, SameFlow
<1>. HIDE DEF e
<1>3. /\ g.bits = Size(r) /\ (r.stop = 1 => ~g.stop2) /\ (r.stop = 2 => g.stop2)
      /\ SameFlow(g, e) /\ g.vtime = e.vtime
      /\ DOMAIN g = DOMAIN e
  <2>1. CASE r.stop = 1
    BY <1>2, <2>1 DEF translate_stop_bits, Size, SameFlow
  <2>2. CASE r.stop = 2
    BY <1>2, <2>2 DEF translate_stop_bits, Size, SameFlow
  <2>3. CASE r.stop = 3
    BY <1>2, <2>3 DEF translate_stop_bits, Size, SameFlow
  <2>4. QED
    BY <1>1, <2>1, <2>2, <2>3
<1>4. d = [g EXCEPT !.par = translate_parity(b, tio.par, r.par)]
  BY DEF Translated, e
<1>5. "par" \in DOMAIN g
  BY <1>2, <1>3
<1>. HIDE DEF g, d
<1>6. d.par = translate_parity(b, tio.par, r.par) /\ d.bits = g.bits /\ d.stop2 = g.stop2
      /\ SameFlow(d, g) /\ d.vtime = g.vtime
  BY <1>4, <1>5 DEF SameFlow
<1>7. QED
  BY <1>1, <1>2, <1>3, <1>6 DEF SameFlow, d

\* The code that goes into the copy is that of the rate, if the rate has one
LEMMA CodeAgrees ==
  ASSUME TInv, NEW t \in Threads, NEW r \in Requests, SetSerialPortParams(t, r)
  PROVE  \E d, l :
           /\ Change(t, "params", d, r, {}, l)
           /\ \/ d = Translated(build, tcgetattr, r)
              \/ \E k : d = [Translated(build, tcgetattr, r) EXCEPT !.code = k]
           /\ r.speed \in Standard /\ (build = "windows" => r.speed # 0) =>
                get_java_baudrate(d.code) = r.speed
<1>. DEFINE c == translate_speed(r.speed)
            tio == Translated(build, tcgetattr, r)
<1>1. tio \in Termios
  BY RequestAssumption, BuildAssumption, GetType, TranslatedType
     DEF TInv, DevOK, ReqType, SetSerialPortParams
<1>2. r.speed \in Standard => c \in ValidCode /\ get_java_baudrate(c) = r.speed
  BY RateKept DEF RateCode
<1>3. \A k : [tio EXCEPT !.code = k].code = k
  BY <1>1 DEF Termios
<1>4. get_java_baudrate(0) = 0
  BY DEF get_java_baudrate
<1>5. \/ build = "windows" /\ Change(t, "params", WinSpeed(tio, c), r, {}, HangsUp(c))
      \/ c \in ValidCode /\ Change(t, "params", [tio EXCEPT !.code = c], r, {}, HangsUp(c))
      \/ c \notin ValidCode /\ Change(t, "params", [tio EXCEPT !.code = B38400], r, {}, "none")
  BY DEF SetSerialPortParams
<1>. HIDE DEF tio, c
<1>6. CASE build = "windows" /\ Change(t, "params", WinSpeed(tio, c), r, {}, HangsUp(c))
  <2>1. CASE c \notin ValidCode
    BY <1>2, <1>6, <2>1 DEF WinSpeed, tio
  <2>2. CASE c \in ValidCode
    <3>. DEFINE k == IF c = 0 THEN B9600 ELSE c
    <3>1. WinSpeed(tio, c) = [tio EXCEPT !.code = k]
      BY <2>2 DEF WinSpeed
    <3>2. r.speed \in Standard /\ r.speed # 0 => k = c
      BY <1>2, <1>4
    <3>. HIDE DEF k
    <3>3. r.speed \in Standard /\ r.speed # 0 => get_java_baudrate([tio EXCEPT !.code = k].code) = r.speed
      BY <1>2, <1>3, <3>2
    <3>4. QED
      BY <1>6, <3>1, <3>3 DEF tio
  <2>3. QED
    BY <2>1, <2>2
<1>7. CASE c \in ValidCode /\ Change(t, "params", [tio EXCEPT !.code = c], r, {}, HangsUp(c))
  BY <1>2, <1>3, <1>7 DEF tio
<1>8. CASE c \notin ValidCode /\ Change(t, "params", [tio EXCEPT !.code = B38400], r, {}, "none")
  BY <1>2, <1>8 DEF tio
<1>9. QED
  BY <1>5, <1>6, <1>7, <1>8

LEMMA AgreeParams ==
  ASSUME TInv, CopyInv, AgreeInv, NEW t \in Threads, NEW r \in Requests, SetSerialPortParams(t, r)
  PROVE  AgreeInv'
<1>. DEFINE g == Translated(build, tcgetattr, r)
<1>1. PICK d, l :
               /\ Change(t, "params", d, r, {}, l)
               /\ d = g \/ \E k : d = [g EXCEPT !.code = k]
               /\ r.speed \in Standard /\ (build = "windows" => r.speed # 0) =>
                    get_java_baudrate(d.code) = r.speed
  BY CodeAgrees
<1>2. r \in ReqType /\ tcgetattr \in Termios /\ Accepts(build, r)
      /\ build \in {"cmspar", "plain", "windows"}
  BY RequestAssumption, BuildAssumption, GetType DEF ReqType, SetSerialPortParams, TInv, DevOK
<1>3. /\ g.bits = Size(r) /\ (r.stop = 1 => ~g.stop2) /\ (r.stop = 2 => g.stop2) /\ r.stop \in 1 .. 3
      /\ g.par = translate_parity(build, tcgetattr.par, r.par)
      /\ SameFlow(g, tcgetattr) /\ g.vtime = tcgetattr.vtime
  BY <1>2, TranslatedAgrees
<1>10. g \in Termios
  BY <1>2, TranslatedType
<1>. HIDE DEF g
<1>4. d.bits = g.bits /\ d.stop2 = g.stop2 /\ d.par = g.par /\ SameFlow(d, g) /\ d.vtime = g.vtime
  BY <1>1, <1>10 DEF SameFlow, Termios
<1>5. IF build = "plain" THEN ParityBits(r.par) \subseteq d.par ELSE d.par = ParityBits(r.par)
  BY <1>3, <1>4 DEF translate_parity
<1>6. LineAgrees(r.speed, Size(r), r.stop, r.par, d)
  BY <1>1, <1>3, <1>4, <1>5 DEF LineAgrees
<1>7. ~torn => SameFlow(d, dev) /\ d.vtime = dev.vtime
  BY <1>3, <1>4, SameReadBack DEF ReadsBack, SameFlow
<1>8. ~torn => \A c : /\ c.op = "params" /\ c.tio = d /\ c.seen = dev /\ c.req = r /\ c.flow = {}
                      => Follows(c)
  BY <1>6, <1>7 DEF Follows
<1>9. QED
  BY <1>1, <1>8, AgreeChange

LEMMA AgreeOthers ==
  ASSUME TInv, CopyInv, AgreeInv, NEW t \in Threads,
         \/ \E f \in FlowModes : setflowcontrol(t, f)
         \/ nativeSetEndOfInputChar(t, 1)
         \/ \E v \in BOOLEAN : setDTR(t, v) \/ setRTS(t, v)
  PROVE  AgreeInv'
<1>1. tcgetattr \in Termios /\ (~torn => tcgetattr = dev)
  BY GetType, SameReadBack DEF TInv, ReadsBack
<1>2. ASSUME NEW f \in FlowModes, setflowcontrol(t, f) PROVE AgreeInv'
  <2>. DEFINE d == [tcgetattr EXCEPT !.hw = f \cap {"RTSCTS_IN", "RTSCTS_OUT"} # {},
                                     !.xin = "XONXOFF_IN" \in f,
                                     !.xout = "XONXOFF_OUT" \in f]
  <2>1. Change(t, "flow", d, NoRequest, f, "none")
    BY <1>2 DEF setflowcontrol
  <2>2. /\ d.hw = (f \cap {"RTSCTS_IN", "RTSCTS_OUT"} # {})
        /\ d.xin = ("XONXOFF_IN" \in f)
        /\ d.xout = ("XONXOFF_OUT" \in f)
    BY <1>1 DEF Termios
  <2>3. SameLine(d, tcgetattr) /\ d.vtime = tcgetattr.vtime
    BY <1>1 DEF Termios, SameLine
  <2>. HIDE DEF d
  <2>4. FlowAgrees(f, d)
    BY Zenon, <2>2 DEF FlowAgrees
  <2>5. ~torn => SameLine(d, dev) /\ d.vtime = dev.vtime
    BY <1>1, <2>3
  <2>6. ~torn => \A c : /\ c.op = "flow" /\ c.tio = d /\ c.seen = dev /\ c.req = NoRequest /\ c.flow = f
                        => Follows(c)
    BY <2>4, <2>5 DEF Follows
  <2>7. QED
    BY <2>1, <2>6, AgreeChange
<1>3. ASSUME nativeSetEndOfInputChar(t, 1) PROVE AgreeInv'
  <2>. DEFINE d == [tcgetattr EXCEPT !.eof = 1]
  <2>1. Change(t, "eof", d, NoRequest, {}, "none")
    BY <1>3 DEF nativeSetEndOfInputChar
  <2>2. SameFlow(d, tcgetattr) /\ SameLine(d, tcgetattr) /\ d.vtime = tcgetattr.vtime
    BY <1>1 DEF Termios, SameLine, SameFlow
  <2>. HIDE DEF d
  <2>3. ~torn => \A c : /\ c.op = "eof" /\ c.tio = d /\ c.seen = dev /\ c.req = NoRequest /\ c.flow = {}
                        => Follows(c)
    BY <1>1, <2>2 DEF Follows
  <2>4. QED
    BY <2>1, <2>3, AgreeChange
<1>4. ASSUME NEW v \in BOOLEAN, setDTR(t, v) \/ setRTS(t, v) PROVE AgreeInv'
  <2>1. PICK l \in {"dtr", "rts"} : SetLine(t, l, v)
    BY <1>4 DEF setDTR, setRTS
  <2>. DEFINE c == [Idle EXCEPT !.op = "modem", !.line = l, !.got = TIOCMGET,
                                !.out = [TIOCMGET EXCEPT ![l] = v]]
  <2>2. Begin(t, c)
    BY <2>1 DEF SetLine
  <2>3. c.op = "modem"
    BY DEF Idle
  <2>. HIDE DEF c
  <2>4. Follows(c) /\ ~InTimeout(t) /\ c.op \notin {"stored", "timeout"}
    BY <2>2, <2>3 DEF Follows, Begin, InTimeout
  <2>5. /\ call' = [call EXCEPT ![t] = c]
        /\ build' = build /\ dev' = dev /\ java' = java /\ lost' = lost /\ torn' = torn /\ apart' = apart
    BY <2>2 DEF Begin
  <2>6. QED
    BY <2>4, <2>5, AgreeCall
<1>5. QED
  BY <1>2, <1>3, <1>4

\* The field first: unless another such call is under way, this one alone sets the timeout
LEMMA AgreeStored ==
  ASSUME TInv, AgreeInv, NEW t \in Threads, NEW v \in {0, 1}, enableReceiveTimeout(t, v)
  PROVE  AgreeInv'
<1> SUFFICES ASSUME ~lost, ~torn PROVE AgreeInv'
  BY DEF AgreeInv, enableReceiveTimeout
<1>. DEFINE c == [Idle EXCEPT !.op = "stored", !.tio.vtime = v]
<1>1. c.op = "stored" /\ c.tio.vtime = v
  BY DEF Idle, Configured
<1>2. /\ call' = [call EXCEPT ![t] = c] /\ java' = [java EXCEPT !.timeout = v]
      /\ apart' = (\E u \in Threads : InTimeout(u))
      /\ UNCHANGED <<build, dev, lost, torn>>
  BY DEF enableReceiveTimeout
<1>. HIDE DEF c
<1>3. call'[t] = c /\ \A u \in Threads \ {t} : call'[u] = call[u]
  BY <1>2 DEF TInv, CallOK
<1>4. /\ java'.speed = java.speed /\ java'.bits = java.bits /\ java'.stop = java.stop
      /\ java'.par = java.par /\ java'.flow = java.flow /\ java'.timeout = v
  BY <1>2 DEF TInv, JavaOK, JavaType
<1>5. LineAgrees(java.speed, java.bits, java.stop, java.par, dev)'
  BY <1>2, <1>4 DEF AgreeInv, LineAgrees
<1>6. FlowAgrees(java.flow, dev)'
  BY <1>2, <1>4 DEF AgreeInv, FlowAgrees
<1>7. \A u \in Threads : Follows(call[u])'
  <2>1. Follows(c)
    BY <1>1 DEF Follows
  <2>2. \A u \in Threads : Follows(call'[u])
    BY <1>3, <2>1 DEF AgreeInv
  <2>3. QED
    BY <1>2, <2>2 DEF Follows, LineAgrees
<1>8. ASSUME ~apart' PROVE TimeoutAgrees'
  <2>1. \A u \in Threads : InTimeout(u)' <=> u = t
    BY <1>1, <1>2, <1>3, <1>8 DEF InTimeout
  <2>2. QED
    BY <1>1, <1>3, <1>4, <2>1 DEF TimeoutAgrees
<1>9. QED
  BY <1>5, <1>6, <1>7, <1>8 DEF AgreeInv

LEMMA AgreeNative ==
  ASSUME TInv, CopyInv, AgreeInv, NEW t \in Threads, NativeEnableReceiveTimeoutThreshold(t)
  PROVE  AgreeInv'
<1>1. tcgetattr \in Termios /\ (~torn => tcgetattr = dev)
  BY GetType, SameReadBack DEF TInv, ReadsBack
<1>2. call[t] \in CallType /\ call[t].op = "stored"
  BY DEF TInv, CallOK, NativeEnableReceiveTimeoutThreshold
<1>. DEFINE d == [tcgetattr EXCEPT !.vtime = call[t].tio.vtime]
            c == [call[t] EXCEPT !.op = "timeout", !.seen = dev, !.tio = d]
<1>3. SameFlow(d, tcgetattr) /\ SameLine(d, tcgetattr) /\ d.vtime = call[t].tio.vtime
  BY <1>1 DEF Termios, SameFlow, SameLine
<1>4. call' = [call EXCEPT ![t].op = "timeout", ![t].seen = dev, ![t].tio = d]
  BY DEF NativeEnableReceiveTimeoutThreshold
<1>. HIDE DEF d
<1>5. call' = [call EXCEPT ![t] = c]
  BY <1>2, <1>4 DEF TInv, CallOK, CallType
<1>6. c.op = "timeout" /\ c.seen = dev /\ c.tio = d
  BY <1>2 DEF CallType
<1>. HIDE DEF c
<1>7. ~torn => Follows(c)
  BY <1>1, <1>3, <1>6 DEF Follows
<1>8. InTimeout(t) /\ c.op \in {"stored", "timeout"} /\ c.tio.vtime = call[t].tio.vtime
  BY <1>2, <1>3, <1>6 DEF InTimeout
<1>9. build' = build /\ dev' = dev /\ java' = java /\ lost' = lost /\ torn' = torn /\ apart' = apart
  BY DEF NativeEnableReceiveTimeoutThreshold
<1>10. QED
  BY <1>5, <1>7, <1>8, <1>9, AgreeCall

\* The hang-up is about the outputs alone.
LEMMA AgreeHangUp ==
  ASSUME TInv, AgreeInv, NEW t \in Threads, HangUpGet(t) \/ HangUpSet(t)
  PROVE  AgreeInv'
<1>1. call[t] \in CallType /\ call[t].op = "params"
  BY DEF TInv, CallOK, HangUpGet, HangUpSet
<1>2. PICK l, g, o : call' = [call EXCEPT ![t].line = l, ![t].got = g, ![t].out = o]
  <2>1. CASE HangUpGet(t)
    BY <2>1 DEF HangUpGet
  <2>2. CASE HangUpSet(t)
    <3>1. call' = [call EXCEPT ![t].line = "none"]
      BY <2>2 DEF HangUpSet
    <3>2. [call EXCEPT ![t].line = "none"]
            = [call EXCEPT ![t].line = "none", ![t].got = call[t].got, ![t].out = call[t].out]
      BY <1>1 DEF TInv, CallOK, CallType
    <3>3. WITNESS "none", call[t].got, call[t].out
    <3>4. QED
      BY <3>1, <3>2
  <2>3. QED
    BY <2>1, <2>2
<1>. DEFINE c == [call[t] EXCEPT !.line = l, !.got = g, !.out = o]
<1>3. call' = [call EXCEPT ![t] = c]
  BY <1>1, <1>2 DEF TInv, CallOK, CallType
<1>4. c.op = "params" /\ c.tio = call[t].tio /\ c.seen = call[t].seen /\ c.req = call[t].req
  BY <1>1 DEF CallType
<1>. HIDE DEF c
<1>5. ~lost /\ ~torn => Follows(c)
  BY <1>1, <1>4 DEF AgreeInv, Follows
<1>6. ~InTimeout(t) /\ c.op \notin {"stored", "timeout"}
  BY <1>1, <1>4 DEF InTimeout
<1>7. build' = build /\ dev' = dev /\ java' = java /\ lost' = lost /\ torn' = torn /\ apart' = apart
  BY DEF HangUpGet, HangUpSet
<1>8. QED
  BY <1>3, <1>5, <1>6, <1>7, AgreeCall

\* The end of a call, by what it leaves in the device and the fields
LEMMA AgreeEnd ==
  ASSUME TInv, AgreeInv, NEW t \in Threads, ~lost, ~torn,
         call[t].op \notin {"idle", "stored"}, call' = [call EXCEPT ![t] = Idle], build' = build,
         LineAgrees(java'.speed, java'.bits, java'.stop, java'.par, dev'),
         FlowAgrees(java'.flow, dev'),
         java'.timeout = java.timeout,
         ~apart' => ~apart /\ dev'.vtime = IF call[t].op = "timeout" THEN call[t].tio.vtime
                                           ELSE dev.vtime
  PROVE  AgreeInv'
<1>1. call'[t] = Idle /\ \A u \in Threads \ {t} : call'[u] = call[u]
  BY DEF TInv, CallOK
<1>2. LineAgrees(java.speed, java.bits, java.stop, java.par, dev)' /\ FlowAgrees(java.flow, dev)'
  BY DEF LineAgrees, FlowAgrees
<1>3. \A u \in Threads : Follows(call[u])'
  <2>1. Follows(Idle)
    BY DEF Follows, Idle
  <2>2. \A u \in Threads : Follows(call'[u])
    BY <1>1, <2>1 DEF AgreeInv
  <2>3. QED
    BY <2>2 DEF Follows, LineAgrees
<1>4. ASSUME ~apart' PROVE TimeoutAgrees'
  <2>1. TimeoutAgrees
    BY <1>4 DEF AgreeInv
  <2>2. ~InTimeout(t)' /\ \A u \in Threads \ {t} : InTimeout(u)' <=> InTimeout(u)
    BY <1>1 DEF InTimeout, Idle
  <2>3. CASE call[t].op = "timeout"
    <3>1. InTimeout(t) /\ dev'.vtime = java.timeout
      BY <1>4, <2>1, <2>3 DEF InTimeout, TimeoutAgrees
    <3>2. \A u \in Threads : ~InTimeout(u)'
      BY <2>1, <2>2, <3>1 DEF TimeoutAgrees
    <3>3. QED
      BY <3>1, <3>2 DEF TimeoutAgrees
  <2>4. CASE call[t].op # "timeout"
    <3>1. ~InTimeout(t) /\ dev'.vtime = dev.vtime
      BY <1>4, <2>4 DEF InTimeout
    <3>2. \A u \in Threads : /\ InTimeout(u)' <=> InTimeout(u)
                             /\ InTimeout(u) => call'[u].tio = call[u].tio
      BY <1>1, <2>2, <3>1
    <3>3. QED
      BY <2>1, <3>1, <3>2 DEF TimeoutAgrees
  <2>5. QED
    BY <2>3, <2>4
<1>5. QED
  BY <1>2, <1>3, <1>4 DEF AgreeInv

\* What is written agrees with the fields as they then are
LEMMA WrittenAgrees ==
  ASSUME TInv, AgreeInv, NEW t \in Threads, ~lost, ~torn, dev = call[t].seen,
         call[t].op \notin {"idle", "stored", "modem"}
  PROVE  LET j == JavaFields(call[t]) IN
         /\ LineAgrees(j.speed, j.bits, j.stop, j.par, call[t].tio)
         /\ FlowAgrees(j.flow, call[t].tio)
         /\ j.timeout = java.timeout
         /\ call[t].op # "timeout" => call[t].tio.vtime = dev.vtime
<1>. DEFINE c == call[t]
            j == JavaFields(c)
<1>1. java \in JavaType /\ c.op \in {"params", "flow", "eof", "timeout"}
  BY DEF TInv, JavaOK, CallOK, CallType
<1>2. Follows(c) /\ LineAgrees(java.speed, java.bits, java.stop, java.par, dev)
      /\ FlowAgrees(java.flow, dev)
  BY DEF AgreeInv
<1>3. CASE c.op = "params"
  <2>1. /\ j.speed = c.req.speed /\ j.bits = Size(c.req) /\ j.stop = c.req.stop /\ j.par = c.req.par
        /\ j.flow = java.flow /\ j.timeout = java.timeout
    BY <1>1, <1>3 DEF JavaFields, JavaType, Size
  <2>. HIDE DEF j
  <2>2. LineAgrees(c.req.speed, Size(c.req), c.req.stop, c.req.par, c.tio)
        /\ SameFlow(c.tio, dev) /\ c.tio.vtime = dev.vtime
    BY <1>2, <1>3 DEF Follows
  <2>3. FlowAgrees(java.flow, c.tio)
    BY <1>2, <2>2 DEF FlowAgrees, SameFlow
  <2>4. QED
    BY <1>3, <2>1, <2>2, <2>3 DEF j
<1>4. CASE c.op = "flow"
  <2>1. /\ j.speed = java.speed /\ j.bits = java.bits /\ j.stop = java.stop /\ j.par = java.par
        /\ j.flow = c.flow /\ j.timeout = java.timeout
    BY <1>1, <1>4 DEF JavaFields, JavaType
  <2>. HIDE DEF j
  <2>2. FlowAgrees(c.flow, c.tio) /\ SameLine(c.tio, dev) /\ c.tio.vtime = dev.vtime
    BY <1>2, <1>4 DEF Follows
  <2>3. LineAgrees(java.speed, java.bits, java.stop, java.par, c.tio)
    BY <1>2, <2>2 DEF LineAgrees, SameLine
  <2>4. QED
    BY <1>4, <2>1, <2>2, <2>3 DEF j
<1>5. CASE c.op \in {"eof", "timeout"}
  <2>1. j = java
    BY <1>5 DEF JavaFields
  <2>. HIDE DEF j
  <2>2. SameFlow(c.tio, dev) /\ SameLine(c.tio, dev) /\ (c.op = "eof" => c.tio.vtime = dev.vtime)
    BY <1>2, <1>5 DEF Follows
  <2>3. LineAgrees(java.speed, java.bits, java.stop, java.par, c.tio) /\ FlowAgrees(java.flow, c.tio)
    BY <1>2, <2>2 DEF LineAgrees, SameLine, FlowAgrees, SameFlow
  <2>4. QED
    BY <1>5, <2>1, <2>2, <2>3 DEF j
<1>6. QED
  BY <1>1, <1>3, <1>4, <1>5

\* The driver keeps what agrees with a parity
LEMMA DCBAgrees ==
  ASSUME build = "windows", NEW tio \in Termios, NEW s, NEW b, NEW n, NEW p \in Parities, NEW f,
         LineAgrees(s, b, n, p, tio), FlowAgrees(f, tio)
  PROVE  /\ LineAgrees(s, b, n, p, termios_to_DCB(tio)) /\ FlowAgrees(f, termios_to_DCB(tio))
         /\ termios_to_DCB(tio).vtime = tio.vtime
<1>. DEFINE d == termios_to_DCB(tio)
<1>1. tio.par = ParityBits(p)
  BY DEF LineAgrees
<1>2. SameFlow(d, tio) /\ d.vtime = tio.vtime
      /\ d.code = tio.code /\ d.bits = tio.bits /\ d.stop2 = tio.stop2
  BY DEF termios_to_DCB, Termios, SameFlow
<1>3. d.par = tio.par
  <2>1. d.par = IF "PARENB" \in tio.par
                THEN {"PARENB"} \cup (tio.par \cap {"PARODD", "CMSPAR"}) ELSE {}
    BY DEF termios_to_DCB, Termios
  <2>2. QED
    BY <1>1, <2>1, ParityKept
<1>. HIDE DEF d
<1>4. QED
  BY <1>2, <1>3 DEF LineAgrees, FlowAgrees, SameFlow, d

LEMMA AgreeFinish ==
  ASSUME TInv, AgreeInv, NEW t \in Threads, Finish(t)
  PROVE  AgreeInv'
<1> SUFFICES ASSUME ~lost', ~torn' PROVE AgreeInv'
  BY DEF AgreeInv
<1>. DEFINE c == call[t]
<1>1. /\ c.op \notin {"idle", "stored"} /\ call' = [call EXCEPT ![t] = Idle] /\ build' = build
  BY DEF Finish
<1>2. \/ /\ dev' = dev /\ java' = java /\ lost' = lost /\ torn' = torn
         /\ \/ c.op = "modem" /\ apart' = apart
            \/ c.op # "modem" /\ apart' = (apart \/ (c.op = "timeout" /\ dev' # c.tio))
      \/ /\ c.op # "modem" /\ apart' = (apart \/ (c.op = "timeout" /\ dev' # c.tio))
         /\ lost' = (lost \/ dev # c.seen) /\ java' = JavaFields(c) /\ torn' = torn
         /\ \/ dev' = c.tio
            \/ build = "windows" /\ dev' = termios_to_DCB(c.tio)
  BY DEF Finish, UnixSet, WinSet
<1>3. ~lost /\ ~torn
  <2>1. lost' = lost \/ lost' = (lost \/ dev # c.seen)
    BY Zenon, <1>2
  <2>2. torn' = torn
    BY Zenon, <1>2
  <2>3. lost \in BOOLEAN /\ torn \in BOOLEAN
    BY DEF TInv, RestOK
  <2>. HIDE DEF c
  <2>4. QED
    BY Zenon, <2>1, <2>2, <2>3
<1>4. CASE /\ dev' = dev /\ java' = java /\ lost' = lost /\ torn' = torn
           /\ \/ c.op = "modem" /\ apart' = apart
              \/ c.op # "modem" /\ apart' = (apart \/ (c.op = "timeout" /\ dev' # c.tio))
  <2>1. LineAgrees(java'.speed, java'.bits, java'.stop, java'.par, dev')
        /\ FlowAgrees(java'.flow, dev') /\ java'.timeout = java.timeout
    BY <1>3, <1>4 DEF AgreeInv
  <2>2. ~apart' => ~apart /\ (c.op = "timeout" => dev' = c.tio)
    BY Zenon, <1>4
  <2>3. ~apart' => ~apart /\ dev'.vtime = IF call[t].op = "timeout" THEN call[t].tio.vtime
                                          ELSE dev.vtime
    BY <1>4, <2>2
  <2>. HIDE DEF c
  <2>4. QED
    BY <1>1, <1>3, <2>1, <2>3, AgreeEnd DEF c
<1>5. CASE /\ c.op # "modem" /\ apart' = (apart \/ (c.op = "timeout" /\ dev' # c.tio))
           /\ lost' = (lost \/ dev # c.seen) /\ java' = JavaFields(c) /\ torn' = torn
           /\ \/ dev' = c.tio
              \/ build = "windows" /\ dev' = termios_to_DCB(c.tio)
  <2>. DEFINE j == JavaFields(c)
  <2>1. dev = c.seen
    BY Zenon, <1>5
  <2>2. /\ LineAgrees(j.speed, j.bits, j.stop, j.par, c.tio) /\ FlowAgrees(j.flow, c.tio)
        /\ j.timeout = java.timeout /\ (c.op # "timeout" => c.tio.vtime = dev.vtime)
    BY <1>1, <1>3, <1>5, <2>1, WrittenAgrees
  <2>3. c.tio \in Termios /\ j.par \in Parities
    BY Stored DEF JavaType
  <2>. HIDE DEF c, j
  <2>4. LineAgrees(j.speed, j.bits, j.stop, j.par, dev') /\ FlowAgrees(j.flow, dev')
        /\ dev'.vtime = c.tio.vtime
    BY <1>5, <2>2, <2>3, DCBAgrees
  <2>5. ~apart' => ~apart
    BY Zenon, <1>5
  <2>6. java' = j
    BY <1>5 DEF j
  <2>7. QED
    BY <1>1, <1>3, <2>2, <2>4, <2>5, <2>6, AgreeEnd DEF c
<1>6. QED
  BY <1>2, <1>4, <1>5

LEMMA AgreeStep == TInv /\ CopyInv /\ AgreeInv /\ [Next]_vars => AgreeInv'
<1> SUFFICES ASSUME TInv, CopyInv, AgreeInv, [Next]_vars PROVE AgreeInv'
  OBVIOUS
<1>1. ASSUME UNCHANGED <<build, dev, java, call, lost, torn, apart>> PROVE AgreeInv'
  BY <1>1 DEF AgreeInv, LineAgrees, FlowAgrees, Follows, TimeoutAgrees, InTimeout
<1>2. CASE Calls
  <2>1. ASSUME NEW t \in Threads, NEW r \in Requests, SetSerialPortParams(t, r) PROVE AgreeInv'
    BY <2>1, AgreeParams
  <2>2. ASSUME NEW t \in Threads,
               \/ \E f \in FlowModes : setflowcontrol(t, f)
               \/ nativeSetEndOfInputChar(t, 1)
               \/ \E v \in BOOLEAN : setDTR(t, v) \/ setRTS(t, v)
        PROVE  AgreeInv'
    BY <2>2, AgreeOthers
  <2>3. ASSUME NEW t \in Threads, NEW v \in {0, 1}, enableReceiveTimeout(t, v) PROVE AgreeInv'
    BY <2>3, AgreeStored
  <2>4. CASE nativeSetBaudBase \/ nativeSetDivisor
    BY <1>1, <2>4 DEF nativeSetBaudBase, nativeSetDivisor
  <2>5. QED
    BY <1>2, <2>1, <2>2, <2>3, <2>4 DEF Calls
<1>3. ASSUME NEW t \in Threads,
             HangUpGet(t) \/ HangUpSet(t) \/ NativeEnableReceiveTimeoutThreshold(t)
      PROVE  AgreeInv'
  BY <1>3, AgreeHangUp, AgreeNative
<1>4. ASSUME NEW t \in Threads, Finish(t) PROVE AgreeInv'
  BY <1>4, AgreeFinish
<1>5. CASE UNCHANGED vars
  BY <1>1, <1>5 DEF vars
<1>6. QED
  BY <1>2, <1>3, <1>4, <1>5 DEF Next

(* What RXTXPort tells of the rate, the size, the stop bits, the parity,   *)
(* the flow control and the receive timeout is what the device has, on     *)
(* every build, but after a tcsetattr that wrote back a copy without       *)
(* another thread's change, or failed half way.                            *)
THEOREM ParametersAgree == Spec => []ParamsAgree
<1>1. Init => CopyInv
  BY DEF Init, CopyInv
<1>2. Spec => [](TInv /\ CopyInv /\ AgreeInv)
  BY <1>1, TypeInit, TypeStep, CopyStep, AgreeInit, AgreeStep, PTL DEF Spec
<1>3. QED
  BY <1>2, AgreeTold, PTL
==============================================================================
