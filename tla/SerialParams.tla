----------------------------- MODULE SerialParams -----------------------------
(***************************************************************************)
(* The line parameters of an open port: setSerialPortParams, flow control, *)
(* the end-of-input character, the receive timeout and the baud base       *)
(* change a copy of the device's termios and write it back whole, while    *)
(* RXTXPort keeps its own idea in fields.  The native code is one of       *)
(* three builds: "cmspar" and "plain" are Unix with and without the CMSPAR *)
(* bit, "windows" runs over termios.c, which keeps a termios copy beside   *)
(* the driver's DCB and puts its answers together from both.               *)
(***************************************************************************)
EXTENDS Integers, Sequences, FiniteSets

CONSTANTS
  Threads,     \* Java threads that use the port
  Builds,      \* the builds to look at
  Requests,    \* the arguments of setSerialPortParams
  FlowModes,   \* the arguments of setFlowControlMode: sets of flags
  MaxCalls     \* bound: native calls made

Parities == {"none", "even", "odd", "mark", "space"}
FlowFlags == {"RTSCTS_IN", "RTSCTS_OUT", "XONXOFF_IN", "XONXOFF_OUT"}

ASSUME BuildAssumption == Builds \subseteq {"cmspar", "plain", "windows"}
ASSUME RequestAssumption ==
  Requests \subseteq [speed : Int, bits : Int, stop : Int, par : Parities]
ASSUME CallsAssumption == MaxCalls \in Nat
ASSUME FlowAssumption == FlowModes \subseteq SUBSET FlowFlags

-----------------------------------------------------------------------------
(* Rates and their codes: B50..B38400 are 1..15, B57600..B4000000 4097..4111. *)

LowRates == <<50, 75, 110, 134, 150, 200, 300, 600, 1200, 1800, 2400, 4800,
              9600, 19200, 38400>>
HighRates == <<57600, 115200, 230400, 460800, 500000, 576000, 921600, 1000000,
               1152000, 1500000, 2000000, 2500000, 3000000, 3500000, 4000000>>
B9600 == 13
B38400 == 15

\* The codes cfsetispeed takes, and those of the rates above (4096 is none)
ValidCode == 0 .. 15 \cup 4096 .. 4111
RateCode == ValidCode \ {4096}

get_java_baudrate(c) ==
  CASE c = 0 -> 0
    [] c \in 1 .. 15 -> LowRates[c]
    [] c \in 4097 .. 4111 -> HighRates[c - 4096]
    [] OTHER -> -1

Standard == {get_java_baudrate(c) : c \in RateCode}

\* A rate without a constant is passed on as it is: 7 comes out as B300
translate_speed(rate) ==
  IF rate \in Standard THEN CHOOSE c \in RateCode : get_java_baudrate(c) = rate
  ELSE IF rate >= 0 THEN rate ELSE -1

-----------------------------------------------------------------------------
(* The bits of c_cflag. *)

ParityBits(p) ==
  CASE p = "none" -> {}
    [] p = "even" -> {"PARENB"}
    [] p = "odd" -> {"PARENB", "PARODD"}
    [] p = "mark" -> {"PARENB", "PARODD", "CMSPAR"}
    [] OTHER -> {"PARENB", "CMSPAR"}

\* Without CMSPAR the old parity bits are not cleared first
translate_parity(build, old, p) ==
  (IF build = "plain" THEN old ELSE {}) \cup ParityBits(p)

ParityKnown(build, p) == build = "plain" => p \notin {"mark", "space"}

\* Mutant: one stop bit does not clear CSTOPB.
StopBitsSticky(tio, s) ==
  CASE s = 1 -> tio
    [] s = 2 -> [tio EXCEPT !.stop2 = TRUE]
    [] OTHER -> [tio EXCEPT !.bits = 5]
\* STOPBITS_1_5 (3) becomes five data bits
translate_stop_bits(tio, s) ==
  CASE s = 1 -> [tio EXCEPT !.stop2 = FALSE]
    [] s = 2 -> [tio EXCEPT !.stop2 = TRUE]
    [] OTHER -> [tio EXCEPT !.bits = 5]

\* What the three translations do not refuse
Accepts(build, r) ==
  r.bits \in 5 .. 8 /\ r.stop \in 1 .. 3 /\ ParityKnown(build, r.par)

translate_data_bits(tio, d) == [tio EXCEPT !.bits = d]

Translated(build, tio, r) ==
  [translate_stop_bits(translate_data_bits(tio, r.bits), r.stop)
     EXCEPT !.par = translate_parity(build, tio.par, r.par)]

-----------------------------------------------------------------------------
VARIABLES
  build,    \* the build that runs
  dev,      \* the kernel's termios, or the driver's DCB in the same terms
  ttyset,   \* termios.c's copy of the last termios written
  java,     \* speed, dataBits, stopBits, parity, flowmode, timeout of RXTXPort
  modem,    \* the modem outputs DTR and RTS
  msr,      \* termios.c's idea of them
  wanted,   \* history: what the last setDTR, setRTS or hang-up asked for
  base, divisor,   \* serial_struct of the driver, "garbage" once overwritten
  call,     \* thread -> the native call between its tcgetattr and tcsetattr
  lost,     \* history: a tcsetattr undid a change made since its tcgetattr
  mixed,    \* history: the outputs so undone by a TIOCMSET for the other one
  torn,     \* history: a tcsetattr failed after it had changed the DCB
  apart,    \* history: the field timeout was not followed by its own native call
  calls     \* native calls made so far, at most MaxCalls

serial == <<base, divisor>>
outputs == <<modem, msr, wanted, mixed>>
vars == <<build, dev, ttyset, java, outputs, serial, call, lost, torn, apart, calls>>

Termios == [code : ValidCode, bits : 5 .. 8, stop2 : BOOLEAN,
            par : SUBSET {"PARENB", "PARODD", "CMSPAR"},
            hw : BOOLEAN, xin : BOOLEAN, xout : BOOLEAN, eof : 0 .. 1, vtime : 0 .. 1]

\* configure_port leaves 9600 8N1; so does init_termios
Configured == [code |-> B9600, bits |-> 8, stop2 |-> FALSE, par |-> {},
               hw |-> FALSE, xin |-> FALSE, xout |-> FALSE, eof |-> 0, vtime |-> 0]
Lines == {"dtr", "rts"}
Outputs == [Lines -> BOOLEAN]
BothOn == [l \in Lines |-> TRUE]
NoRequest == [speed |-> 9600, bits |-> 8, stop |-> 1, par |-> "none"]
Idle == [op |-> "idle", tio |-> Configured, seen |-> Configured,
         req |-> NoRequest, flow |-> {}, line |-> "none", got |-> BothOn, out |-> BothOn]

(* Every variable holds a value of its type. *)
TypeOK ==
  /\ build \in Builds
  /\ dev \in Termios /\ ttyset \in Termios
  /\ java \in [speed : Int, bits : Int, stop : Int, par : Parities, flow : SUBSET FlowFlags,
              timeout : 0 .. 1]
  /\ {modem, msr, wanted} \subseteq Outputs
  /\ base \in {"set", "garbage"} /\ divisor \in {"set", "garbage"}
  /\ call \in [Threads -> [op : {"idle", "params", "flow", "eof", "modem", "stored", "timeout"},
                           tio : Termios, seen : Termios,
                           req : [speed : Int, bits : Int, stop : Int, par : Parities],
                           flow : SUBSET FlowFlags,
                           line : {"none", "hangup", "dtr", "rts"},
                           got : Outputs, out : Outputs]]
  /\ mixed \subseteq Lines
  /\ {lost, torn, apart} \subseteq BOOLEAN
  /\ calls \in 0 .. MaxCalls

Init ==
  /\ build \in Builds
  /\ dev = Configured /\ ttyset = Configured
  /\ java = [speed |-> 9600, bits |-> 8, stop |-> 1, par |-> "none", flow |-> {},
             timeout |-> 0]
  /\ modem = [BothOn EXCEPT !["rts"] = build # "windows"]
  /\ msr = [l \in Lines |-> FALSE]
  /\ wanted = BothOn /\ mixed = {}
  /\ base = "set" /\ divisor = "set"
  /\ call = [t \in Threads |-> Idle]
  /\ lost = FALSE /\ torn = FALSE /\ apart = FALSE
  /\ calls = 0

-----------------------------------------------------------------------------
(* termios.c: the DCB's size and rate are or-ed into those of the copy. *)

Bit(n, w) == (n \div w) % 2
OrNat(m, n, W) == {w \in W : Bit(m, w) = 1 \/ Bit(n, w) = 1}
OrBits(a, b) ==    \* CS5..CS8 are 0..3
  LET s == OrNat(a - 5, b - 5, {1, 2}) IN
  5 + (IF 1 \in s THEN 1 ELSE 0) + (IF 2 \in s THEN 2 ELSE 0)
OrCode(a, b) ==
  LET s == OrNat(a, b, {1, 2, 4, 8, 4096})
      v(w) == IF w \in s THEN w ELSE 0
  IN v(1) + v(2) + v(4) + v(8) + v(4096)

tcgetattr ==
  IF build # "windows" THEN dev
  ELSE [dev EXCEPT !.bits = OrBits(ttyset.bits, dev.bits),
                   !.code = OrCode(ttyset.code, dev.code)]

\* cfsetispeed and cfsetospeed of termios.c: an unknown speed is ignored and
\* rate 0 becomes 9600
WinSpeed(tio, c) ==
  IF c \notin ValidCode THEN tio
  ELSE [tio EXCEPT !.code = IF c = 0 THEN B9600 ELSE c]

-----------------------------------------------------------------------------
(* ioctl: termios.c cannot read the outputs and remembers what was set.    *)
TIOCMGET == IF build = "windows" THEN msr ELSE modem
TIOCMSET(m) ==
  /\ modem' = m
  /\ msr' = IF build = "windows" THEN m ELSE msr

\* The second half of a change of one output, made of the values got in the first
SetOutput(c) ==
  /\ TIOCMSET(c.out)
  /\ wanted' = [wanted EXCEPT ![c.line] = c.out[c.line]]
  /\ mixed' = (mixed \ {c.line}) \cup {l \in Lines \ {c.line} : modem[l] # c.got[l]}

Begin(t, c) ==
  /\ call[t].op = "idle"
  /\ call' = [call EXCEPT ![t] = c]
  /\ UNCHANGED <<build, dev, ttyset, java, lost, mixed, torn, apart>>

Change(t, op, tio, req, flow, line) ==
  Begin(t, [Idle EXCEPT !.op = op, !.tio = tio, !.seen = dev, !.req = req, !.flow = flow,
                        !.line = line])

\* Speed 0 drops DTR first
HangsUp(c) == IF c = 0 THEN "hangup" ELSE "none"

\* set_port_params up to the hang-up, or up to tcsetattr, under the monitor of
\* the port.  A rate the C library does not know goes into a serial_struct
\* nobody has read: refused, or written back over the driver's
SetSerialPortParams(t, r) ==
  LET c == translate_speed(r.speed)
      tio == Translated(build, tcgetattr, r)
  IN
  /\ \A u \in Threads : call[u].op # "params"
  /\ c # -1
  /\ Accepts(build, r)
  /\ \/ /\ build = "windows"
        /\ Change(t, "params", WinSpeed(tio, c), r, {}, HangsUp(c))
        /\ UNCHANGED serial
     \/ /\ build # "windows"
        /\ c \in ValidCode
        /\ Change(t, "params", [tio EXCEPT !.code = c], r, {}, HangsUp(c))
        /\ UNCHANGED serial
     \/ /\ build # "windows"
        /\ c \notin ValidCode
        /\ Change(t, "params", [tio EXCEPT !.code = B38400], r, {}, "none")
        /\ base' = "garbage" /\ divisor' = "garbage"
  /\ UNCHANGED <<modem, msr, wanted>>

\* Mutant: the hang-up drops both outputs.
HangUpBoth(t) ==
  /\ call[t].op = "params" /\ call[t].line = "hangup"
  /\ call' = [call EXCEPT ![t].line = "dtr", ![t].got = TIOCMGET,
                          ![t].out = [l \in Lines |-> FALSE]]
  /\ UNCHANGED <<build, dev, ttyset, java, outputs, serial, lost, torn, apart>>

\* ioctl( fd, TIOCMGET, &result ); result &= ~TIOCM_DTR
HangUpGet(t) ==
  /\ call[t].op = "params" /\ call[t].line = "hangup"
  /\ call' = [call EXCEPT ![t].line = "dtr", ![t].got = TIOCMGET,
                          ![t].out = [TIOCMGET EXCEPT !["dtr"] = FALSE]]
  /\ UNCHANGED <<build, dev, ttyset, java, outputs, serial, lost, torn, apart>>

\* ioctl( fd, TIOCMSET, &result )
HangUpSet(t) ==
  /\ call[t].op = "params" /\ call[t].line = "dtr"
  /\ SetOutput(call[t])
  /\ call' = [call EXCEPT ![t].line = "none"]
  /\ UNCHANGED <<build, dev, ttyset, java, serial, lost, torn, apart>>

setflowcontrol(t, f) ==
  /\ Change(t, "flow", [tcgetattr EXCEPT !.hw = f \cap {"RTSCTS_IN", "RTSCTS_OUT"} # {},
                                         !.xin = "XONXOFF_IN" \in f,
                                         !.xout = "XONXOFF_OUT" \in f],
            NoRequest, f, "none")
  /\ UNCHANGED <<outputs, serial>>

nativeSetEndOfInputChar(t, v) ==
  /\ Change(t, "eof", [tcgetattr EXCEPT !.eof = v], NoRequest, {}, "none")
  /\ UNCHANGED <<outputs, serial>>

\* enableReceiveTimeout, or enableReceiveThreshold with the timeout there is: the
\* field first
InTimeout(t) == call[t].op \in {"stored", "timeout"}
enableReceiveTimeout(t, v) ==
  /\ call[t].op = "idle"
  /\ java' = [java EXCEPT !.timeout = v]
  /\ call' = [call EXCEPT ![t] = [Idle EXCEPT !.op = "stored", !.tio.vtime = v]]
  /\ apart' = \E u \in Threads : InTimeout(u)
  /\ UNCHANGED <<build, dev, ttyset, outputs, serial, lost, torn>>

\* VMIN is always 0
NativeEnableReceiveTimeoutThreshold(t) ==
  /\ call[t].op = "stored"
  /\ call' = [call EXCEPT ![t].op = "timeout", ![t].seen = dev,
                          ![t].tio = [tcgetattr EXCEPT !.vtime = call[t].tio.vtime]]
  /\ UNCHANGED <<build, dev, ttyset, java, outputs, serial, lost, torn, apart>>

\* setDTR and setRTS read both outputs, change one and write both
SetLine(t, line, v) ==
  /\ Begin(t, [Idle EXCEPT !.op = "modem", !.line = line, !.got = TIOCMGET,
                          !.out = [TIOCMGET EXCEPT ![line] = v]])
  /\ UNCHANGED <<modem, msr, wanted, serial>>
setDTR(t, v) == SetLine(t, "dtr", v)
setRTS(t, v) == SetLine(t, "rts", v)

\* What RXTXPort notes when the native call has worked
JavaFields(c) ==
  CASE c.op = "params" ->
         [java EXCEPT !.speed = c.req.speed,
                      !.bits = IF c.req.stop = 3 THEN 5 ELSE c.req.bits,
                      !.stop = c.req.stop, !.par = c.req.par]
    [] c.op = "flow" -> [java EXCEPT !.flow = c.flow]
    [] OTHER -> java

\* The kernel drops both outputs when the rate becomes 0, and raises both when
\* it is no longer 0
SameRate(old, new) == (old = 0) = (new = 0)
AtRate(old, new, m) == IF SameRate(old, new) THEN m ELSE [l \in Lines |-> new # 0]
\* tcsetattr of the kernel: all of it, or an error and nothing
UnixSet(t) ==
  LET c == call[t].tio.code IN
  /\ build # "windows"
  /\ \/ /\ dev' = call[t].tio /\ java' = JavaFields(call[t])
        /\ lost' = (lost \/ dev # call[t].seen)
        /\ modem' = AtRate(dev.code, c, modem)
        /\ wanted' = AtRate(dev.code, c, wanted)
        /\ mixed' = IF SameRate(dev.code, c) THEN mixed ELSE {}
     \/ UNCHANGED <<dev, java, lost, modem, wanted, mixed>>
  /\ UNCHANGED <<ttyset, torn>>

\* Mutant: the copy is only made when the port is opened.
WinSetNoCopy(t) ==
  /\ build = "windows"
  /\ \/ /\ dev' = call[t].tio
        /\ lost' = (lost \/ dev # call[t].seen)
        /\ java' = JavaFields(call[t])
        /\ modem' = [BothOn EXCEPT !["rts"] = call[t].tio.hw]
        /\ UNCHANGED <<ttyset, torn>>
     \/ UNCHANGED <<dev, ttyset, java, lost, torn, modem>>
  /\ UNCHANGED <<wanted, mixed>>
\* The DCB of a tcsetattr whose SetCommTimeouts fails
OldTimeouts(tio) == [tio EXCEPT !.vtime = dev.vtime]
\* The parity of the DCB, one of five, stands for the bits it was made of
termios_to_DCB(tio) ==
  [tio EXCEPT !.par = IF "PARENB" \in tio.par
                      THEN {"PARENB"} \cup (tio.par \cap {"PARODD", "CMSPAR"}) ELSE {}]
\* tcsetattr of termios.c: SetCommState, which also raises DTR and leaves RTS
\* to the handshake, then SetCommTimeouts, then the copy
WinSet(t) ==
  /\ build = "windows"
  /\ \/ /\ lost' = (lost \/ dev # call[t].seen)
        /\ modem' = [BothOn EXCEPT !["rts"] = call[t].tio.hw]
        /\ \/ /\ dev' = termios_to_DCB(call[t].tio) /\ ttyset' = call[t].tio
              /\ java' = JavaFields(call[t]) /\ UNCHANGED torn
           \/ /\ dev' = OldTimeouts(termios_to_DCB(call[t].tio))
              /\ UNCHANGED <<ttyset, java>> /\ torn' = TRUE
     \/ UNCHANGED <<dev, ttyset, java, lost, torn, modem>>
  /\ UNCHANGED <<wanted, mixed>>

Finish(t) ==
  LET c == call[t] IN
  /\ c.op \notin {"idle", "stored"}
  /\ c.op = "params" => c.line = "none"
  /\ \/ /\ c.op # "modem"
        /\ UnixSet(t) \/ WinSet(t)
        /\ apart' = (apart \/ (c.op = "timeout" /\ dev' # c.tio))
        /\ UNCHANGED msr
     \/ /\ c.op = "modem"
        /\ SetOutput(c)
        /\ UNCHANGED <<dev, ttyset, java, lost, torn, apart>>
  /\ call' = [call EXCEPT ![t] = Idle]
  /\ UNCHANGED <<build, serial>>

\* setBaudBase reads the serial_struct and writes it back; setDivisor does the
\* same and never stores the divisor it is given
nativeSetBaudBase ==
  /\ build # "windows"
  /\ base' = "set"
  /\ UNCHANGED <<build, dev, ttyset, java, outputs, divisor, call, lost, torn, apart>>
nativeSetDivisor ==
  /\ build # "windows"
  /\ UNCHANGED <<build, dev, ttyset, java, outputs, serial, call, lost, torn, apart>>

Calls ==
  \/ \E t \in Threads :
       \/ \E r \in Requests : SetSerialPortParams(t, r)
       \/ \E f \in FlowModes : setflowcontrol(t, f)
       \/ nativeSetEndOfInputChar(t, 1)
       \/ \E v \in {0, 1} : enableReceiveTimeout(t, v)
       \/ \E v \in BOOLEAN : setDTR(t, v) \/ setRTS(t, v)
  \/ nativeSetBaudBase
  \/ nativeSetDivisor

Next ==
  \/ calls < MaxCalls /\ Calls /\ calls' = calls + 1
  \/ /\ \E t \in Threads : \/ HangUpGet(t) \/ HangUpSet(t)
                           \/ NativeEnableReceiveTimeoutThreshold(t)
                           \/ Finish(t)
     /\ UNCHANGED calls

Spec == Init /\ [][Next]_vars

-----------------------------------------------------------------------------
(* What the native getters make of the device. *)
nativeGetFlowControlMode(tio) ==
  (IF tio.hw THEN {"RTSCTS_IN", "RTSCTS_OUT"} ELSE {})
  \cup (IF tio.xin THEN {"XONXOFF_IN"} ELSE {})
  \cup (IF tio.xout THEN {"XONXOFF_OUT"} ELSE {})

\* What the nativeStaticGet functions report
set_java_vars(tio) ==
  [speed |-> get_java_baudrate(tio.code), bits |-> tio.bits,
   stop |-> IF tio.stop2 THEN 2 ELSE 1,
   par |-> CHOOSE p \in Parities : ParityBits(p) = tio.par]

\* Nothing calls nativeGetParity.  A misplaced parenthesis makes its test for
\* space parity one of CMSPAR and the lowest bit of c_cflag, a bit of the rate
nativeGetParity(tio) ==
  CASE {"PARENB", "PARODD", "CMSPAR"} \subseteq tio.par -> "mark"
    [] "CMSPAR" \in tio.par /\ "PARODD" \notin tio.par /\ tio.code % 2 = 1 -> "space"
    [] {"PARENB", "PARODD"} = tio.par -> "odd"
    [] "PARENB" \in tio.par /\ "PARODD" \notin tio.par
         /\ ~("CMSPAR" \in tio.par /\ tio.code % 2 = 1) -> "even"
    [] OTHER -> "none"

\* both directions of hardware flow control go together
BothWays(f) ==
  IF f \cap {"RTSCTS_IN", "RTSCTS_OUT"} = {} THEN f
  ELSE f \cup {"RTSCTS_IN", "RTSCTS_OUT"}

(* The parameters RXTXPort tells are those of the device, on every build,   *)
(* unless a tcsetattr wrote back a copy another thread's change was missing *)
(* from, or failed half way: rate (of the rates that have a constant; 0 is  *)
(* 9600 on Windows), data bits, stop bits (1.5 is not kept), parity (only   *)
(* more than asked for without CMSPAR) and flow control.  nativeGetParity   *)
(* agrees too, but for space parity at every other rate.  The receive       *)
(* timeout agrees unless the last enableReceiveTimeout failed or overlapped *)
(* another.                                                                 *)
ParamsAgree ==
  LET told == set_java_vars(dev) IN
  ~lost /\ ~torn =>
    /\ java.speed \in Standard /\ (build = "windows" => java.speed # 0) =>
         told.speed = java.speed
    /\ java.bits = told.bits
    /\ java.stop # 3 => told.stop = java.stop
    /\ IF build = "plain" THEN ParityBits(java.par) \subseteq dev.par
       ELSE /\ told.par = java.par
            /\ java.par # "space" => nativeGetParity(dev) = java.par
    /\ nativeGetFlowControlMode(dev) = BothWays(java.flow)
    /\ ~apart /\ (\A t \in Threads : ~InTimeout(t)) => dev.vtime = java.timeout

(* Although it ors the DCB into its copy without clearing anything,         *)
(* tcgetattr of termios.c reads back what the driver has, as long as no     *)
(* tcsetattr failed between the DCB and the copy.                           *)
ReadsBack == ~torn => tcgetattr = dev

(* On Unix each of DTR and RTS is what was last asked for it, whatever      *)
(* parameters are changed meanwhile: only rate 0 moves them, and the write   *)
(* of a setDTR, setRTS or hang-up that had read them before they changed.    *)
(* An output that was undone so is right again after the next call for it,   *)
(* or the next change to or from rate 0.                                     *)
OutputsHeld ==
  build # "windows" => \A l \in Lines : l \in mixed \/ modem[l] = wanted[l]
==============================================================================
