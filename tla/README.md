# A TLA+ model of RXTX

RXTX gives Java programs the serial and parallel ports of the machine (the `javax.comm`
API, here as `gnu.io`).  A port is a Java object whose methods call C functions over
JNI; the C functions use the tty device, a lock file, and one native event loop per
open port.  Almost nothing of it is synchronized: plain boolean fields, 5 ms polls, a
process-wide linked list without a lock, and lock files made of separate system calls
hold it together.  This directory models those protocols in TLA+, checks them with TLC
and proves the central ones with TLAPS.

Paths below are relative to the repository; `RXTXPort.java` is
`src/gnu/io/RXTXPort.java` and `SerialImp.c` is `src/SerialImp.c`.

## 1. Inventory

| Part | State | Operations | Hard behaviour |
|---|---|---|---|
| RXTXPort (`RXTXPort.java`) | `fd`, `IOLocked`, `closeLock`, `MonitorThreadLock`, `MonitorThreadAlive`, `monThreadisInterrupted`, `SPEventListener`, `monThread`, `eis`, the parameters and timeouts | constructor, `add/removeEventListener`, ten `notifyOnX`, `close`, stream reads and writes, `sendEvent`, parameters, static getters and setters | every field is read and written by the application's threads, the monitor thread and listeners without locks; `close` must wait for I/O and stop the monitor thread; `join` has a time limit; a listener may call back into its own port |
| Native loop and I/O (`SerialImp.c`) | `event_info_struct` (flags, `closing`, `fd`, counters), the list `master_index`, on the non-Linux Unix builds a drain thread | `eventLoop`, `initialise/finalize_event_info_struct`, `interruptEventLoop`, `nativeSetEventFlag`, `report_serial_events`, `read_byte_array`, `writeArray`, `nativeDrain`, `nativeClose` | the list is walked by file descriptor while others change it; an event flag is saved and put back around each read; the structure lives on the loop's stack and is reached through a long in the Java object |
| Lock files (`SerialImp.c`) | `LOCKDIR/LCK..<device>` with a pid in it | `fhs_lock`, `fhs_unlock`, `uucp_lock`, `uucp_unlock`, `check_lock_status`, `check_group_uucp`, `is_device_locked`, `check_lock_pid` | stale locks are found by pid and removed by path; create and write are two steps; processes die between any two |
| Preopened ports (`SerialImp.c`) | the list `preopened_port` of descriptors opened by the static setters | `static_add_filename`, `find_preopened_ports`, `nativeStaticSet*`, `nativeStaticIs*`, `open` | the lock stays with a descriptor that another call takes over; error paths leave locks and list entries |
| Serial parameters (`SerialImp.c`, `RXTXPort.java`) | termios flags, speed, `serial_struct` | `set_port_params`, `translate_data_bits/stop_bits/parity`, flow control, the static getters | the Java fields and the device must say the same after a failure; conversions there and back |
| Reads with timeout and threshold | `timeout`, `threshold`, `InputBuffer` | `read(byte[])` variants, `readArray`, `readTerminatedArray`, `read_byte_array` | a documented table of when a read returns and with how much |
| RXTXCommDriver (`RXTXCommDriver.java`) | registered ports, prefixes, `devicePath` | `initialize`, `registerScannedPorts`, `testRead`, `isPortPrefixValid`, `getCommPort` | enumeration probes devices that other threads and programs hold |
| Modem lines and error counters (`SerialImp.c`) | copies of the lines and counters in `event_info_struct` | `check_line_status_register`, `check_cgi_count`, `check_tiocmget_changes`, `report_serial_events` | the device goes on while the events of a pass are sent; counters wrap; an ioctl of one pass, or of another thread, clears what the next would have seen |
| LPRPort (`LPRPort.java`), `ParallelImp.c` | `fd`, listener, monitor thread, threshold and timeout | `open`, `eventLoop`, `add/removeEventListener`, `close`, `finalize`, reads and writes | nothing waits for the old event loop or for reads in progress; a closed port has descriptor 0, somebody else's |
| Windows emulation (`termios.c`) | a list of ports with handle, made-up descriptor, event mask and a termios copy beside the driver's DCB | `serial_open/close/read/write`, `tcgetattr/tcsetattr`, `tcdrain`, `tcflush`, `tcsendbreak`, `ioctl`, `serial_test` | list and entries are reached by several threads without a lock, and calls wait in the middle; termios to DCB and back |
| Lock variants | | `lfs_lock`, liblockdev | build-time alternatives of the lock macros; a server and a library |
| Helpers | | `Configure`, `Zystem`, `RXTXVersion` | none |
| Old or foreign code | | `SerialImp.cpp` (BeOS), `WinCE/`, `psmisc/` (fuser) | not part of the library that is built |

How they interact.  `RXTXCommDriver` asks the native code which devices answer
(`testRead`, which locks, opens, probes, unlocks, closes) and makes an `RXTXPort`.  Its
constructor calls `open` (lock file, preopened list, device) and starts a
`MonitorThread`, whose `run` stays in the native `eventLoop`.  The loop links its
structure into `master_index`, stores a pointer to it in the Java object, releases
`MonitorThreadLock`, and from then on polls the device and calls `sendEvent`, which
calls the listener on the monitor thread.  Application threads reach the loop only
through `master_index` (`nativeSetEventFlag`, `interruptEventLoop`) or that pointer
(`read_byte_array`, `nativeDrain`).  `close` waits for `IOLocked` to be 0, stops the
monitor thread by way of `removeEventListener`, closes the descriptor and removes the
lock file.

What makes each part correct:

* **RXTXPort**: the descriptor is closed once, and not while a call uses it; every
  `close` and `removeEventListener` returns; no monitor thread runs on that nothing can
  stop; no event comes after `removeEventListener`; waiting data reaches a listener that
  asked for it; `MonitorThreadLock` is always given back.
* **Native loop**: `master_index` holds the running loops and each loop leaves it once;
  the event flag of the loop and the flag of the Java object agree; each change of a
  modem line or counter is reported once; output-empty is reported after the last write
  and never before.
* **Lock files**: at most one owner; no lock of a living owner is called stale; a dead
  owner's lock is removed.
* **Preopened ports**: a descriptor is handed to one port; no lock without a user.
* **Parameters and reads**: conversions invert each other; the table of timeouts holds.
* **Lines and counters**: a listener hears of a line's levels in turn, and in the end of
  the level the line stays at; every error has an event, and every event an error.
* **Driver**: a probe keeps off a device that is in use and leaves it as it found it.
* **Parallel port**: close closes the port's descriptor once, a read keeps what it has
  taken, no event comes after `removeEventListener`, an event loop without a listener
  ends.
* **Windows emulation**: a descriptor leads to the port it was given out for, the events
  asked for stay in the driver's mask whatever other calls do to it, the end of an output
  is not forgotten, a read finds what it waited for, no line stays in a break that nothing
  ends.

## 2. Modules

| Module | What it is |
|---|---|
| `LockFile` | the lock file, in FHS and in UUCP style, one system call per step, with crashes and reuse of pids |
| `MCLockFile` | its instance: two processes, one the child of the other, three threads, and a view |
| `DeviceLockProofs` | inductive invariants and theorems of `LockFile` and of `Preopened`, what a lock file gives and what is done under it |
| `SerialPort` | one open `RXTXPort` with its application threads, monitor threads, native loops and device |
| `MCSerialPort` | its instances: which thread calls which methods |
| `SerialPortProofs` | types, one close, close waiting for I/O, no monitor thread that nothing can stop and no event after its removal, for any number of threads |
| `OutputEvents` | the event "output buffer empty": drain thread, event loop, writers, flushes, and the thread that stops the loop |
| `MCOutputEvents` | its instance |
| `OutputEventsProofs` | types, the drain thread's last stores, one event per write, for any writers and any number of calls |
| `PortReads` | a read with receive timeout, threshold or terminator, while bytes arrive and the port is configured |
| `MCPortReads` | its instance: an array of three bytes, the two bytes of the terminator |
| `PortReadsProofs` | types and every safety property of the reads, for any array, timeouts, thresholds and number of rounds |
| `Preopened` | the static setters and queries, the list they keep, `open` and `close`, and the driver's probes |
| `MCPreopened` | its instance; `DeviceLockProofs` has its proofs |
| `SerialParams` | the line parameters, flow control, timeouts and modem outputs of an open port, on three builds |
| `MCSerialParams` | its instance: five requests that reach every special case of the translations |
| `SerialParamsProofs` | types, the modem outputs, what `tcgetattr` of `termios.c` reads back, and the agreement of RXTXPort and device |
| `LineWatch` | abstract: what the serial events promise of a modem line |
| `LineEvents` | the passes of the event loop over the modem lines and error counters; implements `LineWatch` |
| `MCLineEvents` | its instance |
| `LineEventsProofs` | types, the refinement, and no event without an error |
| `WinPorts` | the port list of `termios.c` and the calls that find a port in it |
| `MCWinPorts` | its instance |
| `WinPortsProofs` | types and every property of the run |
| `ParallelPort` | a parallel port with its event loops, reads and writes |
| `MCParallelPort` | its instance |
| `ParallelPortProofs` | types and every safety property of the run |

Which module stands on which.  `Preopened` takes from `LockFile` what its run and
theorem promise: a lock has one holder.  `SerialPort`, `OutputEvents`, `PortReads` and
`LineEvents` are four views of one port's event loop and I/O: who starts and stops it,
what it does for the output, for reads, and for lines and counters.  `SerialParams` and
`WinPorts` share `termios.c`: the first has its conversions, the second its list and
waits.  The modules are not composed into one: what one passes to another is a
descriptor or a flag, and the state of each alone is what TLC can take.

### LockFile

A lock file is an inode with a content; `file` is the inode the path leads to.  An
unlink by path and a write through a descriptor therefore go to different files when
another thread has replaced the file in between, as on a real file system.  `LOCK` is
`BeginLock, CheckGroup, StatLock, OpenLock, ReadLock, KillTest, UnlinkStale, RestatLock,
CreateLock, WriteLock`: one action for each of the test of the lock directory, `stat`,
`open`, `read` (with `sscanf`), `kill`, `unlink`, the second `stat` of `uucp_lock`,
`open(O_EXCL)` and `write`.  `UNLOCK` is `BeginUnlock, UnlockStat, UnlockOpen, UnlockRead,
UnlinkOwn`.  `style` is the build's: `uucp_lock` looks at the device and the lock file
again before it creates one, and `uucp_unlock` before it opens it.  `FailAfterLock` is the way out of `open` (and of the static setters) that
forgets `UNLOCK`.  `read` of a file whose pid has not been written, or of a descriptor
whose `open` failed, leaves the stack buffer as it was: `PidRead` is then any pid.  The
history variable `raced` says that an unlink has removed a file, or a content, other
than the one its thread examined.  `Crash` and `Restart` are the operating system:
processes die between any two steps and pids are used again.

The lock files that other programs keep in other directories are any (`elsewhere`), and
so is the answer to whether the lock directory may be written and the device is there.

Left out: a `kill` that fails with anything but `ESRCH` (a live process, to this code),
and the form of the pid in the file (ten characters and a newline in both styles).

### SerialPort

`port` is the record of the Java fields; `index` is `master_index`; `eis[m]` the native
structure of monitor thread `m`, of which `closing`, `fd` and the `DATA_AVAILABLE` entry
of `eventflags` are kept; `loop[m]` is where that thread is in `run`, `eventLoop` and
`sendEvent`; `pc[a]` and `op[a]` where an application thread, or a listener running on a
monitor thread, is in which method.  Each method is split at its accesses to shared
state:

| Code | Actions |
|---|---|
| `addEventListener`, constructor | `AddCheck AddSet AddAlive StartMonitor StartWait` |
| `removeEventListener` | `RemoveWait RemoveCheck RemoveInterrupt InterruptEventLoop Join Joined RemoveReset` |
| `notifyOnDataAvailable` | `NotifyWait NotifyLock NativeSetEventFlag NotifyJava` |
| `close` | `CloseWait CloseFd CloseInterrupted` (`Remove`) `NativeClose CloseReset` |
| `write`, `read`, `available` | `IoCheck LoadIOLocked StoreIOLocked IoWait NativeAccess / ReadBegin ReadEnd` and the decrement |
| `MonitorThread.run`, `eventLoop`, `sendEvent` | `Run InitEis InitThreads UnlockMonitorThread ReportDataAvailable SendCheck SendFlag SendCall CallbackReturn LoopExit` |

`IOLocked++` and `IOLocked--` are a load and a store, because that is what they are on a
field that is not volatile; the input stream's methods are `synchronized` on the stream
(`StreamFree`), the output stream's are not.  Three variables are history: a store of
`IOLocked` has undone another thread's (`lost`); `interruptEventLoop`, which tells the first
structure of the list with the port's descriptor, has told an older one a second time and
not the port's (`hidden`); a read has put back the event flag over a `notifyOnX` that came
during it (`undone`).  `MaxCalls` bounds the calls of each thread.

Abstractions, each of them towards fewer steps where no other thread can tell: linking
the structure into `master_index` and filling it (`InitEis`), creating and starting a
monitor thread (`StartMonitor`) and the five assignments at the end of
`removeEventListener` (`RemoveReset`) are one step each; `select`, `FIONREAD` and the
test of the event flag are one step.  Memory is sequentially consistent.
`Thread.interrupt` of the calling thread is left out.  `DATA_AVAILABLE` stands for the
ten events, whose flags and methods are copies of one another.  A read takes one byte.
The build is the one with `TIOCSERGETLSR` (Linux), without a drain thread; the other
builds differ in what `OutputEvents` models.

`join(3000)` needs care, since there is no clock.  `Joined` lets it end when the thread
is dead; and before that when it cannot die within the three seconds: because it has
not been told to, because its listener is itself waiting in a call, or because
listeners are slow (`SlowListener`).  A loop that has been told to end and is not in a
listener ends within one turn of 1 ms to 40 ms.

### OutputEvents

Where the kernel has no `TIOCSERGETLSR`, each event loop has a drain thread, which turns
the end of a `tcdrain` into a flag for the loop.  The module follows one port from the
moment its loop and drain thread run until both have ended.  `eis` is the structure they
share, with the fields this event uses; it is a local variable of `eventLoop`, so after
the loop has returned (`Gone`) a read through a pointer to it gives any value (`Reads`)
and a store changes nothing the model knows (`Store`).

| Code | Actions |
|---|---|
| `drain_loop` | `DrainTop DrainWake DrainAwake DrainTcdrain DrainTest DrainSetFlag DrainClearWriting DrainEnd DrainCancelled`, composed by `DrainLoop` |
| `eventLoop`, `check_line_status_register`, `send_event` | `LoopSelect LoopExit CheckLineStatus SendEvent CallbackReturn ClearFlag`, composed by `EventLoop` |
| `removeEventListener`, `interruptEventLoop` | `RemoveEventListener InterruptEventLoop KillDrain CancelDrain SetClosing`, composed by `Remove` |
| `write`, `writeByte`, `writeArray` | `Call Enter Write SetWriting` |
| `flush`, `nativeDrain` | `Call Enter FlushTcdrain FlushTest FlushClearWriting FlushClearFlag FlushSend` |
| `notifyOnOutputEmpty`, `nativeSetEventFlag` | `NotifyOnOutputEmpty` |
| the device | `Transmit Unplug` |

The order of the steps is that of the code where it matters: the drain thread sets the
flag before it clears `writing`, `nativeDrain` the other way round, and the loop clears
the flag only after the listener has returned.  `interruptEventLoop` goes on after its
50 ms wherever the drain thread is, and its `pthread_cancel` is deferred: the thread ends at
the next point that tests for it (`usleep`, `tcdrain`: `DrainCancelled`), and stores into
the structure until then, which may be gone.  Four variables are history.  `owing` is how
often `writing` was set less how many events the loop has sent; `awaited` says that a write
made with the notification on has had no event yet; `overlap` that a store was overtaken in
one of the two windows of the code (a write between the drain thread's test of `writing`
and its reset; the flag set while the loop is about to clear it); `stray` counts the drain
thread's stores after `eventLoop` has returned.  `fault` is a null pointer used: the process
is gone and nothing follows.

Abstractions.  `SIGABRT` may or may not make `tcdrain` return, as the comment in
`interruptEventLoop` says.  The flag `Output` of the Java object and the one in
`eventflags` are one field here (`SerialPort` has them apart).  The event that a flush
delivers itself, on the thread that flushes, makes no calls.  `notifyOnOutputEmpty` is one
step.  A write is one byte, with one `write(2)`.

### PortReads

The stream's methods are synchronized, so there is one read at a time: `call` is its
arguments and what it has decided before the native call (`Minimum`, and how many bytes
`nativeavailable` told it of), `at` where it is, `limit`, `total`, `bytes`, `count` and
`elapsed` the locals of the native functions, `body` which of the device's bytes lies
where in the array.  Bytes are numbered in the order of their arrival; `stream` has their
values, which only the terminator asks for.

| Code | Actions |
|---|---|
| `read(b, off, len)`, `read(b, off, len, t)`, `read(b)`, `read()` | `Read`, `AvailableMinimum` or `ThresholdMinimum`, `InterruptedCheck` |
| `readByte`, `readArray`, `readTerminatedArray` | `Native`, `ReturnBytes`, `NextByte` |
| `read_byte_array` | `Loop`, `Select`, `SelectFails`, `ReadBytes`, `ReadGone` |
| `enable/disableReceiveTimeout`, `enable/disableReceiveThreshold`, `NativeEnableReceiveTimeoutThreshold` | `EnableReceiveTimeout`, `EnableReceiveThreshold` (with `SetVTIME`, `VTimeOf`) |
| `getReceiveTimeout`, `isReceiveTimeoutEnabled` | `NativegetReceiveTimeout`, `NativeisReceiveTimeoutEnabled` |
| the device and the clock | `Arrive`, `Unplug`, `Tick` |

Abstractions.  A `read(2)` takes any number of the bytes that are there, up to the number
asked for.  Time passes from one moment that a timeout names to the next (`Tick`), which
is all that a comparison with the timeout can tell.  `Rounds` is the 20 of
`read_byte_array`.  `monThreadisInterrupted` is read once, so it is any value
(`InterruptedCheck`); `IOLocked` and the event flag are in `SerialPort`.  Each read gets a
new array, with places 0 to `BufferLength` - 1; a store beyond them would add to the domain
of `body`.  The result of `read(b)` and `read(b, off, len)` is the number of bytes, that of
`read()` the byte or -1 for none; an exception is a place of its own (`thrown`).  One thread
configures the port: with two, the field and
VTIME may come from different ones.  The arguments that are refused before anything
happens (a null array, a negative length) are left out.

### Preopened

A program may prepare a port before it opens it: the static methods lock the device,
open it or take it out of the list, set a modem line or the parameters, unlock it, and
add the descriptor to the list `preopened_port`; `open` looks there first.  The list is C
memory: `heap` and `alloc` are the nodes, a freed node keeps its links and may keep its
name (`find_preopened_ports`), and `malloc` may hand it out again.  `head` is
`preopened_port`, which the walk of `static_add_filename` leaves on the last but one node
and a removal may leave on a freed one (`stray`).

| Code | Actions |
|---|---|
| `nativeStaticSetRTS/DTR/DSR/SerialPortParams` | the same names, up to `UNLOCK`, with their returns that forget it; then `AddEntry` (`static_add_filename`) |
| `nativeStaticIsRTS/DSR/DTR/CD/CTS/RI`, `nativeStaticGetBaudRate/...` | `nativeStaticIs`, `nativeStaticIsRI`, `nativeStaticGet` |
| `open`, `nativeClose` | `open`, `nativeClose` |
| `testRead` | `testRead`, `testRead_END`, `CloseProbe` |
| `isPortPrefixValid` | `isPortPrefixValid`, `CloseProbe` |

`kept` is history: what the last setters chose for a file and whether that is still
promised.  It stops being so when the port is opened or asked about, and when
`preopened_port` has moved past the entry (the walk goes only forward, so that entries
before it are never found again).

Abstractions.  One list operation is one step, and so is the part of a setter under the
lock; the steps of threads interleave between them.  One modem output stands for RTS and
DTR, three settings for all parameters (`sane`, what `configure_port` leaves, `set`, what
a setter chose, `raw`, what `testRead` works with).  A lock has one holder, which
`LockFile` shows with its condition; locks left behind stay.

### SerialParams

| Code | Actions and operators |
|---|---|
| `nativeSetSerialPortParams`, `set_port_params` | `SetSerialPortParams`, then `Finish`; `translate_speed`, `translate_data_bits`, `translate_stop_bits`, `translate_parity` |
| `setflowcontrol`, `nativeSetEndOfInputChar` | the same names, then `Finish` |
| `enableReceiveTimeout`, `NativeEnableReceiveTimeoutThreshold` | the same names, then `Finish` |
| rate 0 in `set_port_params` | `HangUpGet` (`TIOCMGET`), `HangUpSet` (`TIOCMSET`), before the `Finish` of the call |
| `setDTR`, `setRTS` | the same names, then `Finish` (`TIOCMSET`) |
| `nativeSetBaudBase`, `nativeSetDivisor` | the same names |
| `tcsetattr` of the kernel and of `termios.c`, `tcgetattr`, `cfsetospeed`, `TIOCMGET/TIOCMSET` | `UnixSet`, `WinSet`, `tcgetattr`, `WinSpeed`, `TIOCMGET`, `TIOCMSET` |
| the getters | `nativeGetFlowControlMode`, `set_java_vars`, `get_java_baudrate`, `nativeGetParity` |

`call` is a native call between its `tcgetattr` and its `tcsetattr`; two of them on two
threads overlap, except two `setSerialPortParams`, which RXTXPort synchronizes.  `dev` is
what the device has, `java` what RXTXPort believes, `ttyset` the copy of `termios.c`.
`lost`, `mixed`, `torn`, `apart` are history: a write back undid another thread's change; the
modem outputs that a `TIOCMSET`, of `setDTR`, `setRTS` or a hang-up, has put back to what they
were before another call; a `tcsetattr` failed half way; and the field for the timeout was
not followed by its own native call.

The bits of `c_cflag` that the translations do not touch, `c_iflag`'s and `c_oflag`'s, and
VMIN (always 0) are left out; a receive timeout is on or off, an end-of-input character
one of two.

### LineWatch and LineEvents

`LineWatch` is the promise: a line is told at the opposite level each time, at one it
has had since it was last told, and in the end at the level it keeps.  `LineEvents` is
the code: a pass reads the register, the counters and the lines into locals (`sis`,
`mflags`), sends an event for each difference to the last pass (`osis`, `omflags`), and
keeps the locals as the new copies; lines change, errors happen and other threads make
ioctls between any two events.

| Code | Actions |
|---|---|
| `eventLoop` | `eventLoop`, `interruptEventLoop` |
| `check_line_status_register` | the same name |
| `check_cgi_count` | `check_cgi_count`, `SendCount`, `CountsDone` |
| `check_tiocmget_changes` | `check_tiocmget_changes`, `SendLine`, `LinesDone` |
| `port_has_changed_fionread` | the same name |
| `ClearErrors` of `termios.c` | `ClearErrors`, in every ioctl; `Query` for those of other threads |

`Watch` maps `watched` to "the passes reach the lines" and the other variables to
themselves: `told` and `since` are history of `LineEvents`.  A send is one step; which
flags a listener has set only decides whether Java passes the event on.

### WinPorts

The build for Windows runs `SerialImp.c` over `termios.c`, whose descriptors are numbers
of a linked list that nothing locks.

| Code | Actions and operators |
|---|---|
| `serial_open`, `add_port`, `open_port` | `serial_open`, `Numbered`, `Walk`, `add_port`, `NextIsNull`, `CreateFile`, `OpenDone`, `OpenFails`; `get_free_fd`, `find_port` |
| `serial_close` | the same name; `Unlink`, `Frees` |
| `serial_test` | `serial_test`, `TestDone` |
| `termios_setflags` | the same name, then `ChangeMask`, `SetCommMask` |
| `serial_write`, `tcdrain`, `tcflush` | the same names, then `ChangeMask`, `SetCommMask`, `RestoreFlag`, `StoreTx` or `ReturnsEarly` |
| `TIOCSERGETLSR` of `ioctl` | the same name (the queue), then `TxHappened` (the flag), and the five above |
| `serial_read` | `BeginRead`, `ReadWaits`, `serial_read` |
| `tcsendbreak` | `sendBreak`, `tcsendbreak` |

An open looks for the name, reads the head of the list, takes a number, walks to the end,
links the entry behind what it has found there and clears its `next`, each in a step of its
own, with other opens and closes in between: two opens may take one number, an entry may
fall off the list, a walk may end in freed memory (`crashed`).  The event mask is two things:
the entry's `event_flag` (`flag`) and what `SetCommMask` has given the driver (`drv`).  A call
that waits for the end of an output copies the first, adds `EV_TXEMPTY`, tells the driver,
and at its end restores the first only.  A close may come while calls on the port are under
way (`RXTXPort.close` counts some, and `SerialPort` shows how it miscounts): their entry is
freed, and what such a call does is nothing the model knows (`Dangling`), until a later open
gets the memory and the call goes on in its entry.  A file has one entry at a time
(`port_opened`), which stands for it; `held` is what the callers have.

The other variables are history, each a way in which one call takes something from another:
`gap` (an entry before the last was removed, after which `get_free_fd` may give out a number
in use), `skipped` (a close did nothing, because the first entry had no handle yet), `mingled`
(the list changed while an entry was being added), `crossed` (a mask was asked for while a
call had its copy), `lapped` (a copy was taken while another call had the field changed),
`raced` (a write under a look at the register), `doubled` (two breaks at once), `stuck` (a
break whose `ClearCommBreak` has failed), `reused` (an entry in memory that a call from a freed
one can reach).

Abstractions.  A search of the list is one step.  Closing a handle ends its break.  The wait
of an overlapped operation is the time between two steps; `WriteFile`, the waits,
`SetCommBreak` and `ClearCommBreak` may fail at any time.  A store through a freed entry that
no later open has reused is lost.

### ParallelPort

| Code | Actions |
|---|---|
| `addEventListener`, `removeEventListener`, `notifyOnError`/`notifyOnBuffer` | `addEventListener removeEventListener notifyOnError` |
| `close`, `nativeClose`, `finalize` | `close finalize CloseDone` |
| `eventLoop`, `checkMonitorThread`, `sendEvent` | `Check Checked Select SendEvent Callback` |
| `readByte`, `readArray`, `read_byte_array` | `Begin Native SelectRead read_byte_array` |
| `writeByte`, `writeArray`, `nativeavailable` | `Begin Native WriteStep nativeavailable` |
| `enableReceiveThreshold`, `enableReceiveTimeout` | the same names |

`lock` is the port's monitor, reentrant for the listener; the reads and writes take none.
`loopFd` and the `fd` of a call are the descriptors they have copied, which are stale after
a close.  `again` says that the device's descriptor was closed after it had been closed.

Abstractions.  The new descriptor of another file under the number of a closed one is left
out (a closed descriptor fails), and so is what descriptor 0 leads to (anything may
happen).  `finalize` runs when nothing refers to the port.  One flag stands for the status
flags of the printer.

## 3. Runs

| Run | Threads and calls | Shows |
|---|---|---|
| `LockFile` | both styles, 2 processes (parent and child), 3 threads, 3 lock files, crashes and restarts | the lock is exclusive unless an unlink took away something else than its thread had examined (`ExclusiveUnlessRaced`), a lock judged stale has no owner (`StaleMeansUnowned`), an owner loses it to its own family only (`KeepsItsLock`) |
| `LockFileExclusion` (violated) | the same, 2 threads, no crash | `MutualExclusion`, which `INSTALL` promises, does not hold |
| `PortIo` | `c`: add, notifyOn, read, close, 3 calls; `d`: write, close, 2 calls; a slow listener: available, close, 1 call; 2 monitor threads | `IOLocked` counts the calls (`CountsIo`) and close waits for them (`CloseWaitsForIo`) until one of its stores has undone another, the descriptor is closed once (`NeverClosesTwice`) |
| `PortManager` | `c`: add, remove, notifyOn, close, 5 calls; a slow listener: writeArray, 1 call; 3 monitor threads, fair | up to a removal that finds the older structure: no loop goes on that nothing will stop (`NoOrphanLoop`), none that was told to end calls its listener (`QuietAfterRemove`); `removeEventListener` returns (`RemoveReturns`) |
| `PortListener` | `c`: add, notifyOn, notifyOff, 3 calls; `d`: read, 1 call; the listener: read, close, 2 calls; 2 monitor threads, fair | waiting data reaches the listener but where a read undoes its notification (`DataDelivered`), `close` returns, also the listener's own (`CloseReturns`), `MonitorThreadLock` is given back (`MonitorLockReleased`) |
| `Output` | a writer and the listener, 3 writes and flushes together, the notification switched at any time, a device that stalls or is unplugged, the loop stopped at any time, fair | a drain thread that is late stores in what was the structure at most three times and ends (`LastRound`), no write makes the loop send two events (`EventsPerWrite`), none is forgotten but in the named windows (`WriteReported`), and a blocked `tcdrain` holds nobody up (`StopReturns`) |
| `Reads` | the three reads with any offset and length on an array of 3 bytes, up to 3 bytes of 2 values, timeout 250 ms or none, threshold 3 or none, both changed at any time, a device that may go, 2 rounds, fair | order and place of the bytes, none outside the part asked for (`BytesInOrder`), when a read ends (`ReadTable`, `ReadReturns`), and what the port says of its timeout (`TimeoutTold`) |
| `Preopened` | 2 threads, 3 devices, 3 descriptors, 3 nodes, 5 calls | the list is sound until its first entry is removed from under `preopened_port` (`ListSound`), what the setters chose lasts (`PresetHolds`) and reaches `open` (`OpenTakesOver`), a probe never has an open port in raw mode (`ProbeAlone`) |
| `SerialParams` | 2 threads, 3 builds, 5 requests, 3 flow control modes, 4 calls | RXTXPort and device agree (`ParamsAgree`), `termios.c` reads back what it wrote (`ReadsBack`), the modem outputs stay (`OutputsHeld`), each but for the overlaps and failures it names |
| `LineEvents` | 2 lines, frame errors and overruns, counters that wrap at 3 and start at 2, 2 errors, any driver, both builds, fair | the passes implement `LineWatch` (`TellsInTurn`, `LinesSettle`), no event without an error (`NoPhantomErrors`), no error without an event (`ErrorsTold`) |
| `WinPorts` | 2 threads, 3 names, reads of 1 and 2 characters, masks with and without the end of the output, any failure, 4 calls | a descriptor leads to its own port (`OwnPort`), the driver tells of the events asked for (`MaskKept`), no end of output is forgotten (`TxRemembered`), a read finds what it waited for (`ReadWhole`), no break is left (`BreakHeld`), each but for the overlaps it names |
| `ParallelPort` | both builds, 2 threads, a listener that removes, closes and adds, 2 event loops, reads and writes of 1 and 2 bytes, a device that may fail, 4 calls, fair | a read loses nothing (`KeepsBytes`), the device's descriptor is closed once (`ClosesOnce`), no event outlives `removeEventListener` (`QuietAfterRemove`), a loop without a listener ends (`LoopEnds`) |

**Bounds.**  In the runs of `SerialPort` each thread makes 1 to 5 calls.  In `PortManager` the
five of one thread are add, notify and remove, then add again with the first listener still
in `serialEvent`, and a notification, a second removal or a close; the three monitor threads
are the constructor's, its successor and the successor of that.  In `PortIo` two readers and
a writer overlap and three threads close.  In `PortListener` a notification is set, cleared and
set again while two reads put the flag aside.  Two monitor threads are the one of the
constructor and one successor.  One byte of input makes data available and gone.  For the output, three calls are a write, a second one that meets
its report, and a flush; a buffer of one byte is full after one write and empty after one
transmission.  For the reads, three bytes in three places are the least that has two chunks
in one read, a byte before or behind a terminator of two, and an offset with two places
behind it; two rounds are the least that ends a read of three bytes half way; the number of
reads has no bound, the bytes end them.  Three inodes are a stale lock, its replacement,
and the replacement of that.

Three devices are the least for a list with an entry before, at and behind the one that is
taken; five calls prepare three of them and have two left that meet.  Four parameter calls
are two that overlap, one before them that makes the device differ from its defaults, and
one after.  The requests have a rate of each table, rate 0, a rate taken for a code (7), one
without a constant (14400), every stop bit setting, a parity of each kind that is
translated differently, and a refused number of data bits.  Two lines are one that is sent
while the other changes; counters that start at 2 and wrap at 3 wrap at the first error, and
two errors are two events in one pass.  Three Windows ports are the least that leaves a gap
with entries on both sides; four calls open two of them and make two calls that overlap,
or open one, close it under a call and open it again in the memory freed.  Two event loops of a parallel port are the old and the new; four calls add, remove and
add a listener and close.

`Mon` is symmetric in `PortIo`, devices, threads and nodes in `Preopened`, devices and threads
in `WinPorts`, threads in `SerialParams`: nothing but their being different is used of them.
No run with a liveness property has symmetry.  The view of `LockFile` drops locals of
threads that are outside the functions using them and contents of inodes nothing refers to.

**Deadlock** is not checked where calls are counted: when all of them have been made and have
returned, nothing happens any more, and that is right.  It is checked for the lock file,
where some process can always go on, and for the event loop of `LineEvents`.

**Fairness** (`FairSpec`): every thread goes on with the method it is in, every monitor
thread with its loop; nobody has to call anything.  The waits in this code are sleeps of
5 ms to 500 ms in a loop around a test, so a condition that comes and goes may be missed
for ever: weak fairness is all the code justifies.  Input need not arrive.  A listener
returns from `serialEvent` when the calls it makes return.  In `OutputEvents` the device
need not send either: where a property depends on it, or on the listener not blocking in
a write of its own, it says so (`Sent`, `Blocked`).  In `PortReads` a read goes on and time
passes, nothing has to arrive: a read without a timeout may wait for ever.  In `LineEvents`
the loop goes on (its `select` has a time limit), in `ParallelPort` the loops and a `close`
that has begun; the listener of a parallel port returns.

**Which threads may call what.**  Not every run is all-against-all, because the code does
not allow it, and the limits are worth knowing.

* Readers and writers overlap in `PortIo`, and in any combination in the theorems: `CountsIo`
  and `CloseWaitsForIo` hold up to the first store of `IOLocked` that undoes another (`lost`).
  After it `close` goes on too early or waits for ever.  A call that is past its test of
  `monThreadisInterrupted` and before `IOLocked++` is invisible to `close`: the model has that
  step too, and `CloseWaitsForIo` is about the calls that have counted themselves.
* One thread adds, removes and closes in `PortManager`, beside listeners that write and are
  slower than `join(3000)`.  A loop that outlives its `join` stays first in `master_index`, so
  that the next `interruptEventLoop` tells it again in its successor's place (`hidden`); up to
  that step no loop goes on unknown, and none that has been told calls its listener again.
  With two threads that add, `NoOrphanLoop` is false: both find `MonitorThreadAlive` unset.
* Only one thread removes listeners or closes where `RemoveReturns` and `CloseReturns` are
  checked: a second one in `interruptEventLoop` searches for a structure that is gone, and
  never returns.
* `MonitorLockReleased`, `CloseReturns` and `RemoveReturns` make an exception where the listener
  went away (`LockLost`): `monThread` is null then, the assignment to `monThread.Data` throws
  and `MonitorThreadLock` stays set, for whatever waits for it.
* `DataDelivered` makes an exception for a structure in which a read has put back the flag it
  found, over a `notifyOnX` that has turned the event on meanwhile (`undone`), up to the next
  `notifyOnX`.

The other modules let every thread call everything, and their properties name the histories
in which they do not hold (`stray` of `Preopened`, `lost`, `mixed`, `torn`, `apart`, `gap`,
`skipped`, `mingled`, `crossed`, `lapped`, `raced`, `doubled`, `stuck`, `reused`): each is a way in which the code loses something, and the property
says that there is no other.

## 4. The violated run, and what else the properties except

`LockFileExclusion`: `fhs_lock` creates the file with `O_EXCL` and writes its pid in a
second step.  `is_device_locked`, in between, reads nothing, tests the pid its buffer
happened to hold, finds no such process and unlinks the new lock by its path.  Both threads
hold "the" lock.  The passing run and the theorem say that this unlink of a file other than
the one examined is the only hole.

Where the code falls short of what one would ask of it, the property of a passing run states
the exact condition:

* `WriteReported`: the drain thread sets the flag and then clears `writing`.  If the loop
  reports the flag and another write sets `writing` between these two steps, the second
  write's mark is wiped out and its event never sent (`overlap`).
* `CountsIo`, `CloseWaitsForIo`, `NoOrphanLoop`, `QuietAfterRemove`, `DataDelivered`: see above.
* `LastRound`: the comment at SerialImp.c:4815 says that closing shuts the threads down in the
  right order, but nothing waits for the drain thread: it may go on in the structure of a
  loop that has returned, for one round.
* `ReadTable` has two exceptions that the table in the comments does not have: a read returns
  with fewer bytes, and without a timeout, when a listener has been removed, and when
  `read_byte_array` has been through its 20 rounds.
* `ListSound`, `PresetHolds`: taking the first of several entries out of the list frees the
  node `preopened_port` points to; from then on a walk goes through freed memory.  A setter
  that fails leaves the device locked.
* `ParamsAgree`: two threads that change different parameters undo each other (`lost`); a
  failing `SetCommTimeouts` leaves the driver with parameters that were refused (`torn`);
  rates without a constant, 1.5 stop bits and mark or space parity without `CMSPAR` are not
  what the device has; `nativeGetParity`, which nothing calls, is wrong for space parity at
  every other rate.
* `OutputsHeld`: `setDTR`, `setRTS` and the hang-up read both outputs and write both, so that
  each may undo the other's (`mixed` has the outputs that were).
* `LinesSettle`, `ErrorsTold`: a port without line status register has no line and error events
  while a listener for `OUTPUT_BUFFER_EMPTY` is set; Windows tells several errors as one and
  overruns never.
* `OwnPort`: after the first of two ports is closed and opened again, the next open gets a
  number in use (`gap`); a close while the first entry has no handle does nothing (`skipped`);
  two opens, or an open and a close, that overlap may share a number, lose an entry or walk
  through freed memory (`mingled`).
* `MaskKept`: `RestoreFlag` puts back the field and not the driver's mask, so the driver goes on
  telling of `EV_TXEMPTY`, or no longer does, and the property leaves that bit out; the other
  events are lost when a mask is asked for during another call (`crossed`), and the field keeps
  the bit of a call that was copied (`lapped`).
* `TxRemembered`, `ReadWhole`, `BreakHeld`: a look at the register forgets a write made during
  it, two reads share the queue, the first of two breaks to end ends both, and a
  `ClearCommBreak` that fails leaves the line in the break (`stuck`) until another break or
  the close of the handle.
* All of these except where a port is opened again in memory that a call from before still
  uses (`reused`).
* `LoopEnds`: a listener removed and added within a second leaves the old event loop running,
  which asks for the port's thread and finds the new one.
* `ClosesOnce` is about the device's descriptor.  A second `close` of a parallel port passes 0
  to `close(2)`, because 0 is what the first has left in the field; the model has that close,
  and what it does to whoever uses descriptor 0 is not in it.

## 5. Proofs

`DeviceLockProofs` proves, of `LockFile`, `TypeOK`, `ExclusiveUnlessRaced`, `StaleMeansUnowned` and
`KeepsItsLock` for both styles and any set of threads and processes.  None is inductive.
The invariant `IInv` adds: threads that run belong to living processes; inodes in use are
numbered up to `inodes`; an owner's inode is its own, and holds its pid once written; a
thread about to unlink a stale lock read a pid that is not its inode's owner's; and, as long
as nothing raced, whatever is owned is the file at the path.  The last two carry exclusion:
a new lock can be created only where there is no file, hence no owner, and a file
disappears without a race only through its examiner.

Of `Preopened` it proves `PreTypeOK`, `ProbeAlone`, `ListSound`, `PresetHolds` and
`OpenTakesOver`, for any threads, devices, descriptors and nodes.  What makes it possible is
`ShortInv`: the walk of `static_add_filename` leaves `preopened_port` on the last but one
node, from where the links lead on and never back, so that of a list of any length at most
two entries can be reached (`Entries`), and every walk is that of a list of one or two nodes
(`FromOne`, `FromTwo`).  `LocksInv` is about the lock files alone: raw mode is a probe's,
which has the lock, and an open port keeps its lock.  `ProbeAlone` follows from it.  The rest
holds while nothing has strayed: each descriptor in use is open on the file it is used for
and has one user, which is an entry, a call in progress or a port (`EntryFds`, `CallFds`,
`PortFds`; the kernel gives out a free number, and a removal takes its entry's away); and
what a setter chose is in force, or kept by the probe that will put it back, and has its
entry (`KeptInv`).  The three depend on each other: a second descriptor of an entry's file
would be closed by its owner, and the close lets the modem outputs drop.  Once
`preopened_port` has strayed nothing is promised any more (`kept` holds nothing), and that it
strays only when the node it points to is freed is the shape of `Strays`.

`SerialPortProofs` proves, for any threads and methods, `TypeOK`; `NeverClosesTwice` from
`CloseInv` (one thread is past the synchronized block of `close` unless the port is closed,
`closeLock` is set while one is, and the descriptor is 0 once it has been closed and reset);
and `CloseWaitsForIo` and `CountsIo` from `IoInv`: while no store has undone another (`lost`),
the calls in progress (`Busy`) are finitely many and `IOLocked` is their number.  Readers and
writers may be any and overlap.

`NoOrphanLoop` is proved twice, because it holds for two different reasons.  Where neither
is given it is false: TLC finds a monitor thread unknown to the port as soon as, beside a
thread that adds and removes, another one closes, notifies or adds, or the listener closes;
and when two threads add and one closes.

* `NoLoopOrphaned` assumes `OneManager`: one thread adds, removes, notifies and closes; all
  others, listeners too, do I/O as they like, and a listener may outlast its `join`, so that
  any number of monitor threads overlap.  `ManagerInv` says who may be in a managing method
  (the one thread that can, or the constructor before any other thread has the port).
  `LoopInv` follows that thread up to the first `hidden` removal: `LoopAt` tells for each
  place of it what every monitor thread may be (`ThreadAt`: one that is not the port's has
  been told and is in its listener or about to look; a starting one is being waited for) and
  what the port's own may be (`OwnAt`: once told, it is given up before the fields are
  reset, and given up before the device is closed).  `QuietAfterRemove` follows from the same
  invariant (`RemovedIsQuiet`): a loop about to call its listener is the port's and has not
  been told.
* `NoLoopOrphanedByClose` assumes `OneListener`: nobody calls `removeEventListener` and one
  thread adds, but any number of threads and listeners close and notify at once, and a
  listener may outlast its `join`.  Here monitor threads do overlap.  `ListenerInv` has
  three phases.  `Opening`: the constructor and the thread it has started are alone.
  `Running`: the first monitor thread is the port's and the only one in the list, and only
  the one thread past the lock of `close` (by `CloseInv`) may have interrupted it.
  `Stopped`: that thread has reset the fields or the descriptor is 0, so nobody interrupts
  any more; every monitor thread has been told to end, except one that was added afterwards,
  which is the port's.  `MethodInv` ties the places of threads to the methods they called.

`OutputEventsProofs` proves `TypeOK`, `LastRound` (`DrainStops`) and `EventsPerWrite`.  `CloseInv`
says that `closing` is set, and the loop gone, only when the drain thread has ended or its
cancellation is pending; `StrayInv` adds, once the loop has returned, that the stores made
and those the thread can still make (`StoresLeft`, by its place) are at most three: a round
has no cancellation point between `tcdrain` and the next `usleep`, and there the thread
ends.  `EventsPerWrite` follows from `EventInv`.  It is not inductive by itself: what `owing`
bounds is the marks that can still become an event of the loop, which are three stages of
the same store: `writing` (`InWriting`, with the drain thread's step from it to the flag),
the flag (`InFlag`, but not while the loop has yet to clear the one it is reporting) and an
event about to be sent (`InSend`).

`PortReadsProofs` proves every safety property of the run `Reads`.  `CallInv` says that a
read stays in its part of the array: what is complete, and what is still wanted, is
never more than `len`.  `TypeOK` rests on it, for it says that no store goes beyond the
array.  `OrderInv` is `BytesInOrder` with the state between reads; the step of `read(2)` needs
it to know that a chunk goes right behind what is there.  `ReturnsRead` (`Counted`) says what
comes back: the number of bytes taken, or from `read()` the value of the byte.  `TableInv`
carries the reason for leaving the loop of `read_byte_array` to the return, `WaitInv` that
the bytes seen by `nativeavailable` are still there (nobody else takes any), and `TermInv`
that the bytes of the finished one-byte calls hold no terminator: the test after each of them
is what keeps it.  `TimeoutTold` follows from the types and two lemmas about `VTimeOf`.

`SerialParamsProofs` proves `TypeOK`, for which the translations and the or of `tcgetattr`
have to stay within a termios; `OutputsHeld`, with `LineInv` (what a call is about to write
differs from what it has read in the one output it is for); and `ReadsBack` from `CopyInv` (size and rate of the copy of `termios.c` are those of the DCB as long as
nothing was torn: an or of equal values is that value, by cases over the codes).
`ParamsAgree` rests on both and on `AgreeInv`, which adds the calls between `tcgetattr` and
`tcsetattr` (`Follows`: a copy differs from the device it was read from by the call's own change
only, and that change is what the fields will say) and, for the timeout whose field is stored
first, that one call alone is to bring the device to it (`TimeoutAgrees`).  The parity
goes through the driver's enumeration unchanged because the copy agrees with a parity
(`DCBAgrees`), and the rate because `translate_speed` inverts `get_java_baudrate` (`RateKept`).

`LineEventsProofs` proves that `LineEvents` implements `LineWatch`.  `LineInv` says at each
place of the loop what was last told: `omflags`, or during the events `mflags` for the lines
already sent, while a line still to be sent had the level to be told since it was last told.
A pass maps to stutters and `Tell` steps, a change to `Change`.  `NoPhantoms` is proved for
any width `W` from `CountInv`: for each counter there are numbers `d` and `e` of events still
owed by later passes and by this one, the copies are that far apart modulo `W` (`After`), and
the events sent and owed are no more than the errors.  The equality test of the code is right
because a difference of copies leaves at least one owed (`AfterSend`).

`WinPortsProofs` proves every property of its run.  `TInv` adds to the types that an entry's
number is not 0, that files are in the list once and none twice on the way into it, and which
files a call names.  `ReadWhole` is inductive with it.  `BreakInv` says that a break that works
is on an open handle, and that, where no two overlap and no entry was reused, each file has at
most one.  `TxOf` says that nothing is written under a look at the register unless `raced` has
the file.  `MaskOf` says that whoever changes the mask asked for is alone at the entry, and that
otherwise the field, the driver's mask and every copy agree with it in all but `TXEMPTY`, and
the copies in that too while none was taken of another's change.  `OwnPort` is the deepest:
as long as there was no gap and nothing mingled, the entries are numbered by their places
(`Numbers`, so that `get_free_fd` gives the length plus one), every descriptor held or being
opened leads to its entry, and an open, at each of its steps, knows the end of the list as it
is (`Knows`); what `serial_close` and a failing open remove is then the last entry, or the gap
is recorded.

`ParallelPortProofs` proves every safety property of its run: `QuietAfterRemove` from
`CallbackInv` (a loop in the listener has the monitor), `ClosesOnce` from `CloseInv` (between
`close(2)` and the 0 in the field the thread that closes has the port's monitor), and
`KeepsBytes` from `ReadInv` (a read that counts bytes looks before each round, and what it
saw is there unless another read took it).

Theorems whose property no run repeats (the `TypeOK`s, `ReturnsRead`,
`NoNeedlessWait`, `StopsAtTerminator`) were model-checked before they were proved.

The assumptions are those on the constants, named in the modules that declare them
(`ThreadAssumption`, `PidAssumption`, `TimeoutsAssumption` and so on); TLC evaluates them in
every run.

Only model-checked: the liveness properties (`RemoveReturns`, `CloseReturns`,
`DataDelivered`, `MonitorLockReleased`, `StopReturns`, `WriteReported`, `ReadReturns`,
`LinesSettle`, `ErrorsTold`, `LoopEnds`), which need fairness and so ENABLED, out of the
prover's reach; and `MutualExclusion`, which is false.  Every other property of a run is a
theorem.  Those on the monitor threads are about some uses of the port only, which their
assumptions name (`OneManager`, `OneListener`).

## 6. What is left

The modules are not composed: that `LockFile` gives `Preopened` the lock it takes for granted is
an argument in words, as is that the loops of `SerialPort` and of `LineEvents` are the same.
The safety of each module is proved.

### Not modelled

* In modelled parts: the steps of one list operation of `Preopened` (another thread in the
  middle of a walk); the number of a closed descriptor given to
  another file in `ParallelPort`; which bytes of a short `write(2)` are lost; the settings of a
  uart (`nativeSetUartType`, low latency, call-out hang-up, parity error character) and
  `nativeClearCommInput`, single ioctls whose result nothing else looks at; printer status
  queries (one ioctl each), `setMode` and buffer sizes (they refuse or store); receive framing;
  messages, exceptions and version functions.
* In `termios.c`: `serial_select` and the older `serial_read`, which are compiled out or not
  called here; `tcflow`, `fcntl`, `get_fd`, `get_filename`, which nothing calls; the printing of
  tables; `TIOCSSERIAL` and `FIONREAD`.
* `RXTXCommDriver`: the search for candidate names, the properties and the tables of
  prefixes are string handling at start-up on one thread, and the registration is `javax.comm`'s.
* `lfs_lock` talks to a lock server over a socket, liblockdev is a library: neither keeps state
  here.
* `Configure`, `Zystem`, `RXTXVersion` and the exception class keep no state the ports depend on.
* `WinCE`: its native code needs a field `MonitorThreadCloseLock` and an `int eis`, which this
  `RXTXPort.java` does not have.  BeOS (`SerialImp.cpp`) is an older port of functions modelled
  from `SerialImp.c`.  `psmisc` is another project's program.  Build files, installers and
  examples hold no code of the library.
