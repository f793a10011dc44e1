# Verification of the ArrowHandsOn firmware

The repository holds the firmware of a board around a SAMD21 (one Cortex-M0+
core, FreeRTOS 8.0.1): two buttons, a SigFox modem, a GPS receiver, sensors behind
one I2C bus, an NFC tag, a crypto chip, and a USB console. Its own code is in
`src/src/sme/` and `src/src/main.c`; `src/src/ASF/` is vendored. There are no
tests in it, so what follows is checked nowhere else.

Paths below are relative to `src/src/sme/` unless they start with `src/`.

## 1. Inventory

### Tasks, interrupts and how they interact

| who | priority | what it does |
|---|---|---|
| button, expander interrupts | interrupt | guard a press, post an event to `controllerQueue` |
| UART interrupts | interrupt | move the bytes of a job that a task has started |
| console (`CDC`, `CDC_RX`) | 3 | read the line, run commands in place: SigFox, GPS, I2C, step-up |
| `Control` (`control_task`) | 2 | serve events: compose and send reports, start GPS scans; time out |
| timer daemon | 2 | callbacks of the SigFox and the GPS timer |
| `GPS`, `GPS_RX` | 2 | poll the GPS line, parse sentences, update the position cache |
| SigFox receive task | 1 | run the bytes of the modem's answers through an FSM |

Tasks of one priority are time-sliced, so they interleave anywhere; a task of
higher priority comes in anywhere in one of lower priority and runs until it
blocks. Printing busy-waits; it does not block. Before the scheduler runs, `main`
is the only thread, and the interrupts it has enabled are the only company it has.

### Components

| component | state it keeps | operations | must be true of it | module |
|---|---|---|---|---|
| Board controller (`tasks/sme_controller.c`, `behaviour/`) | event queue, `keepTimeout` | serve an event, idle time-out, KEEP | presses are served once each, with all their reports; a KEEP in time | Controller, ReportCycle, KeepAlive |
| Interrupt handlers (`interrupt/`) | `intDetect`, `nurembergSent` | three callbacks, `clearInt` | both guards agree with the events in flight | Controller, Boot |
| SigFox sending (`Devices/uart/sigFox/sme_sigfox_execute.c`, `_usart.c`, `model/sme_model_sigfox.c`, `uart/sme_sigfox_parse.c`) | the message model with its mutex, status, sequence number, message buffer | take, fill, execute, send, release | one user of the model at a time; it always comes back; the status is that of the frame | SfxLink |
| SigFox receiving (`sme_sigfox_rx_fsm.c`, `tasks/sme_sigfox_rx_task.c`) | FSM state, the answer so far, one-byte hand-off buffer | handle a byte, give a verdict | exactly the well-formed answers with an expected number are accepted | SfxReceive |
| SigFox time-out (`sme_sfx_timer.c`) | a one-shot timer | start, stop, expire | an answer that never comes leaves no trace | in Controller, GpsScan |
| GPS scan (`Devices/uart/gps/sme_sl868v2_rx_fsm.c`, `sme_gps_timer.c`) | one-shot timer, step-up, `scan_in_progress`, `cold_boot` | start, expire, restart, stop | timer, receiver and step-up agree; a scan ends | GpsScan |
| GPS sentences and cache (`sme_sl868v2_rx_fsm.c`, `model/sme_model_sl868v2.c`) | line buffer, position, quality, satellites | assemble, check, parse, report | a position is one that was sent | NmeaReceive, GpsScan |
| GPS console commands (`sme_sl868v2_execute.c`, `uart/sme_sl868v2_parse.c`) | the GPS message model, the shared buffer | compose, send | they leave a frame on the wire alone | in GpsScan, SfxLink |
| Console (`uart/sme_cdc_*.c`, `sme_i2c_parse.c`) | queue, tokens and their pointers | edit the line, dispatch | the parsers get the words typed, and old words only behind them | Console |
| I2C bus (`Devices/I2CFreeRtos.c`, `I2C/smeI2C.c`, `model/sme_model_i2c.c`) | bus mutex, one `master_packet` | transfers with retries | a read is one atomic read; the bus is given back | I2cBus, Registers |
| Sensor drivers (`Devices/I2C/`, `behaviour/sme_decode_i2c_sfx.c`) | a buffer all sensors share | set up, read, convert | a field of a report is of its own sensor | I2cBus |
| I/O expander (`Devices/I2C/IOExpander/`) | two ports | set up, reset the devices, configure ports, reset the devices, pulse force-on | the devices are driven out of reset, port by port, unless its transfers fail | Boot |
| NFC tag (`Devices/I2C/nfc/`) | page buffer, the tag's pages | append a record, page by page | the tag holds the message its header announces | NdefTag |
| Boot (`src/src/main.c`) | | initialise in order, start the scheduler | nothing is used before it exists | Boot |
| Crypto chip (`Devices/I2C/crypto/`) | configuration zone | wake up, read, resynchronise | | not modelled |
| LEDs and printing | | | | not modelled |
| FreeRTOS, ASF (`src/src/ASF/`) | | | | as far as the code relies on them |

What makes them hard: interrupts against tasks on `intDetect`, and against `main`
on a queue that does not exist yet; the console preempting control_task between any
two statements; a mutex anybody can give; senders resetting the receive FSM under
the receive task; the timer daemon ending a scan while control_task starts one;
UARTs that drop a job while busy, and callers that ignore it; answers and bytes that
are lost; transfers that fail in the middle of a message. `PROJECT.json` lists
them, with their lines, under `hazards`.

## 2. The modules

```
ReportCycle  <--implements--  Controller  <--implements, composes--  Boot
Registers    <--implements--  I2cBus
SfxLink   SfxReceive   KeepAlive   GpsScan   NmeaReceive   NdefTag   Console
X_proofs     the theorems about X
Boot_proofs  those about Boot and Controller
Gps_proofs   those about GpsScan and NmeaReceive
```

**Controller.** `control_task`, the button and expander interrupts, and what the
SigFox exchange means to them. `controllerQueue` is the FreeRTOS queue with its
bound; `intDetect` is the set of its bits; `pc` and `current` say where control_task
is. `clearInt` is two actions, `ClearLoad` and `ClearStore`: the compiler reads,
masks and writes, and a button interrupt may come in between. Button 2 makes
control_task post `gpsData` to its own queue (`QueueGpsReport`). The modem's answer
(`Answer`) is given by a task of lower priority, therefore only while control_task
is blocked; `LoseAnswer` is the one that never comes.

**ReportCycle** is what the buttons promise: one press at a time; a press locks both
buttons and owes its reports; only when nothing is owed may they be unlocked.
Controller implements it (`ReportsInCycle`): `owed` is the set of events in flight, queued or
being served. With the expander interrupt enabled, which fills the queue, a
report may be lost, and `Lossy` says so; with it disabled, as shipped, none may.

**Boot** extends Controller by the way there: `main` from the expander's set-up to the
scheduler, every I2C transfer with its failure, the expander's pins, PRIMASK,
presses that wait in the EIC while interrupts are off. From `bootPc = "run"` on each step is one
of Controller, on the same variables: the composition is the whole program from
reset. A press in the window of `main.c:81` posts to a queue that is still NULL and
stops the board in `configASSERT` (`FreeRTOSConfig.h:111`); the window is as short as it is
because every FreeRTOS call before the scheduler leaves interrupts disabled (the
port's `uxCriticalNesting` starts at `0xaaaaaaaa`).

**SfxLink.** The console and control_task go through take, fill, execute, send, each
a step, with every early return of `executeCDCSigFox`,
`sendSigFoxConfiguration` and `sendSigFoxDataMessage`. `holder` is the mutex; giving it does
not look at who holds it, as in `queue.c` of this FreeRTOS version. `Runnable`
is the priority rule: control_task runs only while the console is blocked or
waiting for the mutex. `message` is the buffer, and `GpsCommand` writes to it
too: it is defined without `static` in two files, so that the linker makes one of the
two. `tx` is the UART job: what it sends, whether out of `message`, how much is
left, and whether somebody has written over it. A caller that gets NULL and
uses it sets `halted`, after which nothing is said. `overlong` and `dropped` are
history.

**SfxReceive.** One action per state of `handleData`, and the two ends of
`handleConf`. The choice of the parser (`SelectParser`) and the store of the next
state (`Store`) are steps of their own, for a sender may come in before each. The bytes
are arbitrary ones, which covers losses, repetitions and the zeroing of the
hand-off buffer; correct check sums are among them whatever the instance. `sfxMessageIdx`
starts with 0, which is no frame's number (`getNewSequenceNumber` skips it): until a
data frame and a keep frame have been sent, an answer numbered 0 passes the comparison, and
`AcceptsAnswers` names this case (`AnswersNothing`). The length byte is not checked against the payload: an
answer that is too long goes on over crc, and then over what lies behind it
(`HandlePayloadOutside`, `HandleCrcOutside`, `StoreOutside`). That is where the linker puts it; the model lets it
change the other statics of the file, `recFsm` and `crcCounter`, in any way, and assumes that it
hits no variable of another file. `overrun` marks such an answer, of which nothing is claimed; it is FALSE again
with the next header, from which on everything is claimed again. `seen` and `expected`
are history: the bytes since the header, and the sequence numbers compared with.

**KeepAlive.** The five-minute wait, events that restart it, the count of the waits
that end without one, and configuration mode, which is not counted. Time is in
minutes; `age`, `interval` and `disturbed` are history.

**GpsScan.** control_task in `gpsStartScan`, the timer daemon in `gpsTimerCallback`
and `gpsStopScan`, GPS_RX in `sl868v2ProcessRx`, statement by statement where they
touch shared state, with the UART that drops what comes while it is busy and the
timer queue of two places. The receiver is external: a warm restart wakes it,
standby silences it, awake it goes on talking. `Minute` lets the timer become due
only when everything transmitted has arrived and the receiver, if it is awake,
has been heard: without it the model would be full of behaviours in which a
command of 15 bytes takes a minute. `disturbed` records that, since the last scan was
started, a command was dropped, the boot standby was sent, the console meddled, or
the stop of a scan overlapped the start of another.

**NmeaReceive.** `sl868v2HandleRx` byte by byte, `crcCheck`, `sl868v2ParseRx` and
the dispatch of a line, fed by a UART that loses a byte or hands one over twice. A
character is the set of its bits, so that the check sum is an exclusive or here
too; a talker is one character, so that lines and buffer stay short. Of what the
receiver sends it is assumed that the characters are printable, that a line fits the
buffer, and that a position has its talker and sentence id, a vendor message its talker and message id
(`SentencesAssumption`).
`position` is the sentence it was parsed from; `from`, `accepted` and `room` are history: the line
each byte in the buffer belongs to, the last line processed, and whether the `$` of this line got in:
it was not lost, and did not find the buffer full.

**Registers and I2cBus.** Registers is what the layer promises: reading a register is one
atomic step between call and return, at which the register asked for had the value
handed over, or the read fails. I2cBus is the code: take the mutex with its
time-out, set up the one `master_packet`, write the register's number, read a byte, each
with its retry loop. Its two users are the report (pressure and
humidity, in the drivers' order, with their data-ready bits and the one `buffer` all
sensors read into) and the console's `i2c` command. A byte remembers where it came from.

**NdefTag.** `storeInfoUnitOnNFC` and what it calls, one action per transfer, for the
three records `main` writes: find the end of the message, rewrite length and flags
of the first record, append the new one page by page. Any transfer may
fail. `header.payloadLength`, which `addRecord` adds to without setting it
(`ndef.c:105`), starts with any value of `Garbage`. `usedBytes` and `newRecordPtr` are
bytes and wrap round. When the end byte is the last of a page, `usedBytes` is 255 and `SplitOutside` follows the code
outside the page buffer: the header is lost behind it, the page is written back as it was read, the buffer is filled from
the stack (`Stack`), and the payload goes on two pages later. What those writes damage depends on the
linker and is not modelled: the writer's state is on the stack, and `nfcPageBuffer` is all of its static memory that
the model keeps. `tag` is the user memory, by page; `Message(k)` is what a tag
with the first `k` records should hold, address by address. The strings are short, as
those of `main.c` are: the bytes the code counts stay below 256.

**Console.** The queue of `cdc_task_rx`, the polls of `cdc_task` and what each character does
to the tokens, with pointers that are only set anew at the start of a poll. `words` is the line as
a user expects it; `plain` says that it has kept to what the editor can do (`Beyond`). `command` is what the
parsers can read when a line is run: all the tokens, since they ignore their count; `before` keeps the tokens as the
line before has left them, its one cleared token included (`sme_cdc_uart.c:210`).

Controller abstracts SfxLink to "a frame is out", SfxLink leaves answers
out, and GpsScan takes a press as given: these are not composed.

## 3. What the runs show

| run | what it checks |
|---|---|
| `controller` (Boot) | from reset on: the scheduler starts the controller in its initial state (`HandOver`); the pins of each port are driven high at the end unless its configuration, its read or its write-back failed (`DevicesReleased`); a press stops the board in the window only (`StopsInWindow`); buttons stay locked under a report (`ReportsLockButtons`), a press is never doubled (`NoGhostPress`) or forgotten (`PressServed`); the report cycle is implemented (`ReportsInCycle`); a lost answer locks the buttons only for a while (`ButtonsUnlock`) |
| `controller_ioext` | the expander interrupt on, and a queue it can fill: one press at a time and no doubled press survive; reports may be lost |
| `sfx_link` | all commands: exclusion in spite of the double release (`ModelExclusive`), the status is that of the frame (`StatusOfFrame`), only the over-long write leaks the model (`ModelReleased`), data frames find the modem in data mode unless a change of mode was dropped (`DataFrameInDataMode`), every request is worked off (`RequestsComplete`) |
| `sfx_link_leak` (violation) | the over-long register write returns true without sending, and keeps the mutex (`sme_sigfox_execute.c:77`); only an `sf` line that is no command would give it back |
| `sfx_link_frame` (violation) | the model is released while the UART still reads the buffer (`sme_sigfox_usart.c:100`) |
| `sfx_receive` | "ok" is given to exactly the well-formed answers to a data or keep frame, and to those numbered 0 while one of the two has not been sent (`AcceptsAnswers`); what is refused could not have become one (`RefusesOthers`); both for answers that stay in the payload, whatever those before them did |
| `keep_alive` | KEEPs are never closer than the interval, and on a quiet board never further apart |
| `gps_scan` | only a disturbance can leave timer, receiver, step-up and flag at odds, and the next press mends it (`ScanConsistent`); a position that stays ends the scan (`FixEndsScan`) |
| `nmea` | a line with one byte lost or doubled gives its own position or none (`OwnPositionOnly`), and the search for `*` stays in it (`NoOverread`); a whole line is processed whatever came before it (`WholeLineProcessed`) |
| `i2c_bus` | every read implements an atomic one (`ReadsAreAtomic`); a field of a report holds only its own bytes, unless a read failed or was not ready (`ReportHonest`); the bus comes back (`BusReleased`) |
| `ndef_tag` | without failures the tag is the message (`TagIsMessage`), unless a record is added behind an end byte that is the last of a page; a record leaves those before it alone unless a read fails (`AnnouncedKept`) |
| `console` | the tokens are the words of the line (`TokensAreWords`), and the parsers are given them and, behind them, what the line before has left (`CommandAsTyped`), however polls divide it |

### Seen while modelling, without a run

No line of the repository promises otherwise, so these are exceptions in the
properties above, or nothing but notes.

- SigFox: an ATX dropped by the busy UART leaves the status at data and the modem in
  configuration mode. An ERROR answer counts as a confirmation (`sme_sigfox_rx_fsm.c:170` compares a
  byte with the address of a string). The configuration parser appends where an
  aborted data answer left the pointer and has no bound (`:163`), and the length of a data answer is not
checked either (`:124`): both write past the payload. An answer numbered 0 is accepted before the first frame. The reset by a sender is
  overwritten by the store of the task it preempted (`:120`); the next answer is then lost.
- KEEP: 23 hours is a lower bound, with no upper one, as events restart the wait
  uncounted (`sme_controller.c:131`).
- GPS: quality and satellites are not cleared when a scan starts, so it may end on the position
  of an earlier one. Commands are sent with the check sum in `%x`, lines
  received are compared with `%0X`. Two lost or doubled bytes of equal value escape the exclusive or.
  So may the end of a line: a line whose `$` is lost is appended to the one before, the buffer is
  emptied where it gets full, and what follows is checked from its second character on. When the characters
  left out have the exclusive or 0 and the next one is a talker, a position comes up that was never sent. TLC
  finds it for the sentences `Gaaaaaa` and `Ga&Ga` and this buffer of 16; hence `room` in the two properties.
- I2C: the write loops report a success on the last try as a failure
  (`smeI2C.c:278`). A console read of a high byte clears the data-ready bit a report waits
  for, and the block-update bit is never set (`LPS25H.c:34`, `HTS221.c:89`), so the two bytes of a value may be of two samples.
- NFC: when the end byte is the last byte of a page (an announced length of 13 modulo 16), `ndef.c:221` computes
  `usedBytes` as 255. Adding a record then writes its header to `nfcPageBuffer[255]` and up to 246 bytes into the 16 of the
  buffer (`ndef.c:117-124`): the header never reaches the tag, and memory behind the buffer is overwritten.
  The strings of `main.c` announce 26 and 44 and do not meet the case. An announced length is wrong when the stack holds anything but zero at `ndef.c:105`.
- Console: characters typed ahead in the poll of an end of line go behind the finished
  command, and their end of line runs it again; a character behind a backspace in the same
  poll is written to the old place; the tokens are never cleared and `sme_cdc_cmd_parse`
  ignores how many there are, so a command with fewer arguments takes those of an earlier line: `cmd s` after `cmd s on`
  switches the step-up on (`sme_cdc_cmd_parse.c:245`). `CommandAsTyped` says which these are, not that there are none. A full queue loses characters that are echoed all the same.

### Bounds, and why they are enough

- `controller`: a queue of 2, one more than waits at once without the expander; 4 idle
  waits; one failing transfer of the eleven of the boot. The proofs hold for all values.
  `controller_ioext`: a queue of 3 that the expander fills, and 3 waits; Controller
  alone, for from reset on this instance is too large.
- `sfx_link*`: two tasks, as in the code. All nine console commands in `sfx_link`; sequence numbers
  wrap at every step there, as nothing but their type depends on them, and `TypeCorrect` is for every width. Frames of
  one byte where liveness is checked, of two where one must be interrupted in the middle.
- `sfx_receive`: the bytes header, tailer, end-of-message, 0 and 2 (a length, a type
  and a sequence number; the tailer is also a type with the confirm bit), plus correct
  check sums; payloads up to two bytes: a first, a last, and answers that run over crc and beyond.
- `keep_alive`: four waits of five minutes, one hour: two KEEPs and more.
- `gps_scan`: the timer queue of the code. Everything else is finite.
- `nmea`: a buffer of 16 for lines of nine characters: a line and half the
  next; two positions, a sentence of another talker and a vendor message; four lines; one fault per line, as two escape the check.
- `i2c_bus`: one retry, and the console on the one register whose read changes what the
  report sees. Two tasks, as in the code.
- `ndef_tag`: pages of 16 as on the tag; eight pages; first strings of 0 to 16 bytes, so that ends fall on every
  place of a page, the strings of `main.c`, a payload of 40 over several pages; one fault.
- `console`: three tokens of four places and seven characters: words that fill a token, lines that fill all,
  two lines in a row; a queue of three, so that it can be full.

### Fairness

- Boot: `main` is sequential code, and an enabled interrupt is taken (weak).
- Controller: control_task never stops and its receive times out, so its steps
  and its time-outs are weakly fair. `Answer` is strongly fair: a modem that is
  asked again and again answers at last. Presses are not fair.
- SfxLink, I2cBus: the console runs whenever it can (weak); control_task is
  preempted again and again but let in again and again, as the console sleeps between
  polls (strong); the UART interrupt comes (weak).
- GpsScan: weak fairness of every task's own steps, which time slicing gives, of the
  UART and of a receiver that is awake; strong fairness of `Minute`, for a timer that
  is running becomes due in the end, whatever its surroundings do in between. Presses, console and
  SigFox timer are not fair. `FixEndsScan` speaks of the time after those have ceased.

`CHECK_DEADLOCK FALSE` only where the model may stop: `configASSERT` (Boot), the NULL
model (SfxLink), the end of the boot's three records (NdefTag), and the
bounds on time, lines and characters (KeepAlive, NmeaReceive, Console).

## 4. What is proved

All theorems hold for every value of the constants that the ASSUMEs of the modules
allow; TLC evaluates those on each run. The arguments, component by component:

**Controller** (in Boot_proofs): `TypeCorrect`, `ReportsLock`, `NoGhost`, `NoLost`,
`QueueBound`, `CycleImplemented`. The invariants are not inductive alone. `IInv` adds
that there is one report in all, queued or being served; that what waits behind a
served event is only the report it caused; that between load and store of
`clearInt` the loaded copy is still right, because a served press keeps both
buttons locked; and that with the interrupt off there is no expander event. The
refinement of ReportCycle maps each action to a press, a service, an unlocking or a stutter.

**Boot** (in Boot_proofs): `BootImplements` (`BootSpec => Spec`), hence every theorem of the
controller from reset on (`TypedFromReset`, `LockedFromReset`, `NoGhostFromReset`,
`CycleFromReset`). Its invariant says that while `main` runs the controller is in its initial
state, but for presses taken once the queue exists. `StopsOnlyInWindow`;
`Released`, port by port: a pin is driven high once configuration, read and write-back of its port have gone through; `HandedOver` assumes the expander's line off, as shipped.

**SfxLink_proofs**: `TypeCorrect`, `Exclusive`, `StatusKept`, `Returned`, `DataInDataMode`. `Exclusion`
joins `ModelExclusive` and `StatusOfFrame` with `PriorityGuards`: while the console
is inside a command, control_task is not between execute and send. This is the
argument why the second release of a refused command is harmless: between the two
releases only the console runs. `HolderReturns` says that whoever holds the mutex is on the way to
giving it back, unless an over-long write was accepted. `ModeFollows` says that while the status is data
the modem is in data mode, or the command that brings it there is on the line or about to be sent, unless
a change of mode was dropped; a data frame is sent outside that stretch.

**SfxReceive_proofs**: `TypeCorrect`, `Accepts`, `Refuses`. `Tracks` relates the history to
the state of the FSM: the bytes seen are the fields read so far, and each check that was passed is one
of `MayBecomeAnswer`. `Tracking` demands it, but for an answer that has run past its payload, wherever the data parser may read next, which is
why a sender's reset and a switch of the parser break nothing: both leave the FSM at the header, or
overwritten by a state the history still agrees with. The types hold without exception (`HandleTypes`), and the header
that clears `overrun` needs nothing of what was before (`HandleHeaderInv`). The check sum is a sum over the payload;
that it is a number (`SumIsNat`) is proved by the least counterexample.

**KeepAlive_proofs**: `TypeCorrect`, `NotEarly`, `OnQuietBoard`, from `Counted`: the waits
counted, in minutes, never exceed the age of the last KEEP, and equal it on a quiet board.

**I2cBus_proofs**: `TypeCorrect`, `BusExclusive`, `HonestReport`, `AtomicReads`. `MutexHeld` says who
may be between set-up and return; with it, packet and pointer are those of the holder, which makes the second
transfer of a read the atomic step of Registers.

**GpsScan** (in Gps_proofs): `TypeCorrect`, `Consistent`. The invariant says, for every place the three
tasks may be in and whatever commands are still queued or transmitted, what timer, receiver, step-up and flag
will be once they have arrived (`WillRun`, `WillStop`, `WillListen`): undisturbed, either all of a scan or nothing.

**NmeaReceive** (in Gps_proofs): `NmeaTypeCorrect`, `WholeLines`, `DamageNoticed`, `OwnPosition`,
`NeverOverread`, `PositionsSent`, `DollarsGetIn`. `WholeSoFar` says
that, as long as a line has suffered no fault and its `$` found room, the buffer holds what was sent of it;
at the line feed it is the line, whose check sum, length and sentence are computed by lemmas about `Line`
(`LineChecks`, `SentenceSaid`), on whatever a former line has left in `dataLength`. `DamageNoticed` is about `crcCheck` alone:
one character less changes the exclusive or (`SumWithout`, over the prefixes of the sentence, by the least
counterexample), and two sums are printed with the same digits only if they are equal (`SumsDiffer`).
`OneFault` carries that from the wire to the position: as long as the `$` of a line got in and at most one byte of it
was lost or doubled, the buffer holds what was sent, without one byte (`Missing`) or with one
twice (`Twice`). When such a line passes its check it still says its sentence up to the `*` (`CheckedSays`: a fault in the
sentence is refused, without `*` nothing is checked, a fault behind it is not read), and the parser takes over that
sentence or nothing (`SaidParsed`). `PositionsSent` draws the conclusion over all lines: every position is one that was
sent, provided that every `$` gets in and no line suffers two faults (`LinesBegun`). `DollarsGetIn` derives the
first of these from the wire: lines two characters shorter than the buffer allows, as NMEA 0183's 82 are in a buffer of 100, never
fill it for the next `$`, so only a `$` lost on the line is missing (`ShortLinesSent` puts the two together).
The hypotheses are needed; section 3 has the counterexample.

**NdefTag_proofs**: `TypeCorrect`, `AnnouncedStays`, `TagHoldsMessage`. Types need `Progress`: how far page,
place in the page and count of payload bytes can be after each step, so that the counts stay in their bytes and a place
that wraps round is 255 first and then still far behind the page (`WrappedPlace`). `Behind` says, while no read
has failed, that the end byte was found, that the buffer holds the page it is written back to, and that what is
written lies behind all that was announced when the record was begun. `Growing` says, record
by record and step by step, which addresses of the message are on the tag already and which are still in the
page buffer (`Whole`, `Upto`, `Held`), for every place of a page but the last that an end byte falls on; it assumes what the
property does (`Clean`): no transfer failed, the stack held a zero, no record was added behind an end byte that is the
last of a page. `AnnouncedStays` needs no such premise: what wraps round also lies behind what was announced.

**Console_proofs**: `TypeCorrect`, `LineKept`, `CommandRun`. `Pointers` says where the pointers are
after each kind of character within a poll; with it, the tokens spell the words. `Untyped` says that the tokens behind
the line are as the line before left them, which `CommandRun` needs.

Model-checked only: liveness (`PressServed`, `ButtonsUnlock`, `RequestsComplete`, `FixEndsScan`,
`BusReleased`), which is outside the prover. Every safety property of a passing run is a theorem.

## 5. Assumptions, and what is not modelled

- A task that holds the SigFox mutex and runs gives it back within the second
  after which a take times out, so `TakeTimeout` of SfxLink happens only when nobody is going to give it.
- Stores of a byte are atomic; the compiler does not reorder volatile accesses,
  system calls and what lies around them.
- Payloads, LEDs and printed text are left out; so are the digits of coordinates and raw sensor values, and
  with them the race between a report and GPS_RX over the digits (`model/sme_model_sl868v2.c:300`).
- The vendor library of the crypto chip is called once at boot and its result used by nobody.
- `US_UNIT` is not defined: the boot path it would compile in is left out, and so are
  functions nothing calls (`sme_parse_rmc`, `sme_gps_button1_behaviour`,
  `sme_gps_button2_behaviour`).
- FreeRTOS and the ASF drivers are modelled as far as the code relies on them. They, the CMSIS
  headers and the register definitions of the chip are more than nine tenths of the lines in
  the repository; the firmware's own C files have some 8,800.

## 6. What could be added

- A composition of Controller, SfxLink and SfxReceive over one exchange: `awaiting` of Controller as an abstraction
  of a frame in `tx` and an answer in the FSM.
- The digits of a position, rewritten while a report reads them.
- Two faults in an NMEA line, and a lost `$`: which real sentences make a false position out of them.
