-------------------------------- MODULE GpsScan -------------------------------
(***************************************************************************)
(* A GPS scan: button 2 wakes the receiver and starts a one-minute timer;  *)
(* when the timer expires, the scan ends if there is a position, and goes  *)
(* on for another minute if there is none.                                 *)
(*   src/src/sme/Devices/uart/gps/sme_sl868v2_rx_fsm.c                     *)
(*   src/src/sme/Devices/uart/gps/sme_gps_timer.c                          *)
(*                                                                         *)
(* control_task starts scans, the timer daemon of FreeRTOS ends them, and  *)
(* the GPS_RX task handles what the receiver says. They have one priority: *)
(* time slicing interleaves them at any point. They share the UART, which  *)
(* drops what is sent while it is busy, and the queue of timer commands.   *)
(***************************************************************************)
EXTENDS Naturals, Sequences

CONSTANT TimerQueueLength    \* configTIMER_QUEUE_LENGTH, 2

ASSUME TimerQueueAssumption == TimerQueueLength \in Nat \ {0}

Commands      == {"WARM_RST", "STDBY", "other"}   \* what the UART transmits
TimerCommands == {"start", "stop", "other"}       \* other: the SigFox timer's

VARIABLES
    control,           \* where control_task is in gpsStartScan
    daemon,            \* where the timer daemon is in gpsTimerCallback
    procRx,            \* where GPS_RX is in sl868v2ProcessRx
    timer,             \* gpsCommandTimeOut: "off", "running", or "due"
    timerQueue,        \* commands the daemon has not seen
    uart,              \* the command in transmission, or "idle"
    receiver,          \* the SL868V2 module
    stepUp,            \* output of voltageStepUp
    scan_in_progress,
    cold_boot,
    quality,           \* gpsRxData.quality is not 0
    satellites,        \* gpsRxData.n_satellites is more than 4
    disturbed          \* history: since the last scan began, see Disturb

cache == <<quality, satellites>>
vars == <<control, daemon, procRx, timer, timerQueue, uart, receiver, stepUp,
          scan_in_progress, cold_boot, cache, disturbed>>

StopSteps == {"standby", "stopTimer", "stepDown"}

Init ==
    /\ control = "idle"
    /\ daemon = "idle"
    /\ procRx = "idle"
    /\ timer = "off"
    /\ timerQueue = <<>>
    /\ uart = "idle"
    /\ receiver = "waking"
    /\ stepUp = FALSE
    /\ scan_in_progress = FALSE
    /\ cold_boot = TRUE
    /\ quality = FALSE
    /\ satellites = FALSE
    /\ disturbed = TRUE

-----------------------------------------------------------------------------
(* Shared operations. what says whether the caller has been disturbed.     *)

Disturb(what) == disturbed' = (disturbed \/ what)

\* sl868v2SendMessage: a busy UART drops the command and nobody is told.
sl868v2SendMessage(command, otherwise) ==
    /\ uart' = IF uart = "idle" THEN command ELSE uart
    /\ Disturb(uart # "idle" \/ otherwise)

TimerCommand_Unbounded(command) ==
    /\ timerQueue' = Append(timerQueue, command)
    /\ Disturb(FALSE)

\* xTimerGenericCommand, without waiting: a full queue drops the command.
TimerCommand(command) ==
    LET full == Len(timerQueue) = TimerQueueLength
    IN  /\ timerQueue' = IF full THEN timerQueue ELSE Append(timerQueue, command)
        /\ Disturb(full)

-----------------------------------------------------------------------------
(* control_task: gpsStartScan. That a scan is running is not asked.        *)

StartScan ==
    /\ control = "idle"
    /\ control' = "reset"
    /\ stepUp' = TRUE
    /\ disturbed' = (daemon \in StopSteps)
    /\ UNCHANGED <<daemon, procRx, timer, timerQueue, uart, receiver,
                   scan_in_progress, cold_boot, cache>>

StartReset ==
    /\ control = "reset"
    /\ control' = "startTimer"
    /\ sl868v2SendMessage("WARM_RST", FALSE)
    /\ UNCHANGED <<daemon, procRx, timer, timerQueue, receiver, stepUp,
                   scan_in_progress, cold_boot, cache>>

StartTimer ==
    /\ control = "startTimer"
    /\ control' = "flag"
    /\ TimerCommand("start")
    /\ UNCHANGED <<daemon, procRx, timer, uart, receiver, stepUp,
                   scan_in_progress, cold_boot, cache>>

StartFlag ==
    /\ control = "flag"
    /\ control' = "idle"
    /\ scan_in_progress' = TRUE
    /\ UNCHANGED <<daemon, procRx, timer, timerQueue, uart, receiver, stepUp,
                   cold_boot, cache, disturbed>>

-----------------------------------------------------------------------------
(* The timer daemon: its commands, gpsTimerCallback, gpsStopScan.          *)

Daemon(from, to) == daemon = from /\ daemon' = to

ProcessTimerCommand ==
    /\ Daemon("idle", "idle")
    /\ timerQueue # <<>>
    /\ timerQueue' = Tail(timerQueue)
    /\ timer' = CASE Head(timerQueue) = "start" -> "running"
                  [] Head(timerQueue) = "stop"  -> "off"
                  [] OTHER                      -> timer
    /\ UNCHANGED <<control, procRx, uart, receiver, stepUp, scan_in_progress,
                   cold_boot, cache, disturbed>>

\* A minute is long: what was transmitted when it began has arrived, a receiver
\* that is awake has been heard, and there was a moment with nothing to be done.
Minute ==
    /\ timer = "running"
    /\ timer' = "due"
    /\ control = "idle" /\ procRx = "idle" /\ uart = "idle"
    /\ timerQueue = <<>>
    /\ receiver # "waking"
    /\ UNCHANGED <<control, daemon, procRx, timerQueue, uart, receiver, stepUp,
                   scan_in_progress, cold_boot, cache, disturbed>>

Expire ==
    /\ Daemon("idle", "quality")
    /\ timer = "due"
    /\ timer' = "off"
    /\ UNCHANGED <<control, procRx, timerQueue, uart, receiver, stepUp,
                   scan_in_progress, cold_boot, cache, disturbed>>

\* sme_gps_position_fixed, first half.
CheckQuality ==
    /\ Daemon("quality", IF quality THEN "satellites" ELSE "restart")
    /\ UNCHANGED <<control, procRx, timer, timerQueue, uart, receiver, stepUp,
                   scan_in_progress, cold_boot, cache, disturbed>>

CheckSatellites_Inverted ==
    /\ Daemon("satellites", IF satellites THEN "restart" ELSE "standby")
    /\ Disturb(daemon' = "standby" /\ control # "idle")
    /\ UNCHANGED <<control, procRx, timer, timerQueue, uart, receiver, stepUp,
                   scan_in_progress, cold_boot, cache>>

\* sme_gps_position_fixed, second half; the scan is stopped if both hold.
CheckSatellites ==
    /\ Daemon("satellites", IF satellites THEN "standby" ELSE "restart")
    /\ Disturb(daemon' = "standby" /\ control # "idle")
    /\ UNCHANGED <<control, procRx, timer, timerQueue, uart, receiver, stepUp,
                   scan_in_progress, cold_boot, cache>>

\* Only the timer is started again: the receiver is not.
RestartTimer ==
    /\ Daemon("restart", "idle")
    /\ TimerCommand("start")
    /\ UNCHANGED <<control, procRx, timer, uart, receiver, stepUp,
                   scan_in_progress, cold_boot, cache>>

StopStandby ==
    /\ Daemon("standby", "stopTimer")
    /\ sl868v2SendMessage("STDBY", FALSE)
    /\ UNCHANGED <<control, procRx, timer, timerQueue, receiver, stepUp,
                   scan_in_progress, cold_boot, cache>>

StopTimer ==
    /\ Daemon("stopTimer", "stepDown")
    /\ TimerCommand("stop")
    /\ scan_in_progress' = FALSE
    /\ UNCHANGED <<control, procRx, timer, uart, receiver, stepUp, cold_boot,
                   cache>>

StopStepUp_KeepOn ==
    /\ Daemon("stepDown", "idle")
    /\ UNCHANGED <<control, procRx, timer, timerQueue, uart, receiver, stepUp,
                   scan_in_progress, cold_boot, cache, disturbed>>

StopStepUp ==
    /\ Daemon("stepDown", "idle")
    /\ stepUp' = FALSE
    /\ UNCHANGED <<control, procRx, timer, timerQueue, uart, receiver,
                   scan_in_progress, cold_boot, cache, disturbed>>

-----------------------------------------------------------------------------
(* GPS_RX: sl868v2ProcessRx and sl868v2_parse_ssa.                         *)

ProcRx(from, to) ==
    /\ procRx = from
    /\ procRx' = to
    /\ UNCHANGED <<control, daemon, timer, timerQueue, stepUp, scan_in_progress>>

\* A sentence with a right check sum has come in; it may be handled much later.
Sentence ==
    /\ receiver # "standby"
    /\ receiver' = "awake"
    /\ ProcRx("idle", IF cold_boot THEN "cold" ELSE "parse")
    /\ UNCHANGED <<uart, cold_boot, cache, disturbed>>

\* The first sentence of all puts the receiver in standby, scan or no scan.
ColdBoot ==
    /\ ProcRx("cold", "parse")
    /\ cold_boot' = FALSE
    /\ sl868v2SendMessage("STDBY", TRUE)
    /\ UNCHANGED <<receiver, cache>>

\* A sentence other than GGA, or a GGA one whose quality is empty or is stored.
ParseQuality ==
    /\ \/ ProcRx("parse", "idle") /\ UNCHANGED quality
       \/ ProcRx("parse", "clear") /\ quality' \in BOOLEAN
    /\ UNCHANGED <<uart, receiver, cold_boot, satellites, disturbed>>

\* n_satellites is 0 while its digits are added up.
ParseClear ==
    /\ ProcRx("clear", "count")
    /\ satellites' = FALSE
    /\ UNCHANGED <<uart, receiver, cold_boot, quality, disturbed>>

ParseSatellites ==
    /\ ProcRx("count", "idle")
    /\ satellites' \in BOOLEAN
    /\ UNCHANGED <<uart, receiver, cold_boot, quality, disturbed>>

-----------------------------------------------------------------------------
(* The rest of the board, and the receiver.                                *)

External == UNCHANGED <<control, daemon, procRx, timer, scan_in_progress,
                        cold_boot, cache>>

\* The last byte has left the UART; the receiver obeys.
Transmitted ==
    /\ uart # "idle"
    /\ uart' = "idle"
    /\ receiver' = CASE uart = "WARM_RST" -> "waking"
                     [] uart = "STDBY"    -> "standby"
                     [] OTHER             -> receiver
    /\ External
    /\ UNCHANGED <<timerQueue, stepUp, disturbed>>

\* A command typed at the console.
ConsoleGps ==
    /\ \E command \in Commands :
          sl868v2SendMessage(command, uart = "idle" /\ command # "other")
    /\ External
    /\ UNCHANGED <<timerQueue, receiver, stepUp>>

ConsoleStepUp ==
    /\ stepUp' \in BOOLEAN
    /\ Disturb(stepUp' # stepUp)
    /\ External
    /\ UNCHANGED <<timerQueue, uart, receiver>>

\* The SigFox timer is started or stopped.
SfxTimer ==
    /\ Len(timerQueue) < TimerQueueLength
    /\ timerQueue' = Append(timerQueue, "other")
    /\ External
    /\ UNCHANGED <<uart, receiver, stepUp, disturbed>>

gpsStartScan == StartScan \/ StartReset \/ StartTimer \/ StartFlag
gpsStopScan  == StopStandby \/ StopTimer \/ StopStepUp
gpsTimerCallback ==
    CheckQuality \/ CheckSatellites \/ RestartTimer \/ gpsStopScan
sl868v2ProcessRx == ColdBoot \/ ParseQuality \/ ParseClear \/ ParseSatellites

Next ==
    \/ gpsStartScan
    \/ Minute \/ ProcessTimerCommand \/ Expire \/ gpsTimerCallback
    \/ Sentence \/ sl868v2ProcessRx
    \/ Transmitted \/ ConsoleGps \/ ConsoleStepUp \/ SfxTimer

Spec == Init /\ [][Next]_vars

\* Every task gets its time slices, time passes, and the receiver that is awake
\* goes on talking. Nobody has to press a button.
Fairness ==
    /\ WF_vars(StartReset \/ StartTimer \/ StartFlag)
    /\ WF_vars(ProcessTimerCommand \/ gpsTimerCallback)
    /\ SF_vars(Minute)
    /\ WF_vars(Expire)
    /\ WF_vars(Sentence)
    /\ WF_vars(sl868v2ProcessRx)
    /\ WF_vars(Transmitted)

FairSpec == Spec /\ Fairness

-----------------------------------------------------------------------------
(* Properties.                                                             *)

\* Types of the scan's state; the timer queue is never over-filled.
TypeOK ==
    /\ control \in {"idle", "reset", "startTimer", "flag"}
    /\ daemon \in {"idle", "quality", "satellites", "restart"} \cup StopSteps
    /\ procRx \in {"idle", "cold", "parse", "clear", "count"}
    /\ timer \in {"off", "running", "due"}
    /\ timerQueue \in Seq(TimerCommands)
    /\ Len(timerQueue) <= TimerQueueLength
    /\ uart \in Commands \cup {"idle"}
    /\ receiver \in {"standby", "waking", "awake"}
    /\ stepUp \in BOOLEAN
    /\ scan_in_progress \in BOOLEAN
    /\ cold_boot \in BOOLEAN
    /\ quality \in BOOLEAN
    /\ satellites \in BOOLEAN
    /\ disturbed \in BOOLEAN

Quiet ==
    /\ control = "idle" /\ daemon = "idle" /\ uart = "idle"
    /\ timerQueue = <<>>

\* When nothing is under way, the timer runs, the receiver is awake, the step-up
\* is on and scan_in_progress is set all together or not at all, unless since the
\* last press a command was dropped, the first sentence after power-up came in,
\* the console meddled, or the stop of a scan overlapped the start of another.
\* One more press mends whatever such a disturbance has left behind.
ScanConsistent ==
    Quiet /\ ~disturbed =>
        /\ (receiver # "standby") = (timer # "off")
        /\ stepUp = (timer # "off")
        /\ scan_in_progress = (timer # "off")

\* Once the rest of the board leaves the scan alone, a position that stays ends
\* it, whatever has happened before.
LeftAlone ==
    /\ control = "idle" /\ uart = "idle"
    /\ \A i \in DOMAIN timerQueue : timerQueue[i] # "other"

FixEndsScan == <>[](quality /\ satellites /\ LeftAlone) => <>[](timer = "off")
===============================================================================
