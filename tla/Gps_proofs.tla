------------------------------ MODULE Gps_proofs ------------------------------
(***************************************************************************)
(* A scan leaves timer, receiver, step-up and flag in agreement, whatever  *)
(* the length of the timer queue. What is under way counts: a command in   *)
(* the timer queue or in the UART is as good as obeyed, and a timer that   *)
(* has expired belongs to the callback that decides on it.                 *)
(*                                                                         *)
(* The line buffer keeps its bounds whatever comes in, a line that comes   *)
(* in whole is taken over in full, and the check sum notices every single  *)
(* character of a sentence that gets lost or comes twice, so that a line   *)
(* with one fault gives its own position or none.                          *)
(***************************************************************************)
EXTENDS GpsScan, NmeaReceive, WellFoundedInduction, SequenceTheorems, TLAPS

USE TimerQueueAssumption

\* c is the last command in q that is not the SigFox timer's.
EndsWith(q, c) ==
    \E i \in DOMAIN q : q[i] = c /\ \A j \in DOMAIN q : j > i => q[j] = "other"

AllOther(q) == \A i \in DOMAIN q : q[i] = "other"

\* What the timer will be when the daemon has worked off its queue.
WillRun  == EndsWith(timerQueue, "start") \/ (AllOther(timerQueue) /\ timer # "off")
WillStop == EndsWith(timerQueue, "stop")  \/ (AllOther(timerQueue) /\ timer = "off")

\* What the receiver will be when the UART has transmitted its command.
WillListen ==
    \/ uart = "WARM_RST"
    \/ /\ uart \notin {"WARM_RST", "STDBY"}
       /\ receiver # "standby"

\* The callback has not decided yet, or has decided to go on.
Deciding == daemon \in {"quality", "satellites", "restart"}

On  == stepUp /\ WillListen /\ scan_in_progress /\ (WillRun \/ Deciding)
Off == ~stepUp /\ ~WillListen /\ ~scan_in_progress /\ WillStop /\ daemon = "idle"

\* Of the timer alone: it is off during its callback, and a stop finds it so.
TimerOrder ==
    /\ daemon # "idle" => timer = "off"
    /\ timer = "due" => \A i \in DOMAIN timerQueue : timerQueue[i] # "stop"

\* While a scan is started nobody stops one, and it is on bit by bit.
Starting ==
    control # "idle" =>
        /\ daemon \notin StopSteps
        /\ stepUp
        /\ control \in {"startTimer", "flag"} => WillListen
        /\ control = "flag" => WillRun \/ Deciding

\* Otherwise it is on or off, or it is being stopped bit by bit.
Standing ==
    control = "idle" =>
        /\ daemon \notin StopSteps => On \/ Off
        /\ daemon \in {"stopTimer", "stepDown"} => ~WillListen
        /\ daemon = "stepDown" => ~scan_in_progress /\ WillStop

IInv ==
    /\ TypeOK
    /\ TimerOrder
    /\ ~disturbed => Starting /\ Standing

-----------------------------------------------------------------------------
(* The timer queue.                                                        *)

LEMMA Appended ==
    ASSUME NEW q \in Seq(TimerCommands), NEW c \in TimerCommands
    PROVE  LET r == Append(q, c)
           IN  /\ r \in Seq(TimerCommands) /\ Len(r) = Len(q) + 1
               /\ c # "other" => EndsWith(r, c)
               /\ c = "other" => \A x : EndsWith(q, x) => EndsWith(r, x)
               /\ c = "other" /\ AllOther(q) => AllOther(r)
               /\ c # "stop" /\ (\A i \in DOMAIN q : q[i] # "stop")
                      => \A i \in DOMAIN r : r[i] # "stop"
<1> DEFINE r == Append(q, c)
<1>1. /\ r \in Seq(TimerCommands) /\ Len(r) = Len(q) + 1
      /\ Len(r) \in DOMAIN r /\ r[Len(r)] = c
      /\ \A i \in DOMAIN q : i \in DOMAIN r /\ r[i] = q[i] /\ i < Len(r)
      /\ \A i \in DOMAIN r : i = Len(r) \/ i \in DOMAIN q
      /\ \A i \in DOMAIN r : ~(i > Len(r))
  OBVIOUS
<1> HIDE DEF r
<1>2. c # "other" => EndsWith(r, c)
  BY <1>1 DEF EndsWith
<1>3. ASSUME c = "other", NEW x, EndsWith(q, x)
      PROVE  EndsWith(r, x)
  <2>1. PICK i \in DOMAIN q : q[i] = x /\ \A j \in DOMAIN q : j > i => q[j] = "other"
    BY <1>3 DEF EndsWith
  <2>2. i \in DOMAIN r /\ r[i] = x /\ \A j \in DOMAIN r : j > i => r[j] = "other"
    BY <2>1, <1>1, <1>3
  <2>3. QED
    BY <2>2 DEF EndsWith
<1>4. c = "other" /\ AllOther(q) => AllOther(r)
  BY <1>1 DEF AllOther
<1>5. c # "stop" /\ (\A i \in DOMAIN q : q[i] # "stop") => \A i \in DOMAIN r : r[i] # "stop"
  BY <1>1
<1>6. QED
  BY <1>1, <1>2, <1>3, <1>4, <1>5 DEF r

LEMMA Removed ==
    ASSUME NEW q \in Seq(TimerCommands), q # <<>>
    PROVE  /\ Head(q) \in TimerCommands
           /\ Tail(q) \in Seq(TimerCommands) /\ Len(Tail(q)) = Len(q) - 1
           /\ \A x : EndsWith(q, x) =>
                  EndsWith(Tail(q), x) \/ (Head(q) = x /\ AllOther(Tail(q)))
           /\ AllOther(q) => Head(q) = "other" /\ AllOther(Tail(q))
           /\ (\A i \in DOMAIN q : q[i] # "stop")
                  => Head(q) # "stop" /\ \A i \in DOMAIN Tail(q) : Tail(q)[i] # "stop"
<1> DEFINE r == Tail(q)
<1>1. /\ Head(q) \in TimerCommands /\ Head(q) = q[1] /\ 1 \in DOMAIN q
      /\ r \in Seq(TimerCommands) /\ Len(r) = Len(q) - 1
      /\ \A i \in DOMAIN r : i + 1 \in DOMAIN q /\ r[i] = q[i + 1] /\ i \in Nat /\ i >= 1
      /\ \A i \in DOMAIN q : i \in Nat /\ (i = 1 \/ i - 1 \in DOMAIN r)
  OBVIOUS
<1> HIDE DEF r
<1>2. ASSUME NEW x, EndsWith(q, x)
      PROVE  EndsWith(r, x) \/ (Head(q) = x /\ AllOther(r))
  <2>1. PICK i \in DOMAIN q : q[i] = x /\ \A j \in DOMAIN q : j > i => q[j] = "other"
    BY <1>2 DEF EndsWith
  <2>2. CASE i = 1
    BY <2>1, <2>2, <1>1 DEF AllOther
  <2>3. CASE i # 1
    <3>1. /\ i - 1 \in DOMAIN r /\ r[i - 1] = x
          /\ \A j \in DOMAIN r : j > i - 1 => r[j] = "other"
      BY <2>1, <2>3, <1>1
    <3>2. QED
      BY <3>1 DEF EndsWith
  <2>4. QED
    BY <2>2, <2>3
<1>3. AllOther(q) => Head(q) = "other" /\ AllOther(r)
  BY <1>1 DEF AllOther
<1>4. (\A i \in DOMAIN q : q[i] # "stop")
        => Head(q) # "stop" /\ \A i \in DOMAIN r : r[i] # "stop"
  BY <1>1
<1>5. QED
  BY <1>1, <1>2, <1>3, <1>4 DEF r

\* What a timer command does unless it is dropped.
LEMMA CommandQueued ==
    ASSUME IInv, NEW c \in {"start", "stop"}, TimerCommand(c), UNCHANGED timer
    PROVE  /\ timerQueue' \in Seq(TimerCommands) /\ Len(timerQueue') <= TimerQueueLength
           /\ disturbed' \in BOOLEAN
           /\ ~disturbed' => ~disturbed /\ EndsWith(timerQueue', c)
           /\ c = "start" /\ (\A i \in DOMAIN timerQueue : timerQueue[i] # "stop")
                  => \A i \in DOMAIN timerQueue' : timerQueue'[i] # "stop"
<1>1. timerQueue \in Seq(TimerCommands) /\ Len(timerQueue) <= TimerQueueLength
      /\ c \in TimerCommands /\ disturbed \in BOOLEAN
  BY DEF IInv, TypeOK, TimerCommands
<1>2. CASE Len(timerQueue) = TimerQueueLength
  BY <1>1, <1>2 DEF TimerCommand, Disturb
<1>3. CASE Len(timerQueue) # TimerQueueLength
  <2>1. timerQueue' = Append(timerQueue, c) /\ disturbed' = disturbed
    BY <1>1, <1>3 DEF TimerCommand, Disturb
  <2>2. Len(timerQueue) + 1 <= TimerQueueLength
    BY <1>1, <1>3
  <2>3. QED
    BY <1>1, <2>1, <2>2, Appended
<1>4. QED
  BY <1>2, <1>3

-----------------------------------------------------------------------------
(* The invariant.                                                          *)

LEMMA InitInv == Init => IInv
<1> SUFFICES ASSUME Init PROVE IInv
  OBVIOUS
<1>1. TypeOK
  <2>1. timerQueue \in Seq(TimerCommands) /\ Len(timerQueue) = 0
    BY DEF Init
  <2>2. Len(timerQueue) <= TimerQueueLength
    BY <2>1
  <2>3. QED
    BY <2>1, <2>2 DEF Init, TypeOK
<1>2. TimerOrder
  BY DEF Init, TimerOrder
<1>3. QED
  BY <1>1, <1>2 DEF Init, IInv

\* GPS_RX and the receiver touch nothing of a scan but the position.
LEMMA RxInv ==
    ASSUME IInv, Sentence \/ ParseQuality \/ ParseClear \/ ParseSatellites
    PROVE  IInv'
<1>1. /\ UNCHANGED <<control, daemon, timer, timerQueue, uart, stepUp,
                     scan_in_progress, disturbed>>
      /\ receiver' = receiver \/ (receiver # "standby" /\ receiver' = "awake")
  BY DEF Sentence, ParseQuality, ParseClear, ParseSatellites, ProcRx
<1>2. /\ procRx' \in {"idle", "cold", "parse", "clear", "count"}
      /\ cold_boot' = cold_boot
  BY DEF Sentence, ParseQuality, ParseClear, ParseSatellites, ProcRx
<1>3. TypeOK'
  <2>1. quality' = quality \/ quality' \in BOOLEAN
    BY DEF Sentence, ParseQuality, ParseClear, ParseSatellites, cache
  <2>2. satellites' = satellites \/ satellites' \in BOOLEAN
    BY DEF Sentence, ParseQuality, ParseClear, ParseSatellites, cache
  <2>3. quality' \in BOOLEAN /\ satellites' \in BOOLEAN
    BY <2>1, <2>2 DEF IInv, TypeOK
  <2>4. receiver' \in {"standby", "waking", "awake"}
    BY <1>1 DEF IInv, TypeOK
  <2>5. QED
    BY <1>1, <1>2, <2>3, <2>4 DEF IInv, TypeOK
<1>4. WillListen' = WillListen /\ WillRun' = WillRun /\ WillStop' = WillStop
  BY <1>1 DEF WillListen, WillRun, WillStop
<1>5. QED
  BY <1>1, <1>3, <1>4 DEF IInv, TimerOrder, Starting, Standing, On, Off, Deciding

LEMMA ColdBootInv == IInv /\ ColdBoot => IInv'
<1> SUFFICES ASSUME IInv, ColdBoot PROVE IInv'
  OBVIOUS
<1>1. TypeOK' /\ disturbed' = TRUE
  BY ZenonT(60) DEF ColdBoot, ProcRx, sl868v2SendMessage, Disturb, IInv, TypeOK, cache, Commands
<1>2. TimerOrder'
  BY DEF ColdBoot, ProcRx, IInv, TimerOrder
<1>3. QED
  BY <1>1, <1>2 DEF IInv

-----------------------------------------------------------------------------
(* control_task starts a scan.                                             *)

LEMMA StartScanInv == IInv /\ StartScan => IInv'
<1> SUFFICES ASSUME IInv, StartScan PROVE IInv'
  OBVIOUS
<1>1. TypeOK' /\ TimerOrder'
  BY DEF StartScan, IInv, TypeOK, TimerOrder, cache
<1>2. ~disturbed' => Starting' /\ Standing'
  BY DEF StartScan, Starting, Standing
<1>3. QED
  BY <1>1, <1>2 DEF IInv

LEMMA StartResetInv == IInv /\ StartReset => IInv'
<1> SUFFICES ASSUME IInv, StartReset PROVE IInv'
  OBVIOUS
<1> USE DEF StartReset, sl868v2SendMessage, Disturb
<1>1. TypeOK' /\ TimerOrder'
  BY DEF IInv, TypeOK, TimerOrder, cache, Commands
<1>2. ~disturbed' => Starting' /\ Standing'
  BY DEF IInv, Starting, Standing, WillListen
<1>3. QED
  BY <1>1, <1>2 DEF IInv

LEMMA StartTimerInv == IInv /\ StartTimer => IInv'
<1> SUFFICES ASSUME IInv, StartTimer PROVE IInv'
  OBVIOUS
<1>1. /\ timerQueue' \in Seq(TimerCommands) /\ Len(timerQueue') <= TimerQueueLength
      /\ disturbed' \in BOOLEAN
      /\ ~disturbed' => ~disturbed /\ EndsWith(timerQueue', "start")
      /\ (\A i \in DOMAIN timerQueue : timerQueue[i] # "stop")
            => \A i \in DOMAIN timerQueue' : timerQueue'[i] # "stop"
  BY CommandQueued DEF StartTimer
<1>2. TypeOK' /\ TimerOrder'
  BY <1>1 DEF StartTimer, IInv, TypeOK, TimerOrder, cache
<1>3. ~disturbed' => Starting' /\ Standing'
  BY <1>1 DEF StartTimer, IInv, Starting, Standing, WillRun, WillListen
<1>4. QED
  BY <1>2, <1>3 DEF IInv

LEMMA StartFlagInv == IInv /\ StartFlag => IInv'
<1> SUFFICES ASSUME IInv, StartFlag PROVE IInv'
  OBVIOUS
<1>1. TypeOK' /\ TimerOrder'
  BY DEF StartFlag, IInv, TypeOK, TimerOrder, cache
<1>2. WillListen' = WillListen /\ WillRun' = WillRun /\ Deciding' = Deciding
  BY DEF StartFlag, WillListen, WillRun, Deciding
<1>3. ~disturbed' => Starting' /\ Standing'
  BY <1>2 DEF StartFlag, IInv, Starting, Standing, On, StopSteps
<1>4. QED
  BY <1>1, <1>3 DEF IInv

-----------------------------------------------------------------------------
(* The timer.                                                              *)

\* A command that is worked off is one that was counted before.
LEMMA ProcessInv == IInv /\ ProcessTimerCommand => IInv'
<1> SUFFICES ASSUME IInv, ProcessTimerCommand PROVE IInv'
  OBVIOUS
<1> DEFINE q == timerQueue
<1>1. /\ daemon = "idle" /\ daemon' = "idle"
      /\ q \in Seq(TimerCommands) /\ q # <<>> /\ Len(q) <= TimerQueueLength
      /\ q' = Tail(q)
      /\ UNCHANGED <<control, procRx, uart, receiver, stepUp, scan_in_progress,
                     cold_boot, cache, disturbed>>
  BY DEF ProcessTimerCommand, Daemon, IInv, TypeOK
<1>2. /\ Head(q) = "start" => timer' = "running"
      /\ Head(q) = "stop" => timer' = "off"
      /\ Head(q) = "other" => timer' = timer
  BY DEF ProcessTimerCommand
<1>3. /\ Head(q) \in TimerCommands
      /\ q' \in Seq(TimerCommands) /\ Len(q') = Len(q) - 1
      /\ \A x : EndsWith(q, x) => EndsWith(q', x) \/ (Head(q) = x /\ AllOther(q'))
      /\ AllOther(q) => Head(q) = "other" /\ AllOther(q')
      /\ (\A i \in DOMAIN q : q[i] # "stop")
            => Head(q) # "stop" /\ \A i \in DOMAIN q' : q'[i] # "stop"
  BY <1>1, Removed
<1> HIDE DEF q
<1>4. (WillRun => WillRun') /\ (WillStop => WillStop')
  BY <1>2, <1>3 DEF WillRun, WillStop, q
<1>5. timer' \in {timer, "running", "off"} /\ (timer' = "due" => timer = "due")
  BY <1>2, <1>3 DEF TimerCommands
<1>6. Len(timerQueue') <= TimerQueueLength
  BY <1>1, <1>3 DEF q
<1>7. TypeOK'
  BY <1>1, <1>3, <1>5, <1>6 DEF q, IInv, TypeOK, cache
<1>8. TimerOrder'
  BY <1>1, <1>3, <1>5 DEF q, IInv, TimerOrder
<1>9. WillListen' = WillListen
  BY <1>1 DEF WillListen
<1>10. ~disturbed' => Starting' /\ Standing'
  BY <1>1, <1>4, <1>9 DEF IInv, Starting, Standing, On, Off, Deciding
<1>11. QED
  BY <1>7, <1>8, <1>10 DEF IInv

LEMMA MinuteInv == IInv /\ Minute => IInv'
<1> SUFFICES ASSUME IInv, Minute PROVE IInv'
  OBVIOUS
<1>1. TypeOK' /\ TimerOrder'
  BY DEF Minute, IInv, TypeOK, TimerOrder, cache
<1>2. (WillRun => WillRun') /\ (WillStop => WillStop') /\ WillListen' = WillListen
  BY DEF Minute, WillRun, WillStop, WillListen
<1>3. ~disturbed' => Starting' /\ Standing'
  BY <1>2 DEF Minute, IInv, Starting, Standing, On, Off, Deciding
<1>4. QED
  BY <1>1, <1>3 DEF IInv

\* A timer that is stopped does not become due: an expired one belongs to a scan.
LEMMA ExpireInv == IInv /\ Expire => IInv'
<1> SUFFICES ASSUME IInv, Expire PROVE IInv'
  OBVIOUS
<1>1. /\ daemon = "idle" /\ daemon' = "quality" /\ timer = "due" /\ timer' = "off"
      /\ UNCHANGED <<control, timerQueue, uart, receiver, stepUp, scan_in_progress, disturbed>>
  BY DEF Expire, Daemon
<1>2. TypeOK' /\ TimerOrder'
  BY DEF Expire, Daemon, IInv, TypeOK, TimerOrder, cache
<1>3. ~Off
  BY <1>1 DEF Off, WillStop, EndsWith, IInv, TimerOrder
<1>4. Deciding' /\ WillListen' = WillListen /\ daemon' \notin StopSteps
  BY <1>1 DEF Deciding, WillListen, StopSteps
<1>5. ~disturbed' => Starting' /\ Standing'
  BY <1>1, <1>3, <1>4 DEF IInv, Starting, Standing, On, StopSteps
<1>6. QED
  BY <1>2, <1>5 DEF IInv

-----------------------------------------------------------------------------
(* The callback of the timer.                                              *)

LEMMA DecideInv == IInv /\ (CheckQuality \/ CheckSatellites) => IInv'
<1> SUFFICES ASSUME IInv, CheckQuality \/ CheckSatellites PROVE IInv'
  OBVIOUS
<1> DEFINE to == daemon'
<1>1. /\ daemon \in {"quality", "satellites"}
      /\ to \in {"satellites", "restart", "standby"}
      /\ UNCHANGED <<control, procRx, timer, timerQueue, uart, receiver, stepUp,
                     scan_in_progress, cold_boot, cache>>
      /\ disturbed' \in BOOLEAN
      /\ ~disturbed' => ~disturbed /\ (to = "standby" => control = "idle")
  BY DEF CheckQuality, CheckSatellites, Daemon, Disturb, IInv, TypeOK
<1>2. TypeOK' /\ TimerOrder'
  BY <1>1 DEF IInv, TypeOK, TimerOrder, StopSteps, cache
<1>3. WillListen' = WillListen /\ WillRun' = WillRun /\ WillStop' = WillStop
  BY <1>1 DEF WillListen, WillRun, WillStop
<1>4. ~disturbed' => Starting' /\ Standing'
  BY <1>1, <1>3 DEF IInv, Starting, Standing, On, Off, Deciding, StopSteps
<1>5. QED
  BY <1>2, <1>4 DEF IInv

LEMMA RestartTimerInv == IInv /\ RestartTimer => IInv'
<1> SUFFICES ASSUME IInv, RestartTimer PROVE IInv'
  OBVIOUS
<1>1. /\ timerQueue' \in Seq(TimerCommands) /\ Len(timerQueue') <= TimerQueueLength
      /\ disturbed' \in BOOLEAN
      /\ ~disturbed' => ~disturbed /\ EndsWith(timerQueue', "start")
      /\ (\A i \in DOMAIN timerQueue : timerQueue[i] # "stop")
            => \A i \in DOMAIN timerQueue' : timerQueue'[i] # "stop"
  BY CommandQueued DEF RestartTimer
<1>2. /\ daemon = "restart" /\ daemon' = "idle"
      /\ UNCHANGED <<control, procRx, timer, uart, receiver, stepUp, scan_in_progress,
                     cold_boot, cache>>
  BY DEF RestartTimer, Daemon
<1>3. TypeOK' /\ TimerOrder'
  BY <1>1, <1>2 DEF IInv, TypeOK, TimerOrder, cache
<1>4. WillListen' = WillListen
  BY <1>2 DEF WillListen
<1>5. ~disturbed' => Starting' /\ Standing'
  BY <1>1, <1>2, <1>4 DEF IInv, Starting, Standing, On, Off, WillRun, StopSteps
<1>6. QED
  BY <1>3, <1>5 DEF IInv

LEMMA StopStandbyInv == IInv /\ StopStandby => IInv'
<1> SUFFICES ASSUME IInv, StopStandby PROVE IInv'
  OBVIOUS
<1>1. /\ daemon = "standby" /\ daemon' = "stopTimer"
      /\ UNCHANGED <<control, procRx, timer, timerQueue, receiver, stepUp,
                     scan_in_progress, cold_boot, cache>>
      /\ uart' \in {uart, "STDBY"} /\ disturbed' \in BOOLEAN
      /\ ~disturbed' => ~disturbed /\ uart' = "STDBY"
  BY DEF StopStandby, Daemon, sl868v2SendMessage, Disturb, IInv, TypeOK
<1>2. TypeOK' /\ TimerOrder'
  BY <1>1 DEF IInv, TypeOK, TimerOrder, StopSteps, Commands, cache
<1>3. ~disturbed' => Starting' /\ Standing'
  BY <1>1 DEF IInv, Starting, Standing, WillListen, StopSteps
<1>4. QED
  BY <1>2, <1>3 DEF IInv

LEMMA StopTimerInv == IInv /\ StopTimer => IInv'
<1> SUFFICES ASSUME IInv, StopTimer PROVE IInv'
  OBVIOUS
<1>1. /\ timerQueue' \in Seq(TimerCommands) /\ Len(timerQueue') <= TimerQueueLength
      /\ disturbed' \in BOOLEAN
      /\ ~disturbed' => ~disturbed /\ EndsWith(timerQueue', "stop")
  BY CommandQueued DEF StopTimer
<1>2. /\ daemon = "stopTimer" /\ daemon' = "stepDown" /\ scan_in_progress' = FALSE
      /\ UNCHANGED <<control, procRx, timer, uart, receiver, stepUp, cold_boot, cache>>
  BY DEF StopTimer, Daemon
<1>3. TypeOK' /\ TimerOrder'
  BY <1>1, <1>2, ZenonT(60) DEF IInv, TypeOK, TimerOrder, StopSteps, cache
<1>4. WillListen' = WillListen
  BY <1>2 DEF WillListen
<1>5. ~disturbed' => Starting' /\ Standing'
  BY <1>1, <1>2, <1>4 DEF IInv, Starting, Standing, WillStop, StopSteps
<1>6. QED
  BY <1>3, <1>5 DEF IInv

LEMMA StopStepUpInv == IInv /\ StopStepUp => IInv'
<1> SUFFICES ASSUME IInv, StopStepUp PROVE IInv'
  OBVIOUS
<1>1. /\ daemon = "stepDown" /\ daemon' = "idle" /\ stepUp' = FALSE
      /\ UNCHANGED <<control, procRx, timer, timerQueue, uart, receiver,
                     scan_in_progress, cold_boot, cache, disturbed>>
  BY DEF StopStepUp, Daemon
<1>2. TypeOK' /\ TimerOrder'
  BY <1>1, ZenonT(60) DEF IInv, TypeOK, TimerOrder, cache
<1>3. WillListen' = WillListen /\ WillStop' = WillStop
  BY <1>1 DEF WillListen, WillStop
<1>4. ~disturbed' => Starting' /\ Standing'
  BY <1>1, <1>3 DEF IInv, Starting, Standing, Off, StopSteps
<1>5. QED
  BY <1>2, <1>4 DEF IInv

-----------------------------------------------------------------------------
(* The rest of the board.                                                  *)

LEMMA TransmittedInv == IInv /\ Transmitted => IInv'
<1> SUFFICES ASSUME IInv, Transmitted PROVE IInv'
  OBVIOUS
<1>1. /\ uart \in Commands /\ uart' = "idle"
      /\ uart = "WARM_RST" => receiver' = "waking"
      /\ uart = "STDBY" => receiver' = "standby"
      /\ uart \notin {"WARM_RST", "STDBY"} => receiver' = receiver
      /\ UNCHANGED <<control, daemon, procRx, timer, timerQueue, stepUp,
                     scan_in_progress, cold_boot, cache, disturbed>>
  BY DEF Transmitted, External, IInv, TypeOK
<1>2. TypeOK' /\ TimerOrder'
  BY <1>1 DEF IInv, TypeOK, TimerOrder, Commands, cache
<1>3. WillListen' = WillListen /\ WillRun' = WillRun /\ WillStop' = WillStop
  BY <1>1 DEF WillListen, WillRun, WillStop
<1>4. ~disturbed' => Starting' /\ Standing'
  BY <1>1, <1>3 DEF IInv, Starting, Standing, On, Off, Deciding
<1>5. QED
  BY <1>2, <1>4 DEF IInv

LEMMA ConsoleInv == IInv /\ (ConsoleGps \/ ConsoleStepUp) => IInv'
<1> SUFFICES ASSUME IInv, ConsoleGps \/ ConsoleStepUp PROVE IInv'
  OBVIOUS
<1>1. /\ UNCHANGED <<control, daemon, procRx, timer, timerQueue, receiver,
                     scan_in_progress, cold_boot, cache>>
      /\ uart' \in {uart} \cup Commands /\ stepUp' \in BOOLEAN /\ disturbed' \in BOOLEAN
      /\ ~disturbed' => ~disturbed /\ stepUp' = stepUp
                        /\ (uart' = uart \/ (uart = "idle" /\ uart' = "other"))
  BY DEF ConsoleGps, ConsoleStepUp, External, sl868v2SendMessage, Disturb, IInv, TypeOK
<1>2. TypeOK' /\ TimerOrder'
  BY <1>1 DEF IInv, TypeOK, TimerOrder, cache
<1>3. WillRun' = WillRun /\ WillStop' = WillStop /\ (~disturbed' => WillListen' = WillListen)
  BY <1>1 DEF WillListen, WillRun, WillStop
<1>4. ~disturbed' => Starting' /\ Standing'
  BY <1>1, <1>3 DEF IInv, Starting, Standing, On, Off, Deciding
<1>5. QED
  BY <1>2, <1>4 DEF IInv

LEMMA SfxTimerInv == IInv /\ SfxTimer => IInv'
<1> SUFFICES ASSUME IInv, SfxTimer PROVE IInv'
  OBVIOUS
<1>1. /\ timerQueue \in Seq(TimerCommands) /\ Len(timerQueue) + 1 <= TimerQueueLength
      /\ timerQueue' = Append(timerQueue, "other") /\ "other" \in TimerCommands
      /\ UNCHANGED <<control, daemon, procRx, timer, uart, receiver, stepUp,
                     scan_in_progress, cold_boot, cache, disturbed>>
  BY DEF SfxTimer, External, IInv, TypeOK, TimerCommands
<1>2. /\ timerQueue' \in Seq(TimerCommands) /\ Len(timerQueue') <= TimerQueueLength
      /\ \A x : EndsWith(timerQueue, x) => EndsWith(timerQueue', x)
      /\ AllOther(timerQueue) => AllOther(timerQueue')
      /\ (\A i \in DOMAIN timerQueue : timerQueue[i] # "stop")
            => \A i \in DOMAIN timerQueue' : timerQueue'[i] # "stop"
  BY <1>1, Appended
<1>3. TypeOK' /\ TimerOrder'
  BY <1>1, <1>2 DEF IInv, TypeOK, TimerOrder, cache
<1>4. (WillRun => WillRun') /\ (WillStop => WillStop') /\ WillListen' = WillListen
  BY <1>1, <1>2 DEF WillRun, WillStop, WillListen
<1>5. ~disturbed' => Starting' /\ Standing'
  BY <1>1, <1>4 DEF IInv, Starting, Standing, On, Off, Deciding
<1>6. QED
  BY <1>3, <1>5 DEF IInv

LEMMA StutterInv == IInv /\ UNCHANGED vars => IInv'
<1> SUFFICES ASSUME IInv, UNCHANGED vars PROVE IInv'
  OBVIOUS
<1> USE DEF vars, cache
<1>1. TypeOK' /\ TimerOrder'
  BY DEF IInv, TypeOK, TimerOrder
<1>2. WillListen' = WillListen /\ WillRun' = WillRun /\ WillStop' = WillStop
  BY DEF WillListen, WillRun, WillStop
<1>3. ~disturbed' => Starting' /\ Standing'
  BY <1>2 DEF IInv, Starting, Standing, On, Off, Deciding
<1>4. QED
  BY <1>1, <1>3 DEF IInv

LEMMA StepInv == IInv /\ [Next]_vars => IInv'
  BY RxInv, ColdBootInv, StartScanInv, StartResetInv, StartTimerInv, StartFlagInv,
     ProcessInv, MinuteInv, ExpireInv, DecideInv, RestartTimerInv, StopStandbyInv,
     StopTimerInv, StopStepUpInv, TransmittedInv, ConsoleInv, SfxTimerInv, StutterInv
     DEF Next, gpsStartScan, gpsTimerCallback, gpsStopScan, sl868v2ProcessRx

-----------------------------------------------------------------------------
\* The invariant, for every length of the timer queue.
THEOREM Invariance == Spec => []IInv
  BY InitInv, StepInv, PTL DEF Spec

\* Types of the scan, and the timer queue (sme_gps_timer.c:74) is never over-filled.
THEOREM TypeCorrect == Spec => []TypeOK
  BY Invariance, PTL DEF IInv

\* Timer, receiver, step-up and scan_in_progress agree when nothing is under way
\* (gpsStartScan, gpsStopScan), unless the last scan was disturbed.
THEOREM Consistent == Spec => []ScanConsistent
<1>1. IInv => ScanConsistent
  <2> SUFFICES ASSUME IInv, Quiet, ~disturbed
               PROVE  /\ (receiver # "standby") = (timer # "off")
                      /\ stepUp = (timer # "off")
                      /\ scan_in_progress = (timer # "off")
    BY DEF ScanConsistent
  <2>1. On \/ Off
    BY DEF Quiet, IInv, Standing, StopSteps
  <2>2. /\ ~Deciding
        /\ WillRun <=> timer # "off"
        /\ WillStop <=> timer = "off"
        /\ WillListen <=> receiver # "standby"
    BY DEF Quiet, Deciding, WillRun, WillStop, WillListen, EndsWith, AllOther
  <2>3. stepUp \in BOOLEAN /\ scan_in_progress \in BOOLEAN
    BY DEF IInv, TypeOK
  <2>4. QED
    BY <2>1, <2>2, <2>3 DEF On, Off
<1>2. QED
  BY <1>1, Invariance, PTL

-----------------------------------------------------------------------------
(* Characters of a line.                                                   *)

\* What a character is to the line buffer.
LEMMA Controls ==
    /\ LF \in Chars /\ CR \in Chars /\ Dollar \in Chars /\ Star \in Chars
    /\ LF # Dollar /\ CR # Dollar /\ Star # Dollar
    /\ CR # LF /\ Star # LF /\ CR # Star
    /\ ~Ignored(LF) /\ ~Ignored(CR) /\ ~Ignored(Dollar) /\ ~Ignored(Star)
<1>1. 2 \notin LF /\ 5 \notin LF /\ 5 \notin CR /\ 1 \notin CR /\ 1 \in LF
  BY DEF LF, CR
<1>2. 5 \in Dollar /\ 5 \in Star /\ 2 \in Dollar /\ 2 \notin Star
  BY DEF Dollar, Star
<1>3. 5 \notin 0 .. 4
  OBVIOUS
<1>4. ~Ignored(Dollar) /\ ~Ignored(Star)
  BY <1>2, <1>3 DEF Ignored
<1>5. LF \in Chars /\ CR \in Chars /\ Dollar \in Chars /\ Star \in Chars
  BY DEF LF, CR, Dollar, Star, Chars, Bits
<1>6. QED
  BY <1>1, <1>2, <1>4, <1>5 DEF Ignored

LEMMA SpecialTalkers == G # P /\ G \in Chars
<1>1. 0 \in G /\ 0 \notin P
  BY DEF G, P
<1>2. QED
  BY <1>1 DEF G, Chars, Bits

LEMMA DigitOfLine ==
    ASSUME NEW n \in SUBSET (0 .. 3)
    PROVE  /\ Digit(n) \in Chars
           /\ Digit(n) # Dollar /\ Digit(n) # LF /\ Digit(n) # Star
           /\ ~Ignored(Digit(n))
<1>1. PICK d : d = Digit(n)
  OBVIOUS
<1>2. d \subseteq 0 .. 6 /\ (6 \in d \/ (4 \in d /\ 5 \in d))
  <2>1. \/ d = {0, 6} \/ d = {1, 6} \/ d = {0, 1, 6}
        \/ d = {2, 6} \/ d = {0, 2, 6} \/ d = {1, 2, 6}
        \/ d = n \cup {4, 5}
    BY <1>1 DEF Digit
  <2>2. CASE d = n \cup {4, 5}
    BY <2>2
  <2>3. CASE d = {0, 6} \/ d = {1, 6} \/ d = {0, 1, 6}
    BY <2>3
  <2>4. CASE d = {2, 6} \/ d = {0, 2, 6} \/ d = {1, 2, 6}
    BY <2>4
  <2>5. QED
    BY <2>1, <2>2, <2>3, <2>4
<1>3. d # Dollar /\ d # LF /\ d # Star
  BY <1>2 DEF Dollar, LF, Star
<1>4. ~Ignored(d)
  BY <1>2 DEF Ignored
<1>5. QED
  BY <1>1, <1>2, <1>3, <1>4 DEF Chars, Bits

LEMMA SumDigits ==
    ASSUME NEW x
    PROVE  /\ High(x) \in Chars /\ High(x) # Dollar /\ High(x) # LF /\ ~Ignored(High(x))
           /\ High(x) # Star /\ Low(x) # Star
           /\ Low(x) \in Chars /\ Low(x) # Dollar /\ Low(x) # LF /\ ~Ignored(Low(x))
<1>1. {i \in 0 .. 3 : i + 4 \in x} \in SUBSET (0 .. 3) /\ x \cap 0 .. 3 \in SUBSET (0 .. 3)
  OBVIOUS
<1>2. QED
  BY <1>1, DigitOfLine DEF High, Low

\* A printable character goes into the buffer and ends nothing.
LEMMA PrintableChar ==
    ASSUME NEW c \in Printable
    PROVE  c \in Chars /\ c # Dollar /\ c # LF /\ c # Star /\ ~Ignored(c)
BY DEF Printable

\* A sentence as the receiver may send it.
LEMMA SentenceFits ==
    ASSUME NEW s \in Sentences
    PROVE  /\ s \in Seq(Printable)
           /\ s \in Seq(Chars)
           /\ Len(s) \in Nat \ {0}
           /\ Len(s) + 8 <= SL868V2_MAX_MSG_LEN
           /\ s[1] = G => Len(s) >= StdHeader
           /\ s[1] = P => Len(s) >= MtkHeader
<1>1. /\ s \in Seq(Printable) /\ s # <<>>
      /\ Len(s) + 8 <= SL868V2_MAX_MSG_LEN
      /\ s[1] = G => Len(s) >= StdHeader
      /\ s[1] = P => Len(s) >= MtkHeader
  BY SentencesAssumption
<1>2. s \in Seq(Chars)
  BY <1>1 DEF Printable
<1>3. Len(s) \in Nat \ {0}
  BY <1>1, EmptySeq
<1>4. QED
  BY <1>1, <1>2, <1>3

\* The line of a sentence, character by character.
LEMMA CharsOfLine ==
    ASSUME NEW s \in Sentences
    PROVE  /\ Line(s) \in Seq(Chars)
           /\ Len(Line(s)) = Len(s) + 6
           /\ Line(s)[1] = Dollar
           /\ \A i \in 1 .. Len(s) : Line(s)[i + 1] = s[i]
           /\ Line(s)[Len(s) + 2] = Star
           /\ Line(s)[Len(s) + 3] = High(Checksum(s))
           /\ Line(s)[Len(s) + 4] = Low(Checksum(s))
           /\ Line(s)[Len(s) + 5] = CR
           /\ Line(s)[Len(s) + 6] = LF
<1> DEFINE h == High(Checksum(s))
           l == Low(Checksum(s))
           e == <<Star, h, l, CR, LF>>
           a == <<Dollar>> \o s
<1>1. s \in Seq(Chars) /\ Len(s) \in Nat
  BY SentenceFits
<1>2. h \in Chars /\ l \in Chars
  BY SumDigits
<1> HIDE DEF h, l
<1>3. e \in Seq(Chars) /\ Len(e) = 5
      /\ e[1] = Star /\ e[2] = h /\ e[3] = l /\ e[4] = CR /\ e[5] = LF
  BY <1>2, Controls
<1>4. <<Dollar>> \in Seq(Chars) /\ Len(<<Dollar>>) = 1 /\ <<Dollar>>[1] = Dollar
  BY Controls
<1> HIDE DEF e
<1>5. /\ a \in Seq(Chars)
      /\ Len(a) = Len(s) + 1
      /\ \A i \in 1 .. Len(s) + 1 : a[i] = IF i <= 1 THEN Dollar ELSE s[i - 1]
  BY <1>1, <1>4, ConcatProperties
<1> HIDE DEF a
<1>6. /\ a \o e \in Seq(Chars)
      /\ Len(a \o e) = Len(s) + 6
      /\ \A i \in 1 .. Len(s) + 6 :
           (a \o e)[i] = IF i <= Len(s) + 1 THEN a[i] ELSE e[i - (Len(s) + 1)]
  <2>1. /\ a \o e \in Seq(Chars)
        /\ Len(a \o e) = Len(a) + Len(e)
        /\ \A i \in 1 .. Len(a) + Len(e) :
             (a \o e)[i] = IF i <= Len(a) THEN a[i] ELSE e[i - Len(a)]
    BY <1>3, <1>5, ConcatProperties
  <2>2. Len(a) + Len(e) = Len(s) + 6
    BY <1>1, <1>3, <1>5
  <2>3. QED
    BY <2>1, <2>2, <1>5, Zenon
<1>7. Line(s) = a \o e
  BY DEF Line, a, e, h, l
<1>8. Line(s)[1] = Dollar
  BY <1>1, <1>5, <1>6, <1>7
<1>9. ASSUME NEW i \in 1 .. Len(s) PROVE Line(s)[i + 1] = s[i]
  BY <1>1, <1>5, <1>6, <1>7
<1>10. /\ Line(s)[Len(s) + 2] = e[1]
       /\ Line(s)[Len(s) + 3] = e[2]
       /\ Line(s)[Len(s) + 4] = e[3]
       /\ Line(s)[Len(s) + 5] = e[4]
       /\ Line(s)[Len(s) + 6] = e[5]
  <2>1. ASSUME NEW k \in 1 .. 5 PROVE Line(s)[Len(s) + 1 + k] = e[k]
    <3>1. PICK i \in 1 .. Len(s) + 6 : i = Len(s) + 1 + k
      BY <1>1
    <3>2. ~(i <= Len(s) + 1) /\ i - (Len(s) + 1) = k
      BY <1>1, <3>1
    <3>3. QED
      BY <1>6, <1>7, <3>1, <3>2
  <2>2. /\ Len(s) + 1 + 1 = Len(s) + 2
        /\ Len(s) + 1 + 2 = Len(s) + 3
        /\ Len(s) + 1 + 3 = Len(s) + 4
        /\ Len(s) + 1 + 4 = Len(s) + 5
        /\ Len(s) + 1 + 5 = Len(s) + 6
    BY <1>1
  <2>3. 1 \in 1 .. 5 /\ 2 \in 1 .. 5 /\ 3 \in 1 .. 5 /\ 4 \in 1 .. 5 /\ 5 \in 1 .. 5
    OBVIOUS
  <2>4. QED
    BY <2>1, <2>2, <2>3
<1>11. QED
  BY <1>3, <1>6, <1>7, <1>8, <1>9, <1>10 DEF h, l

\* No character of a line is ignored, its first one is the only $, and its last
\* one the only line feed.
LEMMA LineIsClean ==
    ASSUME NEW s \in Sentences, NEW i \in 1 .. Len(Line(s))
    PROVE  /\ Line(s)[i] \in Chars
           /\ ~Ignored(Line(s)[i])
           /\ i > 1 => Line(s)[i] # Dollar
           /\ i < Len(Line(s)) => Line(s)[i] # LF
<1>1. Len(s) \in Nat /\ Len(Line(s)) = Len(s) + 6
  BY SentenceFits, CharsOfLine
<1>2. CASE i = 1
  BY <1>2, CharsOfLine, Controls
<1>3. CASE i \in 2 .. Len(s) + 1
  <2>1. i - 1 \in 1 .. Len(s) /\ i = (i - 1) + 1
    BY <1>1, <1>3
  <2>2. Line(s)[i] = s[i - 1]
    BY <2>1, CharsOfLine
  <2>3. s[i - 1] \in Printable
    BY <2>1, SentenceFits
  <2>4. QED
    BY <2>2, <2>3, PrintableChar
<1>4. CASE i = Len(s) + 2
  BY <1>4, CharsOfLine, Controls
<1>5. CASE i = Len(s) + 3 \/ i = Len(s) + 4
  BY <1>5, CharsOfLine, SumDigits
<1>6. CASE i = Len(s) + 5
  BY <1>6, CharsOfLine, Controls
<1>7. CASE i = Len(s) + 6
  BY <1>7, <1>1, CharsOfLine, Controls
<1>8. QED
  BY <1>1, <1>2, <1>3, <1>4, <1>5, <1>6, <1>7

-----------------------------------------------------------------------------
(* Searching a line.                                                       *)

\* A set of natural numbers that is not empty has a least element.
LEMMA LeastNumber ==
    ASSUME NEW T \in SUBSET Nat, T # {}
    PROVE  \E n \in T : \A m \in T : n <= m
<1>1. IsWellFoundedOn(OpToRel(<, Nat), Nat)
  BY NatLessThanWellFounded
<1>2. PICK n \in T : \A m \in T : <<m, n>> \notin OpToRel(<, Nat)
  BY <1>1, WFMin
<1>3. \A m \in T : ~(m < n)
  BY <1>2 DEF OpToRel
<1>4. QED
  BY <1>3

\* The search for a * ends, at the latest behind the line.
LEMMA StarFound ==
    ASSUME NEW d \in Seq(Chars), NEW i \in Nat \ {0}
    PROVE  /\ FirstStar(d, i) \in i .. Len(d) + i
           /\ FirstStar(d, i) > Len(d) \/ d[FirstStar(d, i)] = Star
           /\ \A j \in i .. FirstStar(d, i) - 1 : j <= Len(d) /\ d[j] # Star
<1> DEFINE Ends(k) == k > Len(d) \/ d[k] = Star
           T == {k \in i .. Len(d) + i : Ends(k)}
<1>1. Len(d) \in Nat
  OBVIOUS
<1>2. Len(d) + i \in T /\ T \in SUBSET Nat
  BY <1>1
<1>3. PICK n \in T : \A m \in T : n <= m
  BY <1>2, LeastNumber
<1>4. n \in i .. Len(d) + i /\ Ends(n)
  OBVIOUS
<1>5. ASSUME NEW j \in i .. n - 1 PROVE ~Ends(j)
  <2>1. j \in i .. Len(d) + i /\ ~(n <= j)
    BY <1>1, <1>4
  <2>2. QED
    BY <2>1, <1>3
<1>6. \A j \in i .. n - 1 : j <= Len(d) /\ d[j] # Star
  BY <1>1, <1>5
<1>7. \E k \in i .. Len(d) + i :
        /\ k > Len(d) \/ d[k] = Star
        /\ \A j \in i .. k - 1 : j <= Len(d) /\ d[j] # Star
  BY <1>4, <1>6
<1>8. QED
  BY <1>7, Zenon DEF FirstStar

\* There is one first *.
LEMMA StarIs ==
    ASSUME NEW d \in Seq(Chars), NEW i \in Nat \ {0}, NEW k \in i .. Len(d),
           d[k] = Star, \A j \in i .. k - 1 : d[j] # Star
    PROVE  FirstStar(d, i) = k
<1>1. PICK f : f = FirstStar(d, i)
  OBVIOUS
<1>2. /\ f \in i .. Len(d) + i
      /\ f > Len(d) \/ d[f] = Star
      /\ \A j \in i .. f - 1 : j <= Len(d) /\ d[j] # Star
  BY <1>1, StarFound
<1>3. Len(d) \in Nat
  OBVIOUS
<1>4. ~(k < f)
  <2>1. SUFFICES ASSUME k < f PROVE FALSE
    OBVIOUS
  <2>2. k \in i .. f - 1
    BY <1>2, <1>3, <2>1
  <2>3. QED
    BY <1>2, <2>2
<1>5. ~(f < k)
  <2>1. SUFFICES ASSUME f < k PROVE FALSE
    OBVIOUS
  <2>2. f \in i .. k - 1 /\ ~(f > Len(d))
    BY <1>2, <1>3, <2>1
  <2>3. QED
    BY <1>2, <2>2
<1>6. QED
  BY <1>1, <1>2, <1>4, <1>5

\* d says s between its $ and its first *, whatever comes then.
Says(d, s) ==
    /\ Len(s) + 2 <= Len(d)
    /\ \A j \in 1 .. Len(s) : d[j + 1] = s[j]
    /\ d[Len(s) + 2] = Star

\* What says a sentence has its first * behind it.
LEMMA StarBehind ==
    ASSUME NEW s \in Sentences, NEW d \in Seq(Chars), Says(d, s),
           NEW i \in 2 .. Len(s) + 2
    PROVE  FirstStar(d, i) = Len(s) + 2
<1>1. /\ Len(s) \in Nat /\ Len(d) \in Nat /\ Len(s) + 2 <= Len(d)
      /\ d[Len(s) + 2] = Star
  BY SentenceFits DEF Says
<1>2. ASSUME NEW j \in i .. (Len(s) + 2) - 1 PROVE d[j] # Star
  <2>1. j - 1 \in 1 .. Len(s) /\ (j - 1) + 1 = j
    BY <1>1
  <2>2. d[j] = s[j - 1]
    BY <2>1 DEF Says
  <2>3. QED
    BY <2>1, <2>2, SentenceFits, PrintableChar
<1>3. i \in Nat \ {0} /\ Len(s) + 2 \in i .. Len(d)
  BY <1>1
<1>4. QED
  BY <1>1, <1>2, <1>3, StarIs

\* The sentence is what stands before that *, and begins with its talker.
LEMMA SentenceSaid ==
    ASSUME NEW s \in Sentences, NEW d \in Seq(Chars), Says(d, s)
    PROVE  SubSeq(d, 2, Len(s) + 1) = s /\ At(d, 2) = s[1]
<1> DEFINE t == SubSeq(d, 2, Len(s) + 1)
<1>1. /\ Len(s) \in Nat \ {0} /\ s \in Seq(Chars)
      /\ Len(d) \in Nat /\ Len(s) + 2 <= Len(d)
      /\ \A j \in 1 .. Len(s) : d[j + 1] = s[j]
  BY SentenceFits DEF Says
<1>2. \A i \in 2 .. Len(s) + 1 : d[i] \in Chars
  BY <1>1, ElementOfSeq
<1>3. /\ t \in Seq(Chars)
      /\ Len(t) = IF 2 <= Len(s) + 1 THEN (Len(s) + 1) - 2 + 1 ELSE 0
      /\ \A i \in 1 .. (Len(s) + 1) - 2 + 1 : t[i] = d[2 + i - 1]
  BY <1>1, <1>2, 2 \in Int, Len(s) + 1 \in Int, SubSeqProperties
<1> HIDE DEF t
<1>4. Len(t) = Len(s)
  BY <1>1, <1>3
<1>5. ASSUME NEW i \in 1 .. Len(s) PROVE t[i] = s[i]
  <2>1. i \in 1 .. (Len(s) + 1) - 2 + 1 /\ 2 + i - 1 = i + 1
    BY <1>1
  <2>2. QED
    BY <1>1, <1>3, <2>1
<1>6. t = s
  BY <1>1, <1>3, <1>4, <1>5, SeqEqual
<1>7. 2 \in DOMAIN d /\ 1 \in 1 .. Len(s) /\ 1 + 1 = 2
  BY <1>1
<1>8. At(d, 2) = s[1]
  BY <1>1, <1>7 DEF At
<1>9. QED
  BY <1>6, <1>8 DEF t

\* So does a line.
LEMMA LineSays ==
    ASSUME NEW s \in Sentences
    PROVE  Says(Line(s), s) /\ Line(s) \in Seq(Chars)
<1>1. Len(s) \in Nat
  BY SentenceFits
<1>2. QED
  BY <1>1, CharsOfLine DEF Says

\* A line passes its own check.
LEMMA LineChecks ==
    ASSUME NEW s \in Sentences
    PROVE  /\ crcCheck(Line(s))
           /\ FirstStar(Line(s), 2) = Len(s) + 2
           /\ At(Line(s), 2) = s[1]
<1>1. /\ Len(s) \in Nat \ {0}
      /\ Line(s) \in Seq(Chars)
      /\ DOMAIN Line(s) = 1 .. Len(s) + 6
  BY SentenceFits, CharsOfLine
<1>2. FirstStar(Line(s), 2) = Len(s) + 2
  BY <1>1, 2 \in 2 .. Len(s) + 2, LineSays, StarBehind
<1>3. (Len(s) + 2) - 1 = Len(s) + 1 /\ (Len(s) + 2) + 1 = Len(s) + 3 /\ (Len(s) + 2) + 2 = Len(s) + 4
  BY <1>1
<1>4. Body(Line(s)) = s
  BY <1>2, <1>3, LineSays, SentenceSaid DEF Body
<1>5. Len(s) + 3 \in DOMAIN Line(s) /\ Len(s) + 4 \in DOMAIN Line(s) /\ 2 \in DOMAIN Line(s)
  BY <1>1
<1>6. /\ At(Line(s), Len(s) + 3) = High(Checksum(s))
      /\ At(Line(s), Len(s) + 4) = Low(Checksum(s))
  BY <1>5, CharsOfLine DEF At
<1>7. Len(s) + 2 <= Len(Line(s))
  BY <1>1, CharsOfLine
<1>8. crcCheck(Line(s))
  BY <1>2, <1>3, <1>4, <1>6, <1>7 DEF crcCheck
<1>9. At(Line(s), 2) = s[1]
  BY LineSays, SentenceSaid
<1>10. QED
  BY <1>2, <1>8, <1>9

-----------------------------------------------------------------------------
(* The line buffer.                                                        *)

\* Of the types, what the buffer and the parser write, and what they read.
BufferTyped ==
    /\ data \in Seq(Chars)
    /\ Len(data) <= SL868V2_MAX_MSG_LEN - 2
    /\ from \in Seq(1 .. MaxLine)
    /\ Len(from) = Len(data)

ParserTyped ==
    /\ messageType \in {"STD_NMEA", "MTK_NMEA"}
    /\ dataLength \in 0 .. SL868V2_MAX_MSG_LEN
    /\ overread \in BOOLEAN
    /\ accepted \in 0 .. MaxLine

LineTyped ==
    /\ line \in 1 .. MaxLine
    /\ sentence \in Sentences
    /\ pos \in 1 .. Len(Line(sentence))
    /\ faults \in 0 .. MaxFaults
    /\ room \in BOOLEAN

LEMMA NmeaTypes == NmeaTypeOK <=> BufferTyped /\ ParserTyped /\ LineTyped
BY DEF NmeaTypeOK, BufferTyped, ParserTyped, LineTyped

\* The three things HandleRx may do with a character.
Emptied  == data' = <<>> /\ from' = <<>>
Kept     == data' = data /\ from' = from
Taken(c) == /\ data' = Append(IF c = Dollar THEN <<>> ELSE data, c)
            /\ from' = Append(IF c = Dollar THEN <<>> ELSE from, line)

\* When the check sum of a line is good.
Processed(c) == c = LF /\ Len(data') > 3 /\ crcCheck(data')

LEMMA HandleCases ==
    ASSUME NEW c, HandleRx(c)
    PROVE  /\ \/ Full /\ Emptied
              \/ ~Full /\ Ignored(c) /\ Kept
              \/ ~Full /\ ~Ignored(c) /\ Taken(c)
           /\ \/ NothingProcessed
              \/ ~Full /\ ~Ignored(c) /\ Processed(c) /\ ParseRx(data') /\ ProcessRx(data')
BY DEF HandleRx, Emptied, Kept, Taken, Processed

LEMMA BufferStep ==
    ASSUME BufferTyped, line \in 1 .. MaxLine, NEW c \in Chars, HandleRx(c)
    PROVE  BufferTyped'
<1>1. Len(data) \in Nat /\ SL868V2_MAX_MSG_LEN \in Nat /\ SL868V2_MAX_MSG_LEN > 4
  BY SizeAssumption DEF BufferTyped
<1>2. CASE Emptied
  BY <1>1, <1>2 DEF Emptied, BufferTyped
<1>3. CASE Kept
  BY <1>3 DEF Kept, BufferTyped
<1>4. CASE ~Full /\ Taken(c)
  <2>1. PICK d, f : /\ d = IF c = Dollar THEN <<>> ELSE data
                    /\ f = IF c = Dollar THEN <<>> ELSE from
    OBVIOUS
  <2>2. /\ d \in Seq(Chars) /\ f \in Seq(1 .. MaxLine)
        /\ Len(f) = Len(d) /\ Len(d) < SL868V2_MAX_MSG_LEN - 2
    <3>1. Len(data) < SL868V2_MAX_MSG_LEN - 2
      BY <1>1, <1>4 DEF Full
    <3>2. CASE c = Dollar
      <4>1. d = <<>> /\ f = <<>>
        BY <2>1, <3>2
      <4>2. Len(d) = 0 /\ 0 < SL868V2_MAX_MSG_LEN - 2
        BY <1>1, <4>1
      <4>3. QED
        BY <4>1, <4>2
    <3>3. CASE c # Dollar
      BY <2>1, <3>1, <3>3 DEF BufferTyped
    <3>4. QED
      BY <3>2, <3>3
  <2>3. data' = Append(d, c) /\ from' = Append(f, line)
    BY <1>4, <2>1 DEF Taken
  <2>4. data' \in Seq(Chars) /\ Len(data') = Len(d) + 1
    BY <2>2, <2>3, AppendProperties
  <2>5. from' \in Seq(1 .. MaxLine) /\ Len(from') = Len(f) + 1
    BY <2>2, <2>3, AppendProperties
  <2>6. Len(data') <= SL868V2_MAX_MSG_LEN - 2
    BY <1>1, <2>2, <2>4
  <2>7. QED
    BY <2>2, <2>4, <2>5, <2>6 DEF BufferTyped
<1>5. QED
  BY <1>2, <1>3, <1>4, HandleCases

LEMMA ParserStep ==
    ASSUME BufferTyped, BufferTyped', ParserTyped, NEW c \in Chars, HandleRx(c)
    PROVE  ParserTyped'
<1>1. CASE NothingProcessed
  BY <1>1 DEF NothingProcessed, ParserTyped
<1>2. CASE ParseRx(data') /\ ProcessRx(data')
  <2> DEFINE d == data'
             start == IF TalkerType(d) = "STD_NMEA" THEN StdHeader + 2 ELSE MtkHeader + 2
             star == FirstStar(d, start)
             two  == FirstStar(d, 2)
  <2>1. /\ d \in Seq(Chars) /\ from' \in Seq(1 .. MaxLine) /\ Len(from') = Len(d)
        /\ Len(d) <= SL868V2_MAX_MSG_LEN - 2 /\ SL868V2_MAX_MSG_LEN \in Nat /\ Len(d) \in Nat
    BY SizeAssumption DEF BufferTyped
  <2>2. start \in Nat \ {0}
    BY HeaderAssumption
  <2>3. /\ messageType' = IF TalkerType(d) = "NULL" THEN messageType ELSE TalkerType(d)
        /\ dataLength' = IF TalkerType(d) # "NULL" /\ star <= Len(d)
                         THEN star - start ELSE dataLength
        /\ overread' = (overread \/ (TalkerType(d) = "MTK_NMEA" /\ star > Len(d)))
        /\ accepted' = IF two <= Len(d) THEN from'[two] ELSE 0
    BY <1>2, Zenon DEF ParseRx, ProcessRx
  <2> HIDE DEF d, start
  <2>4. star \in start .. Len(d) + start /\ two \in 2 .. Len(d) + 2
    BY <2>1, <2>2, StarFound, 2 \in Nat \ {0}
  <2> HIDE DEF star, two
  <2>5. messageType' \in {"STD_NMEA", "MTK_NMEA"}
    BY <2>3 DEF ParserTyped, TalkerType
  <2>6. dataLength' \in 0 .. SL868V2_MAX_MSG_LEN
    <3>1. CASE star <= Len(d)
      <4>1. star - start \in 0 .. SL868V2_MAX_MSG_LEN
        BY <2>1, <2>2, <2>4, <3>1
      <4>2. QED
        BY <2>3, <4>1 DEF ParserTyped
    <3>2. CASE ~(star <= Len(d))
      BY <2>3, <3>2 DEF ParserTyped
    <3>3. QED
      BY <3>1, <3>2
  <2>7. overread' \in BOOLEAN
    BY <2>3
  <2>8. accepted' \in 0 .. MaxLine
    <3>1. CASE two <= Len(d)
      <4>1. two \in 1 .. Len(from')
        BY <2>1, <2>4, <3>1
      <4>2. from'[two] \in 1 .. MaxLine
        BY <2>1, <4>1, ElementOfSeq
      <4>3. QED
        BY <2>3, <3>1, <4>2, LineAssumption
    <3>2. CASE ~(two <= Len(d))
      BY <2>3, <3>2, LineAssumption
    <3>3. QED
      BY <3>1, <3>2
  <2>9. QED
    BY <2>5, <2>6, <2>7, <2>8 DEF ParserTyped
<1>3. QED
  BY <1>1, <1>2, HandleCases

\* The receiver goes on within a line, or begins the next one.
LEMMA AdvanceTyped ==
    ASSUME LineTyped, Advance
    PROVE  /\ line' \in 1 .. MaxLine
           /\ sentence' \in Sentences
           /\ pos' \in 1 .. Len(Line(sentence'))
<1>1. ASSUME NEW s \in Sentences PROVE Len(Line(s)) \in Nat \ {0}
  BY SentenceFits, CharsOfLine
<1>2. CASE EndOfLine
  <2>1. line < MaxLine /\ line' = line + 1 /\ sentence' \in Sentences /\ pos' = 1
    BY <1>2 DEF Advance
  <2>2. Len(Line(sentence')) \in Nat \ {0}
    BY <1>1, <2>1
  <2>3. line' \in 1 .. MaxLine
    BY <2>1, LineAssumption DEF LineTyped
  <2>4. QED
    BY <2>1, <2>2, <2>3
<1>3. CASE ~EndOfLine
  <2>1. pos' = pos + 1 /\ line' = line /\ sentence' = sentence /\ pos # Len(Line(sentence))
    BY <1>3 DEF Advance, EndOfLine
  <2>2. pos \in 1 .. Len(Line(sentence)) /\ Len(Line(sentence)) \in Nat
    BY <1>1 DEF LineTyped
  <2>3. pos + 1 \in 1 .. Len(Line(sentence))
    BY <2>1, <2>2
  <2>4. QED
    BY <2>1, <2>3 DEF LineTyped
<1>4. QED
  BY <1>2, <1>3

LEMMA NmeaTypeInit == NmeaInit => NmeaTypeOK
<1> SUFFICES ASSUME NmeaInit PROVE NmeaTypeOK
  OBVIOUS
<1>1. /\ SL868V2_MAX_MSG_LEN \in Nat /\ SL868V2_MAX_MSG_LEN > 4
      /\ MaxLine \in Nat \ {0} /\ MaxFaults \in Nat
  BY SizeAssumption, LineAssumption, FaultAssumption
<1>2. BufferTyped
  <2>1. data = <<>> /\ from = <<>>
    BY DEF NmeaInit
  <2>2. Len(data) = 0 /\ Len(from) = 0 /\ 0 <= SL868V2_MAX_MSG_LEN - 2
    BY <1>1, <2>1
  <2>3. QED
    BY <2>1, <2>2 DEF BufferTyped
<1>3. ParserTyped
  <2>1. messageType = "STD_NMEA" /\ dataLength = 0 /\ overread = FALSE /\ accepted = 0
    BY DEF NmeaInit
  <2>2. 0 \in 0 .. SL868V2_MAX_MSG_LEN /\ 0 \in 0 .. MaxLine
    BY <1>1
  <2>3. QED
    BY <2>1, <2>2 DEF ParserTyped
<1>4. LineTyped
  <2>1. /\ line = 1 /\ sentence \in Sentences /\ pos = 1 /\ faults = 0 /\ room = TRUE
    BY DEF NmeaInit
  <2>2. Len(Line(sentence)) = Len(sentence) + 6 /\ Len(sentence) \in Nat
    BY <2>1, CharsOfLine, SentenceFits
  <2>3. pos \in 1 .. Len(Line(sentence))
    BY <2>1, <2>2
  <2>4. QED
    BY <1>1, <2>1, <2>3 DEF LineTyped
<1>5. QED
  BY <1>2, <1>3, <1>4, NmeaTypes

LEMMA NmeaTypeStep == NmeaTypeOK /\ [NmeaNext]_nmeaVars => NmeaTypeOK'
<1> SUFFICES ASSUME NmeaTypeOK, [NmeaNext]_nmeaVars PROVE NmeaTypeOK'
  OBVIOUS
<1>1. BufferTyped /\ ParserTyped /\ LineTyped
  BY NmeaTypes
<1>2. Current \in Chars /\ line \in 1 .. MaxLine
  BY <1>1, LineIsClean DEF LineTyped, Current
<1>3. ASSUME HandleRx(Current) PROVE BufferTyped' /\ ParserTyped'
  BY <1>1, <1>2, <1>3, BufferStep, ParserStep
<1>4. CASE Deliver
  <2>1. Advance /\ HandleRx(Current)
    BY <1>4 DEF Deliver
  <2>2. room' \in BOOLEAN
    BY <1>1, <1>4 DEF Deliver, LineTyped, Full
  <2>3. faults' \in 0 .. MaxFaults
    BY <1>1, <1>4, FaultAssumption DEF Deliver, LineTyped
  <2>4. LineTyped'
    BY <1>1, <2>1, <2>2, <2>3, AdvanceTyped DEF LineTyped
  <2>5. QED
    BY <1>3, <2>1, <2>4, NmeaTypes, PTL
<1>5. CASE LoseByte
  <2>1. Advance /\ faults < MaxFaults /\ UNCHANGED <<data, from>> /\ NothingProcessed
    BY <1>5 DEF LoseByte
  <2>2. faults' \in 0 .. MaxFaults /\ room' \in BOOLEAN
    BY <1>1, <1>5, FaultAssumption DEF LoseByte, LineTyped
  <2>3. LineTyped'
    BY <1>1, <2>1, <2>2, AdvanceTyped DEF LineTyped
  <2>4. BufferTyped' /\ ParserTyped'
    BY <1>1, <2>1 DEF NothingProcessed, BufferTyped, ParserTyped
  <2>5. QED
    BY <2>3, <2>4, NmeaTypes, PTL
<1>6. CASE DoubleByte
  <2>1. HandleRx(Current) /\ UNCHANGED <<line, sentence, pos, room>>
    BY <1>6 DEF DoubleByte
  <2>2. faults' \in 0 .. MaxFaults
    BY <1>1, <1>6, FaultAssumption DEF DoubleByte, LineTyped
  <2>3. LineTyped'
    BY <1>1, <2>1, <2>2 DEF LineTyped
  <2>4. QED
    BY <1>3, <2>1, <2>3, NmeaTypes, PTL
<1>7. CASE UNCHANGED nmeaVars
  BY <1>7 DEF nmeaVars, NmeaTypeOK
<1>8. QED
  BY <1>4, <1>5, <1>6, <1>7 DEF NmeaNext

\* The line buffer, whatever the receiver sends and the UART does to it, keeps
\* room for its terminator (sl868v2HandleRx), and the length that is noted of a
\* sentence fits it.
THEOREM NmeaTypeCorrect == NmeaSpec => []NmeaTypeOK
BY NmeaTypeInit, NmeaTypeStep, PTL DEF NmeaSpec

-----------------------------------------------------------------------------
(* A whole line.                                                           *)

\* As long as no byte of the line got lost or came twice, the buffer holds what
\* was sent of it, from its $ on.
WholeSoFar ==
    faults = 0 /\ room /\ pos > 1 =>
        /\ Len(data) = pos - 1
        /\ \A i \in 1 .. pos - 1 : data[i] = Line(sentence)[i] /\ from[i] = line

LEMMA DeliverAppends ==
    ASSUME NmeaTypeOK, WholeSoFar, Deliver, faults = 0, room'
    PROVE  /\ Len(data') = pos
           /\ \A i \in 1 .. pos : data'[i] = Line(sentence)[i] /\ from'[i] = line
           /\ pos > 1 => ~Full /\ ~Ignored(Current)
<1>1. BufferTyped /\ LineTyped
  BY NmeaTypes
<1>2. /\ Current \in Chars /\ ~Ignored(Current)
      /\ Current = Dollar <=> pos = 1
  BY <1>1, LineIsClean, CharsOfLine DEF LineTyped, Current
<1>3. /\ pos \in Nat \ {0} /\ Len(sentence) \in Nat
      /\ pos <= Len(sentence) + 6
      /\ Len(sentence) + 8 <= SL868V2_MAX_MSG_LEN
      /\ SL868V2_MAX_MSG_LEN \in Nat
  BY <1>1, SentenceFits, CharsOfLine, SizeAssumption DEF LineTyped
<1>4. ~Full
  <2>1. CASE pos = 1
    BY <2>1 DEF Deliver
  <2>2. CASE pos # 1
    <3>1. room /\ pos > 1
      BY <1>3, <2>2 DEF Deliver
    <3>2. Len(data) = pos - 1
      BY <3>1 DEF WholeSoFar
    <3>3. QED
      BY <1>3, <3>2 DEF Full
  <2>3. QED
    BY <2>1, <2>2
<1>5. Taken(Current)
  BY <1>2, <1>4, HandleCases DEF Deliver
<1> DEFINE n == pos - 1
<1>6. PICK d, f : /\ d = IF Current = Dollar THEN <<>> ELSE data
                  /\ f = IF Current = Dollar THEN <<>> ELSE from
  OBVIOUS
<1>7. /\ d \in Seq(Chars) /\ f \in Seq(1 .. MaxLine)
      /\ Len(d) = n /\ Len(f) = n
      /\ \A i \in 1 .. n : d[i] = Line(sentence)[i] /\ f[i] = line
  <2>1. CASE pos = 1
    <3>1. d = <<>> /\ f = <<>>
      BY <1>2, <1>6, <2>1
    <3>2. n = 0 /\ 1 .. n = {}
      BY <2>1
    <3>3. QED
      BY <3>1, <3>2
  <2>2. CASE pos # 1
    <3>1. d = data /\ f = from
      BY <1>2, <1>6, <2>2
    <3>2. room /\ pos > 1
      BY <1>3, <2>2 DEF Deliver
    <3>3. QED
      BY <1>1, <3>1, <3>2 DEF WholeSoFar, BufferTyped
  <2>3. QED
    BY <2>1, <2>2
<1>8. data' = Append(d, Current) /\ from' = Append(f, line)
  BY <1>5, <1>6 DEF Taken
<1>9. n \in Nat /\ n + 1 = pos
  BY <1>3
<1> HIDE DEF n
<1>10. /\ Len(data') = n + 1
       /\ \A i \in 1 .. n : data'[i] = d[i]
       /\ data'[n + 1] = Current
  BY <1>2, <1>7, <1>8, AppendProperties
<1>11. /\ \A i \in 1 .. n : from'[i] = f[i]
       /\ from'[n + 1] = line
  BY <1>1, <1>7, <1>8, AppendProperties DEF LineTyped
<1>12. ASSUME NEW i \in 1 .. pos PROVE data'[i] = Line(sentence)[i] /\ from'[i] = line
  <2>1. CASE i = pos
    BY <2>1, <1>9, <1>10, <1>11 DEF Current
  <2>2. CASE i # pos
    <3>1. i \in 1 .. n
      BY <1>9, <2>2
    <3>2. QED
      BY <3>1, <1>7, <1>10, <1>11
  <2>3. QED
    BY <2>1, <2>2
<1>13. QED
  BY <1>2, <1>4, <1>9, <1>10, <1>12

LEMMA WholeStep == NmeaTypeOK /\ WholeSoFar /\ [NmeaNext]_nmeaVars => WholeSoFar'
<1> SUFFICES ASSUME NmeaTypeOK, WholeSoFar, [NmeaNext]_nmeaVars,
                    faults' = 0, room', pos' > 1
             PROVE  /\ Len(data') = pos' - 1
                    /\ \A i \in 1 .. pos' - 1 :
                         data'[i] = Line(sentence')[i] /\ from'[i] = line'
  BY DEF WholeSoFar
<1>1. faults \in Nat /\ pos \in Nat
  BY FaultAssumption, SentenceFits, CharsOfLine DEF NmeaTypeOK
<1>2. Deliver \/ LoseByte => ~EndOfLine /\ pos' = pos + 1 /\ line' = line /\ sentence' = sentence
  <2>1. Deliver \/ LoseByte => Advance
    BY DEF Deliver, LoseByte
  <2>2. ~(pos' = 1)
    OBVIOUS
  <2>3. Advance => ~EndOfLine
    BY <2>2 DEF Advance
  <2>4. Advance /\ ~EndOfLine => pos' = pos + 1 /\ line' = line /\ sentence' = sentence
    BY DEF Advance
  <2>5. QED
    BY <2>1, <2>3, <2>4
<1>3. CASE Deliver
  <2>1. faults = 0
    BY <1>2, <1>3 DEF Deliver
  <2>2. pos' - 1 = pos
    BY <1>1, <1>2, <1>3
  <2>3. QED
    BY <1>2, <1>3, <2>1, <2>2, DeliverAppends
<1>4. CASE LoseByte
  <2>1. faults' = faults + 1
    BY <1>2, <1>4 DEF LoseByte
  <2>2. QED
    BY <1>1, <2>1
<1>5. CASE DoubleByte
  <2>1. faults' = faults + 1
    BY <1>5 DEF DoubleByte
  <2>2. QED
    BY <1>1, <2>1
<1>6. CASE UNCHANGED nmeaVars
  BY <1>6 DEF nmeaVars, WholeSoFar
<1>7. QED
  BY <1>3, <1>4, <1>5, <1>6 DEF NmeaNext

LEMMA NmeaInvariance == NmeaSpec => [](NmeaTypeOK /\ WholeSoFar)
<1>1. NmeaInit => WholeSoFar
  BY DEF NmeaInit, WholeSoFar
<1>2. QED
  BY <1>1, NmeaTypeInit, NmeaTypeStep, WholeStep, PTL DEF NmeaSpec

\* What the parser makes of a whole line that has passed its check.
LEMMA WholeLineParsed ==
    ASSUME NEW s \in Sentences, data' = Line(s), from'[Len(s) + 2] = line,
           ParseRx(data'), ProcessRx(data')
    PROVE  accepted' = line /\ (s[1] = G => position' = s)
<1> DEFINE d == Line(s)
<1>1. /\ Len(s) \in Nat \ {0} /\ Len(d) = Len(s) + 6 /\ StdHeader \in Nat \ {0}
      /\ FirstStar(d, 2) = Len(s) + 2 /\ At(d, 2) = s[1]
  BY HeaderAssumption, SentenceFits, CharsOfLine, LineChecks
<1>2. accepted' = line
  <2>1. accepted' = IF FirstStar(d, 2) <= Len(d) THEN from'[FirstStar(d, 2)] ELSE 0
    BY DEF ProcessRx
  <2>2. FirstStar(d, 2) <= Len(d)
    BY <1>1
  <2>3. QED
    BY <1>1, <2>1, <2>2
<1>3. ASSUME s[1] = G PROVE position' = s
  <2>1. TalkerType(d) = "STD_NMEA"
    <3>1. At(d, 2) = G /\ At(d, 2) # P
      BY <1>1, <1>3, SpecialTalkers
    <3>2. QED
      BY <3>1 DEF TalkerType
  <2>2. StdHeader + 2 \in 2 .. Len(s) + 2
    BY <1>1, <1>3, SentenceFits
  <2>3. FirstStar(d, StdHeader + 2) = Len(s) + 2
    BY <2>2, LineSays, StarBehind
  <2>4. Len(s) + 2 <= Len(d)
    BY <1>1
  <2>5. /\ messageType' = "STD_NMEA"
        /\ dataLength' = (Len(s) + 2) - (StdHeader + 2)
    BY <2>1, <2>3, <2>4 DEF ParseRx
  <2>6. position' = SubSeq(d, 2, StdHeader + 1 + dataLength')
    BY <1>1, <1>3, <2>5 DEF ProcessRx
  <2>7. StdHeader + 1 + dataLength' = Len(s) + 1
    BY <1>1, <2>5
  <2>8. QED
    BY <2>6, <2>7, LineSays, SentenceSaid
<1>4. QED
  BY <1>2, <1>3

\* A line no byte of which got lost or came twice is processed at its line
\* feed (sl868v2HandleRx, sl868v2ProcessRx), and the position that is taken over
\* from it is the one it says, whatever the lines before it have left in the
\* buffer: for every length of the buffer and all sentences that fit it.
THEOREM WholeLines == NmeaSpec => WholeLineProcessed
<1> DEFINE Taking == Deliver /\ EndOfLine /\ faults = 0 /\ room
                       => accepted' = line /\ (sentence[1] = G => position' = sentence)
<1>1. NmeaTypeOK /\ WholeSoFar /\ [NmeaNext]_nmeaVars => [Taking]_nmeaVars
  <2> SUFFICES ASSUME NmeaTypeOK, WholeSoFar, Deliver, EndOfLine, faults = 0, room
               PROVE  accepted' = line /\ (sentence[1] = G => position' = sentence)
    OBVIOUS
  <2>1. /\ sentence \in Sentences
        /\ Len(sentence) \in Nat \ {0}
        /\ Line(sentence) \in Seq(Chars)
        /\ Len(Line(sentence)) = Len(sentence) + 6
        /\ pos = Len(sentence) + 6
    BY SentenceFits, CharsOfLine DEF NmeaTypeOK, EndOfLine
  <2>2. pos > 1 /\ room'
    BY <2>1 DEF Deliver
  <2>3. /\ Len(data') = pos
        /\ \A i \in 1 .. pos : data'[i] = Line(sentence)[i] /\ from'[i] = line
        /\ ~Full /\ ~Ignored(Current)
    BY <2>2, DeliverAppends
  <2>4. data' = Line(sentence)
    <3>1. data' \in Seq(Chars)
      BY NmeaTypeStep DEF NmeaNext, NmeaTypeOK
    <3>2. QED
      BY <2>1, <2>3, <3>1, SeqEqual
  <2>5. Current = LF
    BY <2>1, CharsOfLine DEF Current
  <2>6. Len(data') > 3 /\ crcCheck(data')
    BY <2>1, <2>4, LineChecks
  <2>7. ParseRx(data') /\ ProcessRx(data')
    BY <2>3, <2>5, <2>6 DEF Deliver, HandleRx
  <2>8. from'[Len(sentence) + 2] = line
    BY <2>1, <2>3
  <2>9. QED
    BY <2>1, <2>4, <2>7, <2>8, WholeLineParsed
<1>2. QED
  BY <1>1, NmeaInvariance, PTL DEF NmeaSpec, WholeLineProcessed

-----------------------------------------------------------------------------
(* A damaged line.                                                         *)

LEMMA XorOfChars ==
    ASSUME NEW a \in Chars, NEW b \in Chars
    PROVE  xor(a, b) \in Chars
BY DEF xor, Chars

LEMMA EmptySum == {} \in Chars
BY DEF Chars

\* g holds the sums of the first n characters of s, one by one.
Accumulates(g, s, n) ==
    g = [i \in 0 .. n |-> IF i = 0 THEN {} ELSE xor(g[i - 1], s[i])]

Summable(s) ==
    {n \in 0 .. Len(s) : \E g \in [0 .. n -> Chars] : Accumulates(g, s, n)}

LEMMA SummableStep ==
    ASSUME NEW s \in Seq(Chars), NEW n \in Nat, n + 1 <= Len(s), n \in Summable(s)
    PROVE  n + 1 \in Summable(s)
<1>1. PICK g \in [0 .. n -> Chars] : Accumulates(g, s, n)
  BY DEF Summable
<1>2. s[n + 1] \in Chars
  <2>1. n + 1 \in 1 .. Len(s)
    OBVIOUS
  <2>2. QED
    BY <2>1, ElementOfSeq
<1>3. xor(g[n], s[n + 1]) \in Chars
  BY <1>2, XorOfChars
<1> DEFINE h == [i \in 0 .. n + 1 |-> IF i = n + 1 THEN xor(g[n], s[n + 1]) ELSE g[i]]
<1>4. h \in [0 .. n + 1 -> Chars]
  <2>1. ASSUME NEW i \in 0 .. n + 1, i # n + 1 PROVE g[i] \in Chars
    BY <2>1
  <2>2. QED
    BY <1>3, <2>1
<1>5. \A i \in 0 .. n + 1 : h[i] = IF i = 0 THEN {} ELSE xor(h[i - 1], s[i])
  <2> SUFFICES ASSUME NEW i \in 0 .. n + 1
               PROVE  h[i] = IF i = 0 THEN {} ELSE xor(h[i - 1], s[i])
    OBVIOUS
  <2>1. CASE i = n + 1
    <3>1. i # 0 /\ i - 1 = n /\ n \in 0 .. n + 1 /\ n # n + 1 /\ n + 1 \in 0 .. n + 1
      BY <2>1
    <3>2. h[i] = xor(g[n], s[n + 1]) /\ h[i - 1] = g[n]
      BY <2>1, <3>1
    <3>3. QED
      BY <2>1, <3>1, <3>2
  <2>2. CASE i # n + 1
    <3>1. i \in 0 .. n /\ h[i] = g[i] /\ (i # 0 => i - 1 \in 0 .. n /\ h[i - 1] = g[i - 1])
      BY <2>2
    <3>2. g[i] = IF i = 0 THEN {} ELSE xor(g[i - 1], s[i])
      BY <1>1, <3>1, Zenon DEF Accumulates
    <3>3. QED
      BY <3>1, <3>2
  <2>3. QED
    BY <2>1, <2>2
<1>6. Accumulates(h, s, n + 1)
  <2> HIDE DEF h
  <2>1. QED
    BY <1>4, <1>5 DEF Accumulates
<1>7. n + 1 \in 0 .. Len(s)
  OBVIOUS
<1>8. QED
  <2> HIDE DEF h
  <2>1. QED
    BY <1>4, <1>6, <1>7 DEF Summable

\* The recursion of Checksum comes to an end, and its sums are characters.
LEMMA SumsOf ==
    ASSUME NEW s \in Seq(Chars)
    PROVE  \E g \in [0 .. Len(s) -> Chars] :
              /\ g[0] = {}
              /\ \A n \in 1 .. Len(s) : g[n] = xor(g[n - 1], s[n])
              /\ Checksum(s) = g[Len(s)]
<1>1. Len(s) \in Nat
  OBVIOUS
<1>2. 0 \in Summable(s)
  <2> DEFINE g == [i \in 0 .. 0 |-> {}]
  <2>1. g \in [0 .. 0 -> Chars]
    BY EmptySum
  <2>2. Accumulates(g, s, 0)
    BY DEF Accumulates
  <2>3. 0 \in 0 .. Len(s)
    BY <1>1
  <2> HIDE DEF g
  <2>4. QED
    BY <2>1, <2>2, <2>3 DEF Summable
<1>3. Len(s) \in Summable(s)
  <2> SUFFICES ASSUME Len(s) \notin Summable(s) PROVE FALSE
    OBVIOUS
  <2> DEFINE T == (0 .. Len(s)) \ Summable(s)
  <2>1. T \in SUBSET Nat /\ Len(s) \in T
    BY <1>1
  <2>2. PICK n \in T : \A m \in T : n <= m
    BY <2>1, LeastNumber
  <2>3. n \in 0 .. Len(s) /\ n # 0 /\ n \notin Summable(s)
    BY <1>2
  <2>4. n - 1 \in Nat /\ n - 1 \in 0 .. Len(s) /\ n - 1 < n /\ (n - 1) + 1 = n
    BY <1>1, <2>3
  <2>5. n - 1 \in Summable(s)
    BY <2>2, <2>4
  <2>6. QED
    BY <2>3, <2>4, <2>5, SummableStep
<1>4. PICK g \in [0 .. Len(s) -> Chars] : Accumulates(g, s, Len(s))
  BY <1>3 DEF Summable
<1> DEFINE sum == CHOOSE f : Accumulates(f, s, Len(s))
<1>5. Accumulates(sum, s, Len(s))
  BY <1>4
<1>6. Checksum(s) = sum[Len(s)]
  BY DEF Checksum, Accumulates
<1> HIDE DEF sum
<1>7. /\ \A n \in 0 .. Len(s) : sum[n] = IF n = 0 THEN {} ELSE xor(sum[n - 1], s[n])
      /\ sum = [n \in 0 .. Len(s) |-> sum[n]]
  BY <1>5, Zenon DEF Accumulates
<1>8. \A n \in 0 .. Len(s) : sum[n] \in Chars
  <2> SUFFICES ASSUME NEW k \in 0 .. Len(s), sum[k] \notin Chars PROVE FALSE
    OBVIOUS
  <2> DEFINE T == {n \in 0 .. Len(s) : sum[n] \notin Chars}
  <2>1. T \in SUBSET Nat /\ T # {}
    BY <1>1
  <2>2. PICK n \in T : \A m \in T : n <= m
    BY <2>1, LeastNumber
  <2>3. n \in 0 .. Len(s) /\ sum[n] \notin Chars
    OBVIOUS
  <2>4. n # 0
    BY <1>7, <2>3, EmptySum
  <2>5. n - 1 \in 0 .. Len(s) /\ n - 1 < n /\ n \in 1 .. Len(s)
    BY <1>1, <2>3, <2>4
  <2>6. sum[n - 1] \in Chars
    BY <2>2, <2>5
  <2>7. s[n] \in Chars
    BY <2>5, ElementOfSeq
  <2>8. QED
    BY <1>7, <2>3, <2>4, <2>6, <2>7, XorOfChars
<1>9. sum \in [0 .. Len(s) -> Chars]
  BY <1>7, <1>8
<1>10. sum[0] = {} /\ \A n \in 1 .. Len(s) : sum[n] = xor(sum[n - 1], s[n])
  BY <1>1, <1>7
<1>11. QED
  BY <1>6, <1>9, <1>10

\* One character less changes the sum.
LEMMA SumWithout ==
    ASSUME NEW u \in Seq(Printable), NEW i \in 1 .. Len(u),
           NEW t \in Seq(Chars), Len(t) = Len(u) - 1,
           \A j \in 1 .. Len(t) : t[j] = u[IF j < i THEN j ELSE j + 1]
    PROVE  Checksum(t) # Checksum(u) /\ Checksum(t) \in Chars /\ Checksum(u) \in Chars
<1>1. Len(u) \in Nat /\ Len(t) \in Nat /\ u \in Seq(Chars)
  BY DEF Printable
<1>2. PICK g \in [0 .. Len(u) -> Chars] :
          /\ g[0] = {}
          /\ \A n \in 1 .. Len(u) : g[n] = xor(g[n - 1], u[n])
          /\ Checksum(u) = g[Len(u)]
  BY <1>1, SumsOf
<1>3. PICK h \in [0 .. Len(t) -> Chars] :
          /\ h[0] = {}
          /\ \A n \in 1 .. Len(t) : h[n] = xor(h[n - 1], t[n])
          /\ Checksum(t) = h[Len(t)]
  BY SumsOf
<1> DEFINE c == u[i]
           Agree(n) == IF n < i THEN h[n] = g[n] ELSE h[n] = xor(g[n + 1], c)
<1>4. c \in Chars /\ c # {}
  <2>1. c \in Printable
    OBVIOUS
  <2>2. Ignored({})
    BY DEF Ignored, LF, CR
  <2>3. QED
    BY <2>1, <2>2, PrintableChar
<1> HIDE DEF c
<1>5. ASSUME NEW a, NEW b PROVE xor(xor(a, b), b) = a /\ xor(xor(a, c), b) = xor(xor(a, b), c)
  BY DEF xor
<1>6. \A n \in 0 .. Len(t) : Agree(n)
  <2> SUFFICES ASSUME NEW k \in 0 .. Len(t), ~Agree(k) PROVE FALSE
    OBVIOUS
  <2> DEFINE T == {n \in 0 .. Len(t) : ~Agree(n)}
  <2>0. Agree(0)
    <3>1. 0 < i
      BY <1>1
    <3>2. h[0] = g[0]
      BY <1>2, <1>3
    <3>3. QED
      BY <3>1, <3>2
  <2>1. T \in SUBSET Nat /\ T # {}
    <3> HIDE DEF Agree
    <3>1. QED
      BY <1>1
  <2>2. PICK n \in T : \A m \in T : n <= m
    BY <2>1, LeastNumber
  <2>3. n \in 0 .. Len(t) /\ ~Agree(n)
    OBVIOUS
  <2>4. n # 0
    <3> HIDE DEF Agree
    <3>1. QED
      BY <2>0, <2>3
  <2>5. n - 1 \in 0 .. Len(t) /\ n - 1 < n /\ n \in 1 .. Len(t) /\ (n - 1) + 1 = n
    BY <1>1, <2>3, <2>4
  <2>6. Agree(n - 1)
    BY <2>2, <2>5
  <2>7. h[n] = xor(h[n - 1], t[n])
    BY <1>3, <2>5
  <2>8. CASE n < i
    <3>1. n - 1 < i /\ n \in 1 .. Len(u)
      BY <1>1, <2>5, <2>8
    <3>2. h[n - 1] = g[n - 1] /\ t[n] = u[n] /\ g[n] = xor(g[n - 1], u[n])
      BY <1>2, <2>5, <2>6, <2>8, <3>1
    <3>3. QED
      BY <2>3, <2>7, <2>8, <3>2
  <2>9. CASE n = i
    <3>1. n - 1 < i /\ ~(n < i) /\ n \in 1 .. Len(u) /\ n + 1 \in 1 .. Len(u) /\ (n + 1) - 1 = n
      BY <1>1, <2>5, <2>9
    <3>2. h[n - 1] = g[n - 1] /\ t[n] = u[n + 1]
      BY <2>5, <2>6, <3>1
    <3>3. g[n] = xor(g[n - 1], c) /\ g[n + 1] = xor(g[n], u[n + 1])
      BY <1>2, <2>9, <3>1 DEF c
    <3>4. xor(g[n + 1], c) = xor(xor(xor(g[n - 1], c), c), u[n + 1])
      BY <1>5, <3>3
    <3>5. xor(g[n + 1], c) = h[n]
      BY <1>5, <2>7, <3>2, <3>4
    <3>6. QED
      BY <2>3, <3>1, <3>5
  <2>10. CASE n > i
    <3>1. ~(n - 1 < i) /\ ~(n < i) /\ n + 1 \in 1 .. Len(u) /\ (n + 1) - 1 = n
      BY <1>1, <2>5, <2>10
    <3>2. h[n - 1] = xor(g[n], c) /\ t[n] = u[n + 1]
      BY <2>5, <2>6, <3>1
    <3>3. g[n + 1] = xor(g[n], u[n + 1])
      BY <1>2, <3>1
    <3>4. h[n] = xor(g[n + 1], c)
      BY <1>5, <2>7, <3>2, <3>3
    <3>5. QED
      BY <2>3, <3>1, <3>4
  <2>11. QED
    BY <1>1, <2>5, <2>8, <2>9, <2>10
<1>7. Checksum(t) = xor(Checksum(u), c)
  <2>1. CASE i = Len(u)
    <3>1. Len(t) < i /\ Len(t) \in 0 .. Len(t) /\ Len(u) - 1 = Len(t) /\ Len(u) \in 1 .. Len(u)
      BY <1>1, <2>1
    <3>2. h[Len(t)] = g[Len(t)]
      BY <1>6, <3>1
    <3>3. g[Len(u)] = xor(g[Len(t)], c)
      BY <1>2, <2>1, <3>1 DEF c
    <3>4. QED
      BY <1>2, <1>3, <1>5, <3>2, <3>3
  <2>2. CASE i # Len(u)
    <3>1. ~(Len(t) < i) /\ Len(t) \in 0 .. Len(t) /\ Len(t) + 1 = Len(u)
      BY <1>1, <2>2
    <3>2. h[Len(t)] = xor(g[Len(u)], c)
      BY <1>6, <3>1
    <3>3. QED
      BY <1>2, <1>3, <3>2
  <2>3. QED
    BY <2>1, <2>2
<1>8. ASSUME NEW a PROVE xor(a, c) # a
  BY <1>4 DEF xor
<1>9. Checksum(u) \in Chars /\ Checksum(t) \in Chars
  <2>1. Len(u) \in 0 .. Len(u) /\ Len(t) \in 0 .. Len(t)
    BY <1>1
  <2>2. g[Len(u)] \in Chars /\ h[Len(t)] \in Chars
    BY <2>1
  <2>3. QED
    BY <1>2, <1>3, <2>2
<1>10. QED
  BY <1>7, <1>8, <1>9

\* The digits that are printed tell two sums apart.
LEMMA DigitValue ==
    ASSUME NEW n \in SUBSET (0 .. 3), NEW d, d = Digit(n)
    PROVE  \/ 6 \notin d /\ n = d \ {4, 5}
           \/ 6 \in d /\ 0 \in d /\ 1 \notin d /\ 2 \notin d /\ n = {1, 3}
           \/ 6 \in d /\ 0 \notin d /\ 1 \in d /\ 2 \notin d /\ n = {0, 1, 3}
           \/ 6 \in d /\ 0 \in d /\ 1 \in d /\ 2 \notin d /\ n = {2, 3}
           \/ 6 \in d /\ 0 \notin d /\ 1 \notin d /\ 2 \in d /\ n = {0, 2, 3}
           \/ 6 \in d /\ 0 \in d /\ 1 \notin d /\ 2 \in d /\ n = {1, 2, 3}
           \/ 6 \in d /\ 0 \notin d /\ 1 \in d /\ 2 \in d /\ n = {0, 1, 2, 3}
<1>1. \/ n = {1, 3} /\ d = {0, 6}
      \/ n = {0, 1, 3} /\ d = {1, 6}
      \/ n = {2, 3} /\ d = {0, 1, 6}
      \/ n = {0, 2, 3} /\ d = {2, 6}
      \/ n = {1, 2, 3} /\ d = {0, 2, 6}
      \/ n = {0, 1, 2, 3} /\ d = {1, 2, 6}
      \/ d = n \cup {4, 5}
  BY DEF Digit
<1>2. CASE d = n \cup {4, 5}
  <2>1. 6 \notin d /\ n = d \ {4, 5}
    BY <1>2
  <2>2. QED
    BY <2>1
<1>3. CASE n = {1, 3} /\ d = {0, 6}
  BY <1>3
<1>4. CASE n = {0, 1, 3} /\ d = {1, 6}
  BY <1>4
<1>5. CASE n = {2, 3} /\ d = {0, 1, 6}
  BY <1>5
<1>6. CASE n = {0, 2, 3} /\ d = {2, 6}
  BY <1>6
<1>7. CASE n = {1, 2, 3} /\ d = {0, 2, 6}
  BY <1>7
<1>8. CASE n = {0, 1, 2, 3} /\ d = {1, 2, 6}
  BY <1>8
<1>9. QED
  BY <1>1, <1>2, <1>3, <1>4, <1>5, <1>6, <1>7, <1>8

LEMMA DigitsDiffer ==
    ASSUME NEW n \in SUBSET (0 .. 3), NEW m \in SUBSET (0 .. 3), Digit(n) = Digit(m)
    PROVE  n = m
<1>1. PICK d : d = Digit(n) /\ d = Digit(m)
  OBVIOUS
<1> DEFINE Value(k) ==
           \/ 6 \notin d /\ k = d \ {4, 5}
           \/ 6 \in d /\ 0 \in d /\ 1 \notin d /\ 2 \notin d /\ k = {1, 3}
           \/ 6 \in d /\ 0 \notin d /\ 1 \in d /\ 2 \notin d /\ k = {0, 1, 3}
           \/ 6 \in d /\ 0 \in d /\ 1 \in d /\ 2 \notin d /\ k = {2, 3}
           \/ 6 \in d /\ 0 \notin d /\ 1 \notin d /\ 2 \in d /\ k = {0, 2, 3}
           \/ 6 \in d /\ 0 \in d /\ 1 \notin d /\ 2 \in d /\ k = {1, 2, 3}
           \/ 6 \in d /\ 0 \notin d /\ 1 \in d /\ 2 \in d /\ k = {0, 1, 2, 3}
<1>2. Value(n)
  BY <1>1, DigitValue
<1>3. Value(m)
  BY <1>1, DigitValue
<1>4. QED
  BY <1>2, <1>3, Zenon

LEMMA SumsDiffer ==
    ASSUME NEW x \in Chars, NEW y \in Chars, High(x) = High(y), Low(x) = Low(y)
    PROVE  x = y
<1>1. {i \in 0 .. 3 : i + 4 \in x} = {i \in 0 .. 3 : i + 4 \in y}
  <2>1. /\ {i \in 0 .. 3 : i + 4 \in x} \in SUBSET (0 .. 3)
        /\ {i \in 0 .. 3 : i + 4 \in y} \in SUBSET (0 .. 3)
    OBVIOUS
  <2>2. QED
    BY <2>1, DigitsDiffer DEF High
<1>2. x \cap 0 .. 3 = y \cap 0 .. 3
  <2>1. x \cap 0 .. 3 \in SUBSET (0 .. 3) /\ y \cap 0 .. 3 \in SUBSET (0 .. 3)
    OBVIOUS
  <2>2. QED
    BY <2>1, DigitsDiffer DEF Low
<1>3. ASSUME NEW b \in 0 .. 6 PROVE b \in x <=> b \in y
  <2>1. CASE b \in 0 .. 3
    BY <1>2, <2>1
  <2>2. CASE b \notin 0 .. 3
    <3>1. PICK i \in 0 .. 3 : i + 4 = b
      <4>1. b - 4 \in 0 .. 3 /\ (b - 4) + 4 = b
        BY <2>2
      <4>2. QED
        BY <4>1
    <3>2. i + 4 \in x <=> i + 4 \in y
      BY <1>1
    <3>3. QED
      BY <3>1, <3>2
  <2>3. QED
    BY <2>1, <2>2
<1>4. x \subseteq 0 .. 6 /\ y \subseteq 0 .. 6
  BY DEF Chars, Bits
<1>5. QED
  BY <1>3, <1>4

\* A line d whose sentence t is not the one its digits were printed for.
LEMMA Misfit ==
    ASSUME NEW d \in Seq(Chars), NEW t \in Seq(Chars), NEW x \in Chars,
           Len(t) + 4 <= Len(d),
           \A j \in 1 .. Len(t) : d[j + 1] = t[j] /\ t[j] # Star,
           d[Len(t) + 2] = Star, d[Len(t) + 3] = High(x), d[Len(t) + 4] = Low(x),
           Checksum(t) \in Chars, Checksum(t) # x
    PROVE  ~crcCheck(d)
<1>1. Len(t) \in Nat /\ Len(d) \in Nat
  OBVIOUS
<1>2. FirstStar(d, 2) = Len(t) + 2
  <2>1. Len(t) + 2 \in 2 .. Len(d) /\ 2 \in Nat \ {0}
    BY <1>1
  <2>2. ASSUME NEW j \in 2 .. (Len(t) + 2) - 1 PROVE d[j] # Star
    <3>1. j - 1 \in 1 .. Len(t) /\ (j - 1) + 1 = j
      BY <1>1
    <3>2. QED
      BY <3>1
  <2>3. QED
    BY <2>1, <2>2, StarIs
<1> DEFINE b == SubSeq(d, 2, Len(t) + 1)
<1>3. Body(d) = b
  <2>1. (Len(t) + 2) - 1 = Len(t) + 1
    BY <1>1
  <2>2. QED
    BY <1>2, <2>1 DEF Body
<1>4. b = t
  <2>1. \A i \in 2 .. Len(t) + 1 : d[i] \in Chars
    BY <1>1, ElementOfSeq
  <2>2. /\ b \in Seq(Chars)
        /\ Len(b) = IF 2 <= Len(t) + 1 THEN (Len(t) + 1) - 2 + 1 ELSE 0
        /\ \A i \in 1 .. (Len(t) + 1) - 2 + 1 : b[i] = d[2 + i - 1]
    BY <1>1, <2>1, 2 \in Int, Len(t) + 1 \in Int, SubSeqProperties
  <2> HIDE DEF b
  <2>3. Len(b) = Len(t)
    BY <1>1, <2>2
  <2>4. ASSUME NEW i \in 1 .. Len(t) PROVE b[i] = t[i]
    <3>1. i \in 1 .. (Len(t) + 1) - 2 + 1 /\ 2 + i - 1 = i + 1
      BY <1>1
    <3>2. QED
      BY <2>2, <3>1
  <2>5. QED
    BY <2>2, <2>3, <2>4, SeqEqual
<1>5. /\ (Len(t) + 2) + 1 = Len(t) + 3 /\ (Len(t) + 2) + 2 = Len(t) + 4
      /\ Len(t) + 3 \in DOMAIN d /\ Len(t) + 4 \in DOMAIN d
  BY <1>1
<1>6. At(d, Len(t) + 3) = High(x) /\ At(d, Len(t) + 4) = Low(x)
  BY <1>5 DEF At
<1>7. crcCheck(d) => High(x) = High(Checksum(t)) /\ Low(x) = Low(Checksum(t))
  BY <1>2, <1>3, <1>4, <1>5, <1>6 DEF crcCheck
<1>8. QED
  BY <1>7, SumsDiffer

\* d without its character i, and with two of it.
Lost(d, i)    == [j \in 1 .. Len(d) - 1 |-> d[IF j < i THEN j ELSE j + 1]]
Doubled(d, i) == [j \in 1 .. Len(d) + 1 |-> d[IF j <= i THEN j ELSE j - 1]]

LEMMA SeqOfFunction ==
    ASSUME NEW S, NEW n \in Nat, NEW f \in [1 .. n -> S]
    PROVE  f \in Seq(S) /\ Len(f) = n
OBVIOUS

LEMMA LostLine ==
    ASSUME NEW s \in Sentences, NEW i \in 1 .. Len(s)
    PROVE  ~crcCheck(Lost(Line(s), i + 1))
<1> DEFINE l == Line(s)
           x == Checksum(s)
           t == [j \in 1 .. Len(s) - 1 |-> s[IF j < i THEN j ELSE j + 1]]
           d == [j \in 1 .. (Len(s) + 6) - 1 |-> l[IF j < i + 1 THEN j ELSE j + 1]]
<1>1. s \in Seq(Printable) /\ Len(s) \in Nat \ {0}
  BY SentenceFits
<1>2. /\ l \in Seq(Chars) /\ Len(l) = Len(s) + 6
      /\ \A j \in 1 .. Len(s) : l[j + 1] = s[j]
      /\ l[Len(s) + 2] = Star /\ l[Len(s) + 3] = High(x) /\ l[Len(s) + 4] = Low(x)
  BY CharsOfLine
<1>3. Lost(l, i + 1) = d
  BY <1>2 DEF Lost
<1> HIDE DEF l, x
<1>4. ASSUME NEW j \in 1 .. Len(s) - 1
      PROVE  s[IF j < i THEN j ELSE j + 1] \in Printable
  <2>1. (IF j < i THEN j ELSE j + 1) \in 1 .. Len(s)
    BY <1>1
  <2>2. QED
    BY <1>1, <2>1, ElementOfSeq
<1>5. t \in Seq(Printable) /\ Len(t) = Len(s) - 1 /\ t \in Seq(Chars)
  <2>1. Len(s) - 1 \in Nat
    BY <1>1
  <2>2. t \in [1 .. Len(s) - 1 -> Printable]
    BY <1>4
  <2> HIDE DEF t
  <2>3. t \in Seq(Printable) /\ Len(t) = Len(s) - 1
    BY <2>1, <2>2, SeqOfFunction
  <2>4. QED
    BY <2>3 DEF Printable
<1>6. \A j \in 1 .. Len(t) : t[j] = s[IF j < i THEN j ELSE j + 1]
  BY <1>5
<1> HIDE DEF t
<1>7. Checksum(t) # x /\ Checksum(t) \in Chars /\ x \in Chars
  BY <1>1, <1>5, <1>6, SumWithout DEF x
<1>8. d \in Seq(Chars) /\ Len(d) = Len(s) + 5
  <2>1. (Len(s) + 6) - 1 = Len(s) + 5 /\ Len(s) + 5 \in Nat
    BY <1>1
  <2>2. ASSUME NEW j \in 1 .. Len(s) + 5 PROVE l[IF j < i + 1 THEN j ELSE j + 1] \in Chars
    <3>1. (IF j < i + 1 THEN j ELSE j + 1) \in 1 .. Len(l)
      BY <1>1, <1>2
    <3>2. QED
      BY <1>2, <3>1, ElementOfSeq
  <2>3. QED
    BY <2>1, <2>2
<1>9. \A j \in 1 .. Len(s) + 5 : d[j] = l[IF j < i + 1 THEN j ELSE j + 1]
  BY <1>1
<1> HIDE DEF d
<1>10. ASSUME NEW j \in 1 .. Len(t) PROVE d[j + 1] = t[j] /\ t[j] # Star
  <2>1. t[j] \in Printable
    BY <1>5, ElementOfSeq
  <2>2. CASE j < i
    <3>1. j + 1 \in 1 .. Len(s) + 5 /\ j + 1 < i + 1 /\ j \in 1 .. Len(s)
      BY <1>1, <1>5, <2>2
    <3>2. d[j + 1] = l[j + 1] /\ l[j + 1] = s[j] /\ t[j] = s[j]
      BY <1>2, <1>6, <1>9, <2>2, <3>1
    <3>3. QED
      BY <2>1, <3>2, PrintableChar
  <2>3. CASE ~(j < i)
    <3>1. j + 1 \in 1 .. Len(s) + 5 /\ ~(j + 1 < i + 1) /\ j + 1 \in 1 .. Len(s)
      BY <1>1, <1>5, <2>3
    <3>2. d[j + 1] = l[(j + 1) + 1] /\ l[(j + 1) + 1] = s[j + 1] /\ t[j] = s[j + 1]
      BY <1>2, <1>6, <1>9, <2>3, <3>1
    <3>3. QED
      BY <2>1, <3>2, PrintableChar
  <2>4. QED
    BY <2>2, <2>3
<1>11. d[Len(t) + 2] = Star /\ d[Len(t) + 3] = High(x) /\ d[Len(t) + 4] = Low(x)
  <2>1. ASSUME NEW k \in 2 .. 4 PROVE d[Len(t) + k] = l[Len(s) + k]
    <3>1. PICK j : j = Len(t) + k
      OBVIOUS
    <3>2. j \in 1 .. Len(s) + 5 /\ ~(j < i + 1) /\ j + 1 = Len(s) + k
      BY <1>1, <1>5, <3>1
    <3>3. QED
      BY <1>9, <3>1, <3>2
  <2>2. 2 \in 2 .. 4 /\ 3 \in 2 .. 4 /\ 4 \in 2 .. 4
    OBVIOUS
  <2>3. QED
    BY <1>2, <2>1, <2>2
<1>12. Len(t) + 4 <= Len(d)
  BY <1>1, <1>5, <1>8
<1>13. ~crcCheck(d)
  BY <1>5, <1>7, <1>8, <1>10, <1>11, <1>12, Misfit
<1>14. QED
  BY <1>3, <1>13 DEF l

LEMMA DoubledLine ==
    ASSUME NEW s \in Sentences, NEW i \in 1 .. Len(s)
    PROVE  ~crcCheck(Doubled(Line(s), i + 1))
<1> DEFINE l == Line(s)
           x == Checksum(s)
           t == [j \in 1 .. Len(s) + 1 |-> s[IF j <= i THEN j ELSE j - 1]]
           d == [j \in 1 .. (Len(s) + 6) + 1 |-> l[IF j <= i + 1 THEN j ELSE j - 1]]
<1>1. s \in Seq(Printable) /\ s \in Seq(Chars) /\ Len(s) \in Nat \ {0}
  BY SentenceFits
<1>2. /\ l \in Seq(Chars) /\ Len(l) = Len(s) + 6
      /\ \A j \in 1 .. Len(s) : l[j + 1] = s[j]
      /\ l[Len(s) + 2] = Star /\ l[Len(s) + 3] = High(x) /\ l[Len(s) + 4] = Low(x)
  BY CharsOfLine
<1>3. Doubled(l, i + 1) = d
  BY <1>2 DEF Doubled
<1> HIDE DEF l, x
<1>4. ASSUME NEW j \in 1 .. Len(s) + 1
      PROVE  s[IF j <= i THEN j ELSE j - 1] \in Printable
  <2>1. (IF j <= i THEN j ELSE j - 1) \in 1 .. Len(s)
    BY <1>1
  <2>2. QED
    BY <1>1, <2>1, ElementOfSeq
<1>5. t \in Seq(Printable) /\ Len(t) = Len(s) + 1 /\ t \in Seq(Chars)
  <2>1. Len(s) + 1 \in Nat
    BY <1>1
  <2>2. t \in [1 .. Len(s) + 1 -> Printable]
    BY <1>4
  <2> HIDE DEF t
  <2>3. t \in Seq(Printable) /\ Len(t) = Len(s) + 1
    BY <2>1, <2>2, SeqOfFunction
  <2>4. QED
    BY <2>3 DEF Printable
<1>6. \A j \in 1 .. Len(t) : t[j] = s[IF j <= i THEN j ELSE j - 1]
  BY <1>5
<1> HIDE DEF t
<1>7. Checksum(t) # x /\ Checksum(t) \in Chars /\ x \in Chars
  <2>1. i \in 1 .. Len(t) /\ Len(s) = Len(t) - 1
    BY <1>1, <1>5
  <2>2. ASSUME NEW j \in 1 .. Len(s) PROVE s[j] = t[IF j < i THEN j ELSE j + 1]
    <3>1. CASE j < i
      <4>1. j \in 1 .. Len(t) /\ j <= i
        BY <1>1, <1>5, <3>1
      <4>2. QED
        BY <1>6, <3>1, <4>1
    <3>2. CASE ~(j < i)
      <4>1. j + 1 \in 1 .. Len(t) /\ ~(j + 1 <= i) /\ (j + 1) - 1 = j
        BY <1>1, <1>5, <3>2
      <4>2. QED
        BY <1>6, <3>2, <4>1
    <3>3. QED
      BY <3>1, <3>2
  <2>3. QED
    BY <1>1, <1>5, <2>1, <2>2, SumWithout DEF x
<1>8. d \in Seq(Chars) /\ Len(d) = Len(s) + 7
  <2>1. (Len(s) + 6) + 1 = Len(s) + 7 /\ Len(s) + 7 \in Nat
    BY <1>1
  <2>2. ASSUME NEW j \in 1 .. Len(s) + 7 PROVE l[IF j <= i + 1 THEN j ELSE j - 1] \in Chars
    <3>1. (IF j <= i + 1 THEN j ELSE j - 1) \in 1 .. Len(l)
      BY <1>1, <1>2
    <3>2. QED
      BY <1>2, <3>1, ElementOfSeq
  <2>3. QED
    BY <2>1, <2>2
<1>9. \A j \in 1 .. Len(s) + 7 : d[j] = l[IF j <= i + 1 THEN j ELSE j - 1]
  BY <1>1
<1> HIDE DEF d
<1>10. ASSUME NEW j \in 1 .. Len(t) PROVE d[j + 1] = t[j] /\ t[j] # Star
  <2>1. t[j] \in Printable
    BY <1>5, ElementOfSeq
  <2>2. CASE j <= i
    <3>1. j + 1 \in 1 .. Len(s) + 7 /\ j + 1 <= i + 1 /\ j \in 1 .. Len(s)
      BY <1>1, <1>5, <2>2
    <3>2. d[j + 1] = l[j + 1] /\ l[j + 1] = s[j] /\ t[j] = s[j]
      BY <1>2, <1>6, <1>9, <2>2, <3>1
    <3>3. QED
      BY <2>1, <3>2, PrintableChar
  <2>3. CASE ~(j <= i)
    <3>1. /\ j + 1 \in 1 .. Len(s) + 7 /\ ~(j + 1 <= i + 1)
          /\ j - 1 \in 1 .. Len(s) /\ (j + 1) - 1 = (j - 1) + 1
      BY <1>1, <1>5, <2>3
    <3>2. d[j + 1] = l[(j - 1) + 1] /\ l[(j - 1) + 1] = s[j - 1] /\ t[j] = s[j - 1]
      <4>1. d[j + 1] = l[(j + 1) - 1]
        BY <1>9, <3>1
      <4>2. l[(j - 1) + 1] = s[j - 1]
        BY <1>2, <3>1
      <4>3. t[j] = s[j - 1]
        BY <1>6, <2>3
      <4>4. QED
        BY <3>1, <4>1, <4>2, <4>3
    <3>3. QED
      BY <2>1, <3>2, PrintableChar
  <2>4. QED
    BY <2>2, <2>3
<1>11. d[Len(t) + 2] = Star /\ d[Len(t) + 3] = High(x) /\ d[Len(t) + 4] = Low(x)
  <2>1. ASSUME NEW k \in 2 .. 4 PROVE d[Len(t) + k] = l[Len(s) + k]
    <3>1. PICK j : j = Len(t) + k
      OBVIOUS
    <3>2. j \in 1 .. Len(s) + 7 /\ ~(j <= i + 1) /\ j - 1 = Len(s) + k
      BY <1>1, <1>5, <3>1
    <3>3. QED
      BY <1>9, <3>1, <3>2
  <2>2. 2 \in 2 .. 4 /\ 3 \in 2 .. 4 /\ 4 \in 2 .. 4
    OBVIOUS
  <2>3. QED
    BY <1>2, <2>1, <2>2
<1>12. Len(t) + 4 <= Len(d)
  BY <1>1, <1>5, <1>8
<1>13. ~crcCheck(d)
  BY <1>5, <1>7, <1>8, <1>10, <1>11, <1>12, Misfit
<1>14. QED
  BY <1>3, <1>13 DEF l

\* crcCheck refuses every line that has lost one character of its sentence, or
\* has one of them twice: an exclusive or over printable characters notices a
\* single fault of the UART, whatever the sentence.
THEOREM DamageNoticed ==
    \A s \in Sentences : \A i \in 2 .. Len(s) + 1 :
        ~crcCheck(Lost(Line(s), i)) /\ ~crcCheck(Doubled(Line(s), i))
<1>1. TAKE s \in Sentences
<1>2. TAKE i \in 2 .. Len(s) + 1
<1>3. Len(s) \in Nat
  BY SentenceFits
<1>4. i - 1 \in 1 .. Len(s) /\ (i - 1) + 1 = i
  BY <1>3
<1>5. QED
  BY <1>4, LostLine, DoubledLine

-----------------------------------------------------------------------------
(* A line with one fault, from the wire to the position.                   *)

\* What d may hold of the first n characters of a line l: all of them, all but
\* character i, all of them and character i twice.
Whole(d, l, n)      == Len(d) = n /\ \A j \in 1 .. n : d[j] = l[j]
Missing(d, l, n, i) == /\ Len(d) = n - 1
                       /\ \A j \in 1 .. n - 1 : d[j] = l[IF j < i THEN j ELSE j + 1]
Twice(d, l, n, i)   == /\ Len(d) = n + 1
                       /\ \A j \in 1 .. n + 1 : d[j] = l[IF j <= i THEN j ELSE j - 1]

\* The next character of the line keeps each of these shapes; one that comes
\* again is the one that is there twice.
LEMMA NextCharacter ==
    ASSUME NEW d \in Seq(Chars), NEW l, NEW n \in Nat, NEW c \in Chars, c = l[n + 1],
           NEW e, e = Append(d, c)
    PROVE  /\ Whole(d, l, n) => Whole(e, l, n + 1)
           /\ Whole(d, l, n + 1) => Twice(e, l, n + 1, n + 1)
           /\ \A i \in 1 .. n : Missing(d, l, n, i) => Missing(e, l, n + 1, i)
           /\ \A i \in 1 .. n : Twice(d, l, n, i) => Twice(e, l, n + 1, i)
<1>1. /\ Len(d) \in Nat /\ Len(e) = Len(d) + 1
      /\ \A j \in 1 .. Len(d) : e[j] = d[j]
      /\ e[Len(d) + 1] = c
  BY AppendProperties
<1>2. ASSUME Whole(d, l, n) PROVE Whole(e, l, n + 1)
  <2>1. Len(d) = n /\ \A j \in 1 .. n : d[j] = l[j]
    BY <1>2 DEF Whole
  <2>2. ASSUME NEW j \in 1 .. n + 1 PROVE e[j] = l[j]
    <3>1. CASE j = n + 1
      BY <1>1, <2>1, <3>1
    <3>2. CASE j # n + 1
      BY <1>1, <2>1, <3>2
    <3>3. QED
      BY <3>1, <3>2
  <2>3. QED
    BY <1>1, <2>1, <2>2 DEF Whole
<1>3. ASSUME Whole(d, l, n + 1) PROVE Twice(e, l, n + 1, n + 1)
  <2>1. Len(d) = n + 1 /\ \A j \in 1 .. n + 1 : d[j] = l[j]
    BY <1>3 DEF Whole
  <2>2. ASSUME NEW j \in 1 .. (n + 1) + 1
        PROVE  e[j] = l[IF j <= n + 1 THEN j ELSE j - 1]
    <3>1. CASE j <= n + 1
      BY <1>1, <2>1, <3>1
    <3>2. CASE ~(j <= n + 1)
      <4>1. j = Len(d) + 1 /\ j - 1 = n + 1
        BY <2>1, <3>2
      <4>2. QED
        BY <1>1, <3>2, <4>1
    <3>3. QED
      BY <3>1, <3>2
  <2>3. QED
    BY <1>1, <2>1, <2>2 DEF Twice
<1>4. ASSUME NEW i \in 1 .. n, Missing(d, l, n, i) PROVE Missing(e, l, n + 1, i)
  <2>1. Len(d) = n - 1 /\ \A j \in 1 .. n - 1 : d[j] = l[IF j < i THEN j ELSE j + 1]
    BY <1>4 DEF Missing
  <2>2. (n + 1) - 1 = n /\ Len(d) + 1 = n /\ ~(n < i)
    BY <2>1
  <2>3. ASSUME NEW j \in 1 .. n PROVE e[j] = l[IF j < i THEN j ELSE j + 1]
    <3>1. CASE j = n
      BY <1>1, <2>2, <3>1
    <3>2. CASE j # n
      <4>1. j \in 1 .. n - 1
        BY <3>2
      <4>2. QED
        BY <1>1, <2>1, <4>1
    <3>3. QED
      BY <3>1, <3>2
  <2>4. QED
    BY <1>1, <2>2, <2>3 DEF Missing
<1>5. ASSUME NEW i \in 1 .. n, Twice(d, l, n, i) PROVE Twice(e, l, n + 1, i)
  <2>1. Len(d) = n + 1 /\ \A j \in 1 .. n + 1 : d[j] = l[IF j <= i THEN j ELSE j - 1]
    BY <1>5 DEF Twice
  <2>2. ASSUME NEW j \in 1 .. (n + 1) + 1 PROVE e[j] = l[IF j <= i THEN j ELSE j - 1]
    <3>1. CASE j = (n + 1) + 1
      <4>1. j = Len(d) + 1 /\ j - 1 = n + 1 /\ ~(j <= i)
        BY <2>1, <3>1
      <4>2. QED
        BY <1>1, <4>1
    <3>2. CASE j # (n + 1) + 1
      <4>1. j \in 1 .. n + 1
        BY <3>2
      <4>2. QED
        BY <1>1, <2>1, <4>1
    <3>3. QED
      BY <3>1, <3>2
  <2>3. QED
    BY <1>1, <2>1, <2>2 DEF Twice
<1>6. QED
  BY <1>2, <1>3, <1>4, <1>5

\* A line that arrives whole or with one fault, at its line feed.
Arrived(d, s) ==
    \/ Whole(d, Line(s), Len(s) + 6)
    \/ \E i \in 2 .. Len(s) + 6 :
         Missing(d, Line(s), Len(s) + 6, i) \/ Twice(d, Line(s), Len(s) + 6, i)

\* If such a line passes its check it says its sentence: a fault in the sentence
\* is noticed, without its * there is no check sum, and a fault behind the * is
\* behind what the parser reads.
LEMMA CheckedSays ==
    ASSUME NEW s \in Sentences, NEW d \in Seq(Chars), Arrived(d, s), crcCheck(d)
    PROVE  Says(d, s)
<1> DEFINE l == Line(s)
<1>1. /\ Len(s) \in Nat \ {0} /\ Len(d) \in Nat
      /\ l \in Seq(Chars) /\ Len(l) = Len(s) + 6 /\ Says(l, s)
  BY SentenceFits, CharsOfLine, LineSays
<1> HIDE DEF l
<1>2. ASSUME Len(s) + 2 <= Len(d), \A j \in 1 .. Len(s) + 2 : d[j] = l[j]
      PROVE  Says(d, s)
  <2>1. ASSUME NEW j \in 1 .. Len(s) PROVE j + 1 \in 1 .. Len(s) + 2
    BY <1>1
  <2>2. Len(s) + 2 \in 1 .. Len(s) + 2
    BY <1>1
  <2>3. QED
    BY <1>1, <1>2, <2>1, <2>2 DEF Says
<1>3. CASE Whole(d, l, Len(s) + 6)
  BY <1>1, <1>2, <1>3 DEF Whole
<1>4. ASSUME NEW i \in 2 .. Len(s) + 6, Missing(d, l, Len(s) + 6, i)
      PROVE  Says(d, s)
  <2>1. /\ Len(d) = (Len(s) + 6) - 1
        /\ \A j \in 1 .. (Len(s) + 6) - 1 : d[j] = l[IF j < i THEN j ELSE j + 1]
    BY <1>4 DEF Missing
  <2>2. CASE i <= Len(s) + 1
    <3> DEFINE f == [j \in 1 .. Len(l) - 1 |-> l[IF j < i THEN j ELSE j + 1]]
    <3>1. f \in Seq(Chars) /\ Len(f) = Len(l) - 1
      <4>1. ASSUME NEW j \in 1 .. Len(l) - 1
            PROVE  l[IF j < i THEN j ELSE j + 1] \in Chars
        <5>1. (IF j < i THEN j ELSE j + 1) \in 1 .. Len(l)
          BY <1>1
        <5>2. QED
          BY <1>1, <5>1, ElementOfSeq
      <4>2. f \in [1 .. Len(l) - 1 -> Chars] /\ Len(l) - 1 \in Nat
        BY <1>1, <4>1
      <4> HIDE DEF f
      <4>3. QED
        BY <4>2, SeqOfFunction
    <3>2. \A j \in 1 .. Len(l) - 1 : f[j] = l[IF j < i THEN j ELSE j + 1]
      OBVIOUS
    <3>3. Lost(l, i) = f
      BY DEF Lost
    <3> HIDE DEF f
    <3>4. \A j \in 1 .. Len(d) : d[j] = f[j]
      BY <1>1, <2>1, <3>2
    <3>5. Len(d) = Len(f)
      BY <1>1, <2>1, <3>1
    <3>6. d = Lost(l, i)
      BY <3>1, <3>3, <3>4, <3>5, SeqEqual
    <3>7. i \in 2 .. Len(s) + 1
      BY <1>1, <2>2
    <3>8. ~crcCheck(Lost(Line(s), i))
      BY <3>7, DamageNoticed
    <3>9. QED
      BY <3>6, <3>8 DEF l
  <2>3. CASE i = Len(s) + 2
    <3>1. ASSUME NEW j \in 2 .. Len(d) PROVE d[j] # Star
      <4>1. CASE j <= Len(s) + 1
        <5>1. j \in 1 .. (Len(s) + 6) - 1 /\ j < i /\ j - 1 \in 1 .. Len(s) /\ (j - 1) + 1 = j
          BY <1>1, <2>1, <2>3, <4>1
        <5>2. d[j] = l[j] /\ l[j] = s[j - 1]
          BY <1>1, <2>1, <5>1 DEF Says
        <5>3. QED
          BY <5>1, <5>2, SentenceFits, PrintableChar
      <4>2. CASE ~(j <= Len(s) + 1)
        <5>1. j \in 1 .. (Len(s) + 6) - 1 /\ ~(j < i)
          BY <1>1, <2>1, <2>3, <4>2
        <5>2. d[j] = l[j + 1]
          BY <2>1, <5>1
        <5>3. \/ j + 1 = Len(s) + 3 \/ j + 1 = Len(s) + 4
              \/ j + 1 = Len(s) + 5 \/ j + 1 = Len(s) + 6
          BY <1>1, <5>1, <4>2
        <5>4. l[j + 1] \in {High(Checksum(s)), Low(Checksum(s)), CR, LF}
          BY <5>3, CharsOfLine DEF l
        <5>5. QED
          BY <5>2, <5>4, Controls, SumDigits
      <4>3. QED
        BY <4>1, <4>2
    <3>2. PICK k : k = FirstStar(d, 2)
      OBVIOUS
    <3>3. k \in 2 .. Len(d) + 2 /\ (k > Len(d) \/ d[k] = Star)
      BY <3>2, 2 \in Nat \ {0}, StarFound
    <3>4. k <= Len(d)
      BY <3>2 DEF crcCheck
    <3>5. k \in 2 .. Len(d)
      BY <1>1, <3>3, <3>4
    <3>6. QED
      BY <1>1, <3>1, <3>3, <3>5
  <2>4. CASE i > Len(s) + 2
    <3>1. ASSUME NEW j \in 1 .. Len(s) + 2 PROVE d[j] = l[j]
      <4>1. j \in 1 .. (Len(s) + 6) - 1 /\ j < i
        BY <1>1, <2>4
      <4>2. QED
        BY <2>1, <4>1
    <3>2. Len(s) + 2 <= Len(d)
      BY <1>1, <2>1
    <3>3. QED
      BY <1>2, <3>1, <3>2
  <2>5. QED
    BY <1>1, <2>2, <2>3, <2>4
<1>5. ASSUME NEW i \in 2 .. Len(s) + 6, Twice(d, l, Len(s) + 6, i)
      PROVE  Says(d, s)
  <2>1. /\ Len(d) = (Len(s) + 6) + 1
        /\ \A j \in 1 .. (Len(s) + 6) + 1 : d[j] = l[IF j <= i THEN j ELSE j - 1]
    BY <1>5 DEF Twice
  <2>2. CASE i <= Len(s) + 1
    <3> DEFINE f == [j \in 1 .. Len(l) + 1 |-> l[IF j <= i THEN j ELSE j - 1]]
    <3>1. f \in Seq(Chars) /\ Len(f) = Len(l) + 1
      <4>1. ASSUME NEW j \in 1 .. Len(l) + 1
            PROVE  l[IF j <= i THEN j ELSE j - 1] \in Chars
        <5>1. (IF j <= i THEN j ELSE j - 1) \in 1 .. Len(l)
          BY <1>1
        <5>2. QED
          BY <1>1, <5>1, ElementOfSeq
      <4>2. f \in [1 .. Len(l) + 1 -> Chars] /\ Len(l) + 1 \in Nat
        BY <1>1, <4>1
      <4> HIDE DEF f
      <4>3. QED
        BY <4>2, SeqOfFunction
    <3>2. \A j \in 1 .. Len(l) + 1 : f[j] = l[IF j <= i THEN j ELSE j - 1]
      OBVIOUS
    <3>3. Doubled(l, i) = f
      BY DEF Doubled
    <3> HIDE DEF f
    <3>4. \A j \in 1 .. Len(d) : d[j] = f[j]
      BY <1>1, <2>1, <3>2
    <3>5. Len(d) = Len(f)
      BY <1>1, <2>1, <3>1
    <3>6. d = Doubled(l, i)
      BY <3>1, <3>3, <3>4, <3>5, SeqEqual
    <3>7. i \in 2 .. Len(s) + 1
      BY <1>1, <2>2
    <3>8. ~crcCheck(Doubled(Line(s), i))
      BY <3>7, DamageNoticed
    <3>9. QED
      BY <3>6, <3>8 DEF l
  <2>3. CASE i > Len(s) + 1
    <3>1. ASSUME NEW j \in 1 .. Len(s) + 2 PROVE d[j] = l[j]
      <4>1. j \in 1 .. (Len(s) + 6) + 1 /\ j <= i
        BY <1>1, <2>3
      <4>2. QED
        BY <2>1, <4>1
    <3>2. Len(s) + 2 <= Len(d)
      BY <1>1, <2>1
    <3>3. QED
      BY <1>2, <3>1, <3>2
  <2>4. QED
    BY <1>1, <2>2, <2>3
<1>6. QED
  BY <1>3, <1>4, <1>5 DEF Arrived, l

\* What the parser takes over from a line that says a sentence: that sentence, or
\* nothing; and its search ends at the * of that line.
LEMMA SaidParsed ==
    ASSUME NEW s \in Sentences, data' \in Seq(Chars), Says(data', s),
           overread \in BOOLEAN, ParseRx(data'), ProcessRx(data')
    PROVE  position' \in {position, s} /\ overread' = overread
<1> DEFINE d == data'
<1>1. /\ Len(s) \in Nat \ {0} /\ Len(s) + 2 <= Len(d) /\ At(d, 2) = s[1]
      /\ StdHeader \in Nat \ {0} /\ MtkHeader \in Nat \ {0}
  BY HeaderAssumption, SentenceFits, SentenceSaid DEF Says
<1>2. CASE s[1] = G
  <2>1. TalkerType(d) = "STD_NMEA"
    <3>1. At(d, 2) = G /\ At(d, 2) # P
      BY <1>1, <1>2, SpecialTalkers
    <3>2. QED
      BY <3>1 DEF TalkerType
  <2>2. StdHeader + 2 \in 2 .. Len(s) + 2
    BY <1>1, <1>2, SentenceFits
  <2>3. FirstStar(d, StdHeader + 2) = Len(s) + 2
    BY <2>2, StarBehind
  <2>4. /\ messageType' = "STD_NMEA"
        /\ dataLength' = (Len(s) + 2) - (StdHeader + 2)
        /\ overread' = overread
    BY <1>1, <2>1, <2>3 DEF ParseRx
  <2>5. position' = SubSeq(d, 2, StdHeader + 1 + dataLength')
    BY <1>1, <1>2, <2>4 DEF ProcessRx
  <2>6. StdHeader + 1 + dataLength' = Len(s) + 1
    BY <1>1, <2>4
  <2>7. position' = s
    BY <2>5, <2>6, SentenceSaid
  <2>8. QED
    BY <2>4, <2>7
<1>3. CASE s[1] = P
  <2>1. TalkerType(d) = "MTK_NMEA"
    <3>1. At(d, 2) = P /\ At(d, 2) # G
      BY <1>1, <1>3, SpecialTalkers
    <3>2. QED
      BY <3>1 DEF TalkerType
  <2>2. MtkHeader + 2 \in 2 .. Len(s) + 2
    BY <1>1, <1>3, SentenceFits
  <2>3. FirstStar(d, MtkHeader + 2) = Len(s) + 2 /\ ~(Len(s) + 2 > Len(d))
    BY <1>1, <2>2, StarBehind
  <2>4. messageType' = "MTK_NMEA" /\ overread' = overread
    BY <2>1, <2>3 DEF ParseRx
  <2>5. position' = position
    BY <2>4 DEF ProcessRx
  <2>6. QED
    BY <2>4, <2>5
<1>4. CASE s[1] # G /\ s[1] # P
  <2>1. TalkerType(d) # "MTK_NMEA"
    BY <1>1, <1>4 DEF TalkerType
  <2>2. overread' = overread
    BY <2>1 DEF ParseRx
  <2>3. position' = position
    BY <1>1, <1>4 DEF ProcessRx
  <2>4. QED
    BY <2>2, <2>3
<1>5. QED
  BY <1>2, <1>3, <1>4

-----------------------------------------------------------------------------
(* Of the line being received, the buffer holds a whole or a damaged part.  *)

\* As long as the $ of a line got in and one byte of it at most was lost or came
\* twice, the buffer holds what was sent of it, with that one fault in it: all
\* but a byte, or a byte twice; the next one may be there already.
OneFault ==
    room /\ faults <= 1 /\ pos > 1 =>
        \/ Whole(data, Line(sentence), pos - 1)
        \/ faults = 1 /\ Whole(data, Line(sentence), pos)
        \/ faults = 1 /\ \E i \in 2 .. pos - 1 :
             \/ Missing(data, Line(sentence), pos - 1, i)
             \/ Twice(data, Line(sentence), pos - 1, i)

\* Where the receiver is in the line.
LEMMA Place ==
    ASSUME NmeaTypeOK
    PROVE  /\ sentence \in Sentences /\ Len(sentence) \in Nat \ {0}
           /\ pos \in 1 .. Len(sentence) + 6
           /\ Len(sentence) + 8 <= SL868V2_MAX_MSG_LEN /\ SL868V2_MAX_MSG_LEN \in Nat
           /\ faults \in Nat
           /\ data \in Seq(Chars) /\ Len(data) \in Nat
           /\ Current \in Chars /\ Current = Line(sentence)[pos] /\ ~Ignored(Current)
           /\ Current = Dollar <=> pos = 1
           /\ Current = LF <=> EndOfLine
           /\ EndOfLine <=> pos = Len(sentence) + 6
<1>1. sentence \in Sentences /\ pos \in 1 .. Len(Line(sentence)) /\ faults \in 0 .. MaxFaults
  BY DEF NmeaTypeOK
<1>2. /\ Len(sentence) \in Nat \ {0} /\ Len(Line(sentence)) = Len(sentence) + 6
      /\ Len(sentence) + 8 <= SL868V2_MAX_MSG_LEN
  BY <1>1, SentenceFits, CharsOfLine
<1>3. Line(sentence)[1] = Dollar /\ Line(sentence)[Len(sentence) + 6] = LF
  BY <1>1, CharsOfLine
<1>4. /\ Current \in Chars /\ ~Ignored(Current)
      /\ pos > 1 => Current # Dollar
      /\ pos < Len(Line(sentence)) => Current # LF
  BY <1>1, LineIsClean DEF Current
<1>5. data \in Seq(Chars) /\ Len(data) \in Nat
  BY DEF NmeaTypeOK
<1>6. Current = Dollar <=> pos = 1
  BY <1>1, <1>2, <1>3, <1>4 DEF Current
<1>7. /\ EndOfLine <=> pos = Len(sentence) + 6
      /\ Current = LF <=> EndOfLine
  BY <1>1, <1>2, <1>3, <1>4 DEF Current, EndOfLine
<1>8. faults \in Nat
  BY <1>1, FaultAssumption
<1>9. QED
  BY <1>1, <1>2, <1>4, <1>5, <1>6, <1>7, <1>8, SizeAssumption DEF Current

\* One character more, without its loss: the buffer is not full before the line
\* ends, and when the line ends it holds the line or what one fault made of it.
LEMMA CharacterTaken ==
    ASSUME NmeaTypeOK, OneFault, room, faults <= 1, pos > 1, Taken(Current)
    PROVE  /\ \/ Whole(data', Line(sentence), pos)
              \/ faults = 1 /\ \E i \in 2 .. pos :
                   Missing(data', Line(sentence), pos, i) \/ Twice(data', Line(sentence), pos, i)
           /\ faults = 0 => Whole(data', Line(sentence), pos)
           /\ data' \in Seq(Chars)
<1> DEFINE l == Line(sentence)
           n == pos - 1
<1>1. /\ pos \in Nat /\ data \in Seq(Chars) /\ faults \in Nat
      /\ Current \in Chars /\ Current = l[pos] /\ Current # Dollar
  BY Place
<1>2. data' = Append(data, Current)
  BY <1>1 DEF Taken
<1>3. n \in Nat /\ n + 1 = pos /\ n >= 1
  BY <1>1
<1>4. /\ \/ Whole(data, l, n)
         \/ faults = 1 /\ Whole(data, l, n + 1)
         \/ faults = 1 /\ \E i \in 2 .. n : Missing(data, l, n, i) \/ Twice(data, l, n, i)
  BY <1>3 DEF OneFault
<1> HIDE DEF l, n
<1>5. /\ Whole(data, l, n) => Whole(data', l, n + 1)
      /\ Whole(data, l, n + 1) => Twice(data', l, n + 1, n + 1)
      /\ \A i \in 1 .. n : Missing(data, l, n, i) => Missing(data', l, n + 1, i)
      /\ \A i \in 1 .. n : Twice(data, l, n, i) => Twice(data', l, n + 1, i)
  <2>1. Current = l[n + 1]
    BY <1>1, <1>3
  <2>2. PICK e : e = data'
    OBVIOUS
  <2>3. e = Append(data, Current)
    BY <1>2, <2>2
  <2>4. /\ Whole(data, l, n) => Whole(e, l, n + 1)
        /\ Whole(data, l, n + 1) => Twice(e, l, n + 1, n + 1)
        /\ \A i \in 1 .. n : Missing(data, l, n, i) => Missing(e, l, n + 1, i)
        /\ \A i \in 1 .. n : Twice(data, l, n, i) => Twice(e, l, n + 1, i)
    BY <1>1, <1>3, <2>1, <2>3, NextCharacter
  <2>5. QED
    BY <2>2, <2>4
<1>6. n + 1 \in 2 .. n + 1 /\ \A i \in 2 .. n : i \in 1 .. n /\ i \in 2 .. n + 1
  BY <1>3
<1>7. \/ Whole(data', l, n + 1)
      \/ faults = 1 /\ \E i \in 2 .. n + 1 :
           Missing(data', l, n + 1, i) \/ Twice(data', l, n + 1, i)
  BY <1>4, <1>5, <1>6
<1>8. faults = 0 => Whole(data', l, n + 1)
  BY <1>4, <1>5
<1>9. data' \in Seq(Chars)
  BY <1>1, <1>2, AppendProperties
<1>10. QED
  BY <1>3, <1>7, <1>8, <1>9 DEF l

\* A line leaves room for itself while it arrives.
LEMMA NotFullWithin ==
    ASSUME NmeaTypeOK, OneFault, room, faults <= 1, pos > 1
    PROVE  /\ Len(data) <= pos
           /\ ~EndOfLine => ~Full
           /\ faults = 0 => ~Full
<1>1. /\ pos \in Nat /\ pos <= Len(sentence) + 6 /\ Len(data) \in Nat
      /\ Len(sentence) \in Nat
      /\ Len(sentence) + 8 <= SL868V2_MAX_MSG_LEN /\ SL868V2_MAX_MSG_LEN \in Nat
      /\ EndOfLine <=> pos = Len(sentence) + 6
  BY Place
<1>2. Len(data) <= pos /\ (faults = 0 => Len(data) = pos - 1)
  BY <1>1 DEF OneFault, Whole, Missing, Twice
<1>3. QED
  BY <1>1, <1>2 DEF Full

LEMMA OneFaultStep == NmeaTypeOK /\ OneFault /\ [NmeaNext]_nmeaVars => OneFault'
<1> SUFFICES ASSUME NmeaTypeOK, OneFault, [NmeaNext]_nmeaVars,
                    room', faults' <= 1, pos' > 1
             PROVE  \/ Whole(data', Line(sentence'), pos' - 1)
                    \/ faults' = 1 /\ Whole(data', Line(sentence'), pos')
                    \/ faults' = 1 /\ \E i \in 2 .. pos' - 1 :
                         \/ Missing(data', Line(sentence'), pos' - 1, i)
                         \/ Twice(data', Line(sentence'), pos' - 1, i)
  BY DEF OneFault
<1>1. /\ pos \in Nat \ {0} /\ faults \in Nat
      /\ Current = Line(sentence)[pos] /\ Current \in Chars /\ ~Ignored(Current)
      /\ Current = Dollar <=> pos = 1
  BY Place
<1>2. Deliver \/ LoseByte => /\ ~EndOfLine /\ sentence' = sentence
                             /\ pos' = pos + 1 /\ pos' - 1 = pos
  <2>1. Deliver \/ LoseByte => Advance
    BY DEF Deliver, LoseByte
  <2>2. Advance => ~EndOfLine /\ sentence' = sentence /\ pos' = pos + 1
    BY DEF Advance
  <2>3. QED
    BY <1>1, <2>1, <2>2
<1>3. CASE Deliver
  <2>1. faults' = faults /\ HandleRx(Current)
    BY <1>2, <1>3 DEF Deliver
  <2>2. CASE pos = 1
    <3>1. ~Full
      BY <1>3, <2>2 DEF Deliver
    <3>2. Taken(Current) /\ Current = Dollar
      BY <1>1, <2>1, <2>2, <3>1, HandleCases
    <3>3. data' = Append(<<>>, Current)
      BY <3>2 DEF Taken
    <3>4. Len(data') = 1 /\ data'[1] = Current
      BY <1>1, <3>3
    <3>5. Whole(data', Line(sentence), 1)
      BY <1>1, <2>2, <3>4 DEF Whole
    <3>6. QED
      BY <1>2, <1>3, <2>2, <3>5
  <2>3. CASE pos # 1
    <3>1. room /\ faults <= 1 /\ pos > 1
      BY <1>1, <1>3, <2>1, <2>3 DEF Deliver
    <3>2. ~Full
      BY <1>2, <1>3, <3>1, NotFullWithin
    <3>3. Taken(Current)
      BY <1>1, <2>1, <3>2, HandleCases
    <3>4. \/ Whole(data', Line(sentence), pos)
          \/ faults = 1 /\ \E i \in 2 .. pos :
               Missing(data', Line(sentence), pos, i) \/ Twice(data', Line(sentence), pos, i)
      BY <3>1, <3>3, CharacterTaken
    <3>5. QED
      BY <1>2, <1>3, <2>1, <3>4
  <2>4. QED
    BY <2>2, <2>3
<1>4. CASE LoseByte
  <2>1. /\ faults' = faults + 1 /\ data' = data /\ room /\ pos > 1
    BY <1>2, <1>4 DEF LoseByte
  <2>2. faults = 0 /\ faults' = 1
    BY <1>1, <2>1
  <2>3. Whole(data, Line(sentence), pos - 1)
    BY <2>1, <2>2 DEF OneFault
  <2>4. Missing(data, Line(sentence), pos, pos)
    <3>1. ASSUME NEW j \in 1 .. pos - 1
          PROVE  data[j] = Line(sentence)[IF j < pos THEN j ELSE j + 1]
      <4>1. j < pos
        BY <1>1
      <4>2. data[j] = Line(sentence)[j]
        BY <2>3 DEF Whole
      <4>3. QED
        BY <4>1, <4>2
    <3>2. QED
      BY <2>3, <3>1 DEF Missing, Whole
  <2>5. pos \in 2 .. pos
    BY <1>1, <2>1
  <2>6. QED
    BY <1>2, <1>4, <2>1, <2>2, <2>4, <2>5
<1>5. CASE DoubleByte
  <2>1. /\ faults' = faults + 1 /\ HandleRx(Current)
        /\ pos' = pos /\ sentence' = sentence /\ room' = room
    BY <1>5 DEF DoubleByte
  <2>2. faults = 0 /\ faults' = 1 /\ room /\ pos > 1 /\ faults <= 1
    BY <1>1, <2>1
  <2>3. ~Full
    BY <2>2, NotFullWithin
  <2>4. Taken(Current)
    BY <1>1, <2>1, <2>3, HandleCases
  <2>5. Whole(data', Line(sentence), pos)
    BY <2>2, <2>4, CharacterTaken
  <2>6. QED
    BY <2>1, <2>2, <2>5
<1>6. CASE UNCHANGED nmeaVars
  BY <1>6 DEF nmeaVars, OneFault
<1>7. QED
  BY <1>3, <1>4, <1>5, <1>6 DEF NmeaNext

LEMMA FaultInvariance == NmeaSpec => [](NmeaTypeOK /\ OneFault)
<1>1. NmeaInit => OneFault
  BY DEF NmeaInit, OneFault
<1>2. QED
  BY <1>1, NmeaTypeInit, NmeaTypeStep, OneFaultStep, PTL DEF NmeaSpec

-----------------------------------------------------------------------------
(* What is taken over from such a line.                                    *)

\* Only a line feed makes the parser run, and what is in the buffer then is a
\* line with one fault at most.
LEMMA ParsedIsOwn ==
    ASSUME NmeaTypeOK, OneFault, [NmeaNext]_nmeaVars, pos > 1 => room /\ faults <= 1
    PROVE  position' \in {position, sentence} /\ overread' = overread
<1>1. /\ sentence \in Sentences /\ Len(sentence) \in Nat \ {0}
      /\ pos \in 1 .. Len(sentence) + 6
      /\ Current = Dollar <=> pos = 1
      /\ Current = LF <=> EndOfLine
      /\ EndOfLine <=> pos = Len(sentence) + 6
  BY Place
<1>2. NothingProcessed => position' = position /\ overread' = overread
  BY DEF NothingProcessed
<1>3. ASSUME HandleRx(Current) PROVE position' \in {position, sentence} /\ overread' = overread
  <2>1. CASE NothingProcessed
    BY <1>2, <2>1
  <2>2. CASE ~NothingProcessed
    <3>1. ~Full /\ ~Ignored(Current) /\ Processed(Current) /\ ParseRx(data') /\ ProcessRx(data')
      BY <1>3, <2>2, HandleCases
    <3>2. pos = Len(sentence) + 6 /\ pos > 1 /\ crcCheck(data')
      BY <1>1, <3>1 DEF Processed
    <3>3. Taken(Current) /\ room /\ faults <= 1
      BY <1>3, <3>1, <3>2, HandleCases
    <3>4. Arrived(data', sentence) /\ data' \in Seq(Chars)
      BY <3>2, <3>3, CharacterTaken DEF Arrived
    <3>5. PICK d : d = data'
      OBVIOUS
    <3>6. Says(data', sentence)
      <4>1. d \in Seq(Chars) /\ Arrived(d, sentence) /\ crcCheck(d)
        BY <3>2, <3>4, <3>5
      <4>2. Says(d, sentence)
        BY <1>1, <4>1, CheckedSays
      <4>3. QED
        BY <3>5, <4>2
    <3>7. overread \in BOOLEAN
      BY DEF NmeaTypeOK
    <3>8. QED
      BY <1>1, <3>1, <3>4, <3>6, <3>7, SaidParsed
  <2>3. QED
    BY <2>1, <2>2
<1>4. QED
  BY <1>2, <1>3 DEF NmeaNext, Deliver, LoseByte, DoubleByte, nmeaVars

\* In a line whose $ got in, and one byte of which was lost or came twice, the
\* check sum (crcCheck) and the parser (sl868v2ParseRx, sl868v2ProcessRx) take
\* over what this very line says, or nothing: for every length of the buffer and
\* all sentences that fit it.
THEOREM OwnPosition == NmeaSpec => OwnPositionOnly
<1>1. NmeaTypeOK /\ OneFault /\ [NmeaNext]_nmeaVars
        => [room /\ faults <= 1 => position' \in {position, sentence}]_nmeaVars
  <2> SUFFICES ASSUME NmeaTypeOK, OneFault, [NmeaNext]_nmeaVars, room, faults <= 1
               PROVE  position' \in {position, sentence}
    OBVIOUS
  <2>1. QED
    BY ParsedIsOwn
<1>2. QED
  BY <1>1, FaultInvariance, PTL DEF NmeaSpec, OwnPositionOnly

\* And the search for the * of a vendor message (sl868v2ParseRx), which has no
\* other end, stays within such a line.
THEOREM NeverOverread == NmeaSpec => NoOverread
<1>1. NmeaTypeOK /\ OneFault /\ [NmeaNext]_nmeaVars
        => [room /\ faults <= 1 => overread' = overread]_nmeaVars
  <2> SUFFICES ASSUME NmeaTypeOK, OneFault, [NmeaNext]_nmeaVars, room, faults <= 1
               PROVE  overread' = overread
    OBVIOUS
  <2>1. QED
    BY ParsedIsOwn
<1>2. QED
  BY <1>1, FaultInvariance, PTL DEF NmeaSpec, NoOverread

\* What the UART has to keep to: the $ of every line gets in, and no line has
\* more than one byte lost or doubled.
AtMostOne  == faults <= 1
LinesBegun == pos > 1 => room /\ AtMostOne

\* A position is one the receiver has sent.
PositionWasSent == position = <<>> \/ position \in Sentences

\* As long as every $ gets in and no line suffers more than one fault, the
\* position (gpsRxData) is always one the receiver has sent, whatever becomes of
\* the other bytes: none is made up of several lines, or of a damaged one.
THEOREM PositionsSent == NmeaSpec /\ []LinesBegun => []PositionWasSent
<1>1. NmeaInit => PositionWasSent
  BY DEF NmeaInit, PositionWasSent
<1>2. NmeaTypeOK /\ OneFault /\ LinesBegun /\ PositionWasSent /\ [NmeaNext]_nmeaVars
        => PositionWasSent'
  <2> SUFFICES ASSUME NmeaTypeOK, OneFault, LinesBegun, PositionWasSent, [NmeaNext]_nmeaVars
               PROVE  PositionWasSent'
    OBVIOUS
  <2>1. position' \in {position, sentence} /\ sentence \in Sentences
    BY ParsedIsOwn, Place DEF LinesBegun, AtMostOne
  <2>2. QED
    BY <2>1 DEF PositionWasSent
<1>3. QED
  BY <1>1, <1>2, FaultInvariance, PTL DEF NmeaSpec

-----------------------------------------------------------------------------
(* When every $ gets in.                                                   *)

\* Nothing of a line is left in the way of the next $.
RoomForDollar == pos = 1 => ~Full

\* No line, nor what one doubled byte makes of it, fills the buffer.
ShortLines == \A s \in Sentences : Len(s) + 10 <= SL868V2_MAX_MSG_LEN

LEMMA DollarStep ==
    ASSUME ShortLines
    PROVE  NmeaTypeOK /\ OneFault /\ LinesBegun /\ RoomForDollar
             /\ AtMostOne' /\ [NmeaNext /\ (LoseByte => pos > 1)]_nmeaVars
             => LinesBegun' /\ RoomForDollar'
<1> SUFFICES ASSUME NmeaTypeOK, OneFault, LinesBegun, RoomForDollar, AtMostOne',
                    [NmeaNext /\ (LoseByte => pos > 1)]_nmeaVars
             PROVE  LinesBegun' /\ RoomForDollar'
  OBVIOUS
<1>1. /\ faults' <= 1
      /\ pos \in Nat \ {0} /\ Len(sentence) \in Nat /\ Len(data) \in Nat
      /\ SL868V2_MAX_MSG_LEN \in Nat /\ Len(sentence) + 10 <= SL868V2_MAX_MSG_LEN
      /\ EndOfLine <=> pos = Len(sentence) + 6
      /\ Current = Dollar <=> pos = 1
  BY Place DEF ShortLines, AtMostOne
<1>2. pos > 1 => room /\ faults <= 1
  BY DEF LinesBegun, AtMostOne
<1>3. (Deliver \/ LoseByte) => \/ EndOfLine /\ pos' = 1
                               \/ ~EndOfLine /\ pos' = pos + 1
  BY DEF Deliver, LoseByte, Advance
<1>4. CASE Deliver
  <2>1. room'
    <3>1. CASE pos = 1
      BY <1>4, <3>1 DEF Deliver, RoomForDollar
    <3>2. CASE pos # 1
      BY <1>1, <1>2, <1>4, <3>2 DEF Deliver
    <3>3. QED
      BY <3>1, <3>2
  <2>2. CASE EndOfLine
    <3>1. Len(data) <= Len(sentence) + 6
      BY <1>1, <1>2, <2>2, NotFullWithin
    <3>2. Current # Dollar
      BY <1>1, <2>2
    <3>3. Len(data') <= Len(sentence) + 7
      <4>1. CASE Emptied
        <5>1. Len(data') = 0
          BY <4>1 DEF Emptied
        <5>2. QED
          BY <1>1, <5>1
      <4>2. CASE Kept
        BY <1>1, <3>1, <4>2 DEF Kept
      <4>3. CASE Taken(Current)
        <5>1. data' = Append(data, Current) /\ data \in Seq(Chars) /\ Current \in Chars
          BY <3>2, <4>3, Place DEF Taken
        <5>2. Len(data') = Len(data) + 1
          BY <5>1, AppendProperties
        <5>3. QED
          BY <1>1, <3>1, <5>2
      <4>4. QED
        BY <1>4, <4>1, <4>2, <4>3, HandleCases DEF Deliver
    <3>4. ~Full'
      BY <1>1, <3>3 DEF Full
    <3>5. pos' = 1
      BY <1>3, <1>4, <2>2
    <3>6. QED
      BY <3>4, <3>5 DEF LinesBegun, AtMostOne, RoomForDollar
  <2>3. CASE ~EndOfLine
    <3>1. pos' # 1
      BY <1>1, <1>3, <1>4, <2>3
    <3>2. QED
      BY <2>1, <3>1 DEF LinesBegun, AtMostOne, RoomForDollar
  <2>4. QED
    BY <2>2, <2>3
<1>5. CASE LoseByte /\ pos > 1
  <2>1. room' /\ data' = data
    BY <1>2, <1>5 DEF LoseByte
  <2>2. CASE EndOfLine
    <3>1. Len(data) <= Len(sentence) + 6
      BY <1>1, <1>2, <1>5, <2>2, NotFullWithin
    <3>2. ~Full'
      BY <1>1, <2>1, <3>1 DEF Full
    <3>3. pos' = 1
      BY <1>3, <1>5, <2>2
    <3>4. QED
      BY <3>2, <3>3 DEF LinesBegun, AtMostOne, RoomForDollar
  <2>3. CASE ~EndOfLine
    <3>1. pos' # 1
      BY <1>1, <1>3, <1>5, <2>3
    <3>2. QED
      BY <2>1, <3>1 DEF LinesBegun, AtMostOne, RoomForDollar
  <2>4. QED
    BY <2>2, <2>3
<1>6. CASE DoubleByte
  <2>1. pos' = pos /\ room' = room /\ HandleRx(Current)
    BY <1>6 DEF DoubleByte
  <2>2. LinesBegun'
    BY <1>2, <2>1 DEF LinesBegun, AtMostOne
  <2>3. ASSUME pos = 1 PROVE ~Full'
    <3>1. ~Full /\ Current = Dollar
      BY <1>1, <2>3 DEF RoomForDollar
    <3>2. Taken(Current)
      BY <2>1, <3>1, HandleCases, Controls
    <3>3. data' = Append(<<>>, Current)
      BY <3>1, <3>2 DEF Taken
    <3>4. Len(data') = 1
      BY <3>3
    <3>5. QED
      BY <1>1, <3>4 DEF Full
  <2>4. QED
    BY <2>1, <2>2, <2>3 DEF RoomForDollar
<1>7. CASE UNCHANGED nmeaVars
  BY <1>7 DEF nmeaVars, LinesBegun, AtMostOne, RoomForDollar, Full
<1>8. QED
  BY <1>4, <1>5, <1>6, <1>7 DEF NmeaNext

\* Lines that leave two characters of the buffer more than they must (NMEA 0183:
\* 82 of SL868V2_MAX_MSG_LEN, 100) never fill it for the next one, doubled bytes
\* or not: when no $ is lost on the wire every $ gets in (sl868v2HandleRx).
THEOREM DollarsGetIn ==
    ASSUME ShortLines
    PROVE  NmeaSpec /\ [][LoseByte => pos > 1]_nmeaVars /\ []AtMostOne
             => []LinesBegun
<1>1. NmeaInit => LinesBegun /\ RoomForDollar
  <2> SUFFICES ASSUME NmeaInit PROVE LinesBegun /\ RoomForDollar
    OBVIOUS
  <2>1. pos = 1 /\ Len(data) = 0
    BY DEF NmeaInit
  <2>2. QED
    BY <2>1, SizeAssumption DEF LinesBegun, AtMostOne, RoomForDollar, Full
<1>2. [NmeaNext]_nmeaVars /\ [LoseByte => pos > 1]_nmeaVars
        => [NmeaNext /\ (LoseByte => pos > 1)]_nmeaVars
  OBVIOUS
<1>3. QED
  BY <1>1, <1>2, FaultInvariance, DollarStep, PTL DEF NmeaSpec

\* Together: with short lines, no $ lost on the wire and one fault in a line at
\* most, every position is one that was sent.
COROLLARY ShortLinesSent ==
    ASSUME ShortLines
    PROVE  NmeaSpec /\ [][LoseByte => pos > 1]_nmeaVars /\ []AtMostOne
             => []PositionWasSent
BY DollarsGetIn, PositionsSent, PTL

===============================================================================
