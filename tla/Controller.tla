------------------------------ MODULE Controller ------------------------------
(***************************************************************************)
(* The board controller (src/src/sme/tasks/sme_controller.c) together with *)
(* the interrupt handlers that feed it (src/src/sme/interrupt/interrupt.c).*)
(*                                                                         *)
(* Three parties share controllerQueue, intDetect and nurembergSent:       *)
(*   - the two button interrupts, which may fire between any two steps;    *)
(*   - control_task, at priority 2;                                        *)
(*   - the SigFox receive task, at priority 1, which unlocks the buttons.  *)
(* FreeRTOS is preemptive, so the receive task only runs while control_task*)
(* is blocked on an empty queue: guards say so with ControlBlocked.        *)
(*                                                                         *)
(* The SigFox exchange itself is one bit here, awaiting: a frame is out    *)
(* and the modem has not answered it. Module SfxLink opens that bit up.    *)
(***************************************************************************)
EXTENDS Naturals, Sequences

CONSTANTS
    QueueLength,    \* length given to xQueueCreate (64)
    KeepTimeout,    \* KEEP_TIMEOUT, idle periods between two KEEPs (276)
    IoExtEnabled    \* is the interrupt of the I/O expander enabled?

ASSUME QueueLengthAssumption  == QueueLength \in Nat \ {0}
ASSUME KeepTimeoutAssumption  == KeepTimeout \in Nat \ {0}
ASSUME IoExtEnabledAssumption == IoExtEnabled \in BOOLEAN

VARIABLES
    controllerQueue,  \* the events waiting for control_task
    intDetect,        \* the buttons whose press is being served
    nurembergSent,    \* a press locks both buttons until the modem answers
    pc,               \* where control_task is
    current,          \* current_message, the event control_task serves
    loaded,           \* clearInt's copy of intDetect, between load and store
    keepTimeout,      \* idle periods seen since the last KEEP
    inDataStatus,     \* sfxIsInDataStatus()
    awaiting          \* a frame is out and has no answer yet

vars == <<controllerQueue, intDetect, nurembergSent, pc, current, loaded,
          keepTimeout, inDataStatus, awaiting>>

Buttons == {"button1Int", "button2Int"}
Events  == Buttons \cup {"externalInt", "gpsData"}
None    == "none"

-----------------------------------------------------------------------------
(* controllerQueue. Every sender uses a zero wait and ignores the result,  *)
(* so on a full queue the event is lost.                                   *)

HasRoom == Len(controllerQueue) < QueueLength

SendToFront(e) ==
    controllerQueue' = IF HasRoom THEN <<e>> \o controllerQueue ELSE controllerQueue

SendToBack_Unbounded(e) == controllerQueue' = Append(controllerQueue, e)

SendToBack(e) ==
    controllerQueue' = IF HasRoom THEN Append(controllerQueue, e) ELSE controllerQueue

ControlBlocked == pc = "receive" /\ controllerQueue = <<>>

-----------------------------------------------------------------------------
(* The machine as main() leaves it when the scheduler starts.              *)
Init ==
    /\ controllerQueue = <<>>
    /\ intDetect = {}
    /\ nurembergSent = FALSE
    /\ pc = "receive"
    /\ current = None
    /\ loaded = {}
    /\ keepTimeout = 0
    /\ inDataStatus = TRUE
    /\ awaiting = FALSE

-----------------------------------------------------------------------------
(* Interrupt handlers.                                                     *)

PressAccepted_NoLock(b) == b \notin intDetect

\* The condition under which a button callback does anything at all.
PressAccepted(b) == b \notin intDetect /\ ~nurembergSent

\* extint0_detection_callback: button 1 goes to the front of the queue.
Button1Press ==
    /\ PressAccepted("button1Int")
    /\ nurembergSent' = TRUE
    /\ intDetect' = intDetect \cup {"button1Int"}
    /\ SendToFront("button1Int")
    /\ UNCHANGED <<pc, current, loaded, keepTimeout, inDataStatus, awaiting>>

\* extint15_detection_callback: button 2 goes to the back.
Button2Press ==
    /\ PressAccepted("button2Int")
    /\ nurembergSent' = TRUE
    /\ intDetect' = intDetect \cup {"button2Int"}
    /\ SendToBack("button2Int")
    /\ UNCHANGED <<pc, current, loaded, keepTimeout, inDataStatus, awaiting>>

\* extint06_detection_callback: the I/O expander has no guard at all.
ExternalInterrupt ==
    /\ IoExtEnabled
    /\ SendToBack("externalInt")
    /\ UNCHANGED <<intDetect, nurembergSent, pc, current, loaded, keepTimeout,
                   inDataStatus, awaiting>>

-----------------------------------------------------------------------------
(* control_task.                                                           *)

\* xQueueReceive returns an event before the five minutes are over.
Receive ==
    /\ pc = "receive"
    /\ controllerQueue # <<>>
    /\ current' = Head(controllerQueue)
    /\ controllerQueue' = Tail(controllerQueue)
    /\ pc' = "execute"
    /\ UNCHANGED <<intDetect, nurembergSent, loaded, keepTimeout,
                   inDataStatus, awaiting>>

\* executeCDCSigFox sends a data frame only when in data status. The driver
\* drops the frame while it still transmits another one; that one has no answer
\* yet, so a dropped frame leaves awaiting TRUE as well.
TransmitReport == awaiting' = (awaiting \/ inDataStatus)

\* button1Execution and the gpsData case: build a report and send it.
SendReport ==
    /\ pc = "execute"
    /\ current \in {"button1Int", "gpsData"}
    /\ TransmitReport
    /\ pc' = "clear"
    /\ UNCHANGED <<controllerQueue, intDetect, nurembergSent, current, loaded,
                   keepTimeout, inDataStatus>>

QueueGpsReport_NoSend ==
    /\ pc = "execute"
    /\ current = "button2Int"
    /\ pc' = "clear"
    /\ UNCHANGED <<controllerQueue, intDetect, nurembergSent, current, loaded,
                   keepTimeout, inDataStatus, awaiting>>

\* button2Execution: queue the report of the cached position behind whatever
\* waits (the scan it also starts is in module GpsScan).
QueueGpsReport ==
    /\ pc = "execute"
    /\ current = "button2Int"
    /\ SendToBack("gpsData")
    /\ pc' = "clear"
    /\ UNCHANGED <<intDetect, nurembergSent, current, loaded, keepTimeout,
                   inDataStatus, awaiting>>

\* performExecution(interruptDetection()): no handler is registered.
ServeExternal ==
    /\ pc = "execute"
    /\ current = "externalInt"
    /\ pc' = "clear"
    /\ UNCHANGED <<controllerQueue, intDetect, nurembergSent, current, loaded,
                   keepTimeout, inDataStatus, awaiting>>

\* clearInt of an event that is no button touches the EIC only.
ClearOther ==
    /\ pc = "clear"
    /\ current \notin Buttons
    /\ current' = None
    /\ pc' = "receive"
    /\ UNCHANGED <<controllerQueue, intDetect, nurembergSent, loaded,
                   keepTimeout, inDataStatus, awaiting>>

\* intDetect &= ~bit is a load, an AND and a store on this core: an interrupt
\* may be taken in between.
ClearLoad ==
    /\ pc = "clear"
    /\ current \in Buttons
    /\ loaded' = intDetect
    /\ pc' = "store"
    /\ UNCHANGED <<controllerQueue, intDetect, nurembergSent, current,
                   keepTimeout, inDataStatus, awaiting>>

ClearStore_KeepBit ==
    /\ pc = "store"
    /\ intDetect' = loaded
    /\ loaded' = {}
    /\ current' = None
    /\ pc' = "receive"
    /\ UNCHANGED <<controllerQueue, nurembergSent, keepTimeout, inDataStatus,
                   awaiting>>

ClearStore ==
    /\ pc = "store"
    /\ intDetect' = loaded \ {current}
    /\ loaded' = {}
    /\ current' = None
    /\ pc' = "receive"
    /\ UNCHANGED <<controllerQueue, nurembergSent, keepTimeout, inDataStatus,
                   awaiting>>

IdleInData_OffByOne ==
    /\ ControlBlocked
    /\ inDataStatus
    /\ IF keepTimeout = KeepTimeout
       THEN TransmitReport /\ keepTimeout' = 0
       ELSE keepTimeout' = keepTimeout + 1 /\ UNCHANGED awaiting
    /\ UNCHANGED <<controllerQueue, intDetect, nurembergSent, pc, current,
                   loaded, inDataStatus>>

IdleInData_NoKeep ==
    /\ ControlBlocked
    /\ inDataStatus
    /\ keepTimeout' = (keepTimeout + 1) % KeepTimeout
    /\ UNCHANGED <<controllerQueue, intDetect, nurembergSent, pc, current,
                   loaded, inDataStatus, awaiting>>

\* sfxTimeOut in data status: count the idle period, at KEEP_TIMEOUT send the
\* KEEP and start counting again.
IdleInData ==
    /\ ControlBlocked
    /\ inDataStatus
    /\ IF keepTimeout + 1 = KeepTimeout
       THEN TransmitReport /\ keepTimeout' = 0
       ELSE keepTimeout' = keepTimeout + 1 /\ UNCHANGED awaiting
    /\ UNCHANGED <<controllerQueue, intDetect, nurembergSent, pc, current,
                   loaded, inDataStatus>>

\* sfxTimeOut in configuration status: sendToSfxExitConf, back to data.
IdleInConf ==
    /\ ControlBlocked
    /\ ~inDataStatus
    /\ inDataStatus' = TRUE
    /\ awaiting' = TRUE
    /\ UNCHANGED <<controllerQueue, intDetect, nurembergSent, pc, current,
                   loaded, keepTimeout>>

-----------------------------------------------------------------------------
(* The rest of the board.                                                  *)

\* A console command of the sf family: it may move between the two statuses
\* and may leave a frame out. The console task preempts control_task.
ConsoleCommand ==
    /\ inDataStatus' \in BOOLEAN
    /\ awaiting' \in {TRUE, awaiting}
    /\ UNCHANGED <<controllerQueue, intDetect, nurembergSent, pc, current,
                   loaded, keepTimeout>>

Answer_AnyTime ==
    /\ awaiting
    /\ awaiting' = FALSE
    /\ nurembergSent' = FALSE
    /\ UNCHANGED <<controllerQueue, intDetect, pc, current, loaded,
                   keepTimeout, inDataStatus>>

\* sfxHandleRx reaches clearLed at the end of an answer, good or bad.
Answer ==
    /\ ControlBlocked
    /\ awaiting
    /\ awaiting' = FALSE
    /\ nurembergSent' = FALSE
    /\ UNCHANGED <<controllerQueue, intDetect, pc, current, loaded,
                   keepTimeout, inDataStatus>>

\* The answer never comes: the command timer only switches LEDs off.
LoseAnswer ==
    /\ awaiting
    /\ awaiting' = FALSE
    /\ UNCHANGED <<controllerQueue, intDetect, nurembergSent, pc, current,
                   loaded, keepTimeout, inDataStatus>>

ControlStep ==
    \/ Receive \/ SendReport \/ QueueGpsReport \/ ServeExternal
    \/ ClearOther \/ ClearLoad \/ ClearStore

Idle == IdleInData \/ IdleInConf

Next ==
    \/ Button1Press \/ Button2Press \/ ExternalInterrupt
    \/ ControlStep \/ Idle
    \/ ConsoleCommand \/ Answer \/ LoseAnswer

Spec == Init /\ [][Next]_vars

(* control_task never stops and its receive times out, hence weak fairness. *)
(* A press or a console command need never come. A modem that is asked      *)
(* again and again answers at last: strong fairness of Answer.              *)
Fairness == WF_vars(ControlStep) /\ WF_vars(Idle) /\ SF_vars(Answer)

FairSpec == Spec /\ Fairness

-----------------------------------------------------------------------------
(* Properties.                                                             *)

Reports == Buttons \cup {"gpsData"}

\* e is queued or being served.
InFlight(e) ==
    \/ current = e
    \/ \E i \in DOMAIN controllerQueue : controllerQueue[i] = e

\* Every variable keeps its type, and control_task serves an event exactly
\* when it is not receiving.
TypeOK ==
    /\ controllerQueue \in Seq(Events)
    /\ Len(controllerQueue) <= QueueLength
    /\ intDetect \subseteq Buttons
    /\ nurembergSent \in BOOLEAN
    /\ pc \in {"receive", "execute", "clear", "store"}
    /\ current \in Events \cup {None}
    /\ (pc = "receive") <=> (current = None)
    /\ pc = "store" => current \in Buttons
    /\ loaded \subseteq Buttons
    /\ keepTimeout \in 0 .. KeepTimeout - 1
    /\ inDataStatus \in BOOLEAN
    /\ awaiting \in BOOLEAN

\* Buttons are never unlocked under a report: as long as a press or the GPS
\* report it caused is queued or being served, nurembergSent stays set
\* (interrupt.c:29 and :56 against clearLed, sme_sigfox_rx_fsm.c:41).
ReportsLockButtons == \A e \in Reports : InFlight(e) => nurembergSent

\* A press is queued once: its intDetect bit is set for as long as its event
\* is queued or served, although clearInt rewrites both bits without
\* disabling interrupts (interrupt.c:32, :59, :156, :162).
NoGhostPress == \A b \in Buttons : InFlight(b) => b \in intDetect

\* No press is swallowed: with the expander interrupt off, a set intDetect bit
\* always has its event queued or served; otherwise that button would be dead
\* for good, as only clearInt of that event resets the bit.
NoLostPress == ~IoExtEnabled => \A b \in intDetect : InFlight(b)

\* The queue never grows: with the expander interrupt off at most one event
\* waits, so no send whose result the code ignores can ever fail.
AtMostOneWaiting == ~IoExtEnabled => Len(controllerQueue) <= 1

\* The reports still to be sent. A press is owed one until control_task has sent
\* it, or has queued the GPS report in its place.
Owed ==
    {e \in Reports :
        \/ \E i \in DOMAIN controllerQueue : controllerQueue[i] = e
        \/ current = e /\ pc = "execute"}

Cycle == INSTANCE ReportCycle WITH
    Lossy <- IoExtEnabled, locked <- nurembergSent, owed <- Owed

\* One press at a time, its reports served in order and nothing unlocked before
\* they are: the board implements module ReportCycle.
ReportsInCycle == Cycle!CycleSpec

\* Every accepted press is served: its intDetect bit is cleared again.
PressServed ==
    \A b \in Buttons : (b \in intDetect) ~> (b \notin intDetect)

\* A lost answer locks the buttons only for a while: the KEEP or the exit from
\* configuration mode gives the modem another occasion to answer.
ButtonsUnlock == nurembergSent ~> ~nurembergSent
===============================================================================
