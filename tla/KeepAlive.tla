------------------------------- MODULE KeepAlive ------------------------------
(***************************************************************************)
(* When the KEEP message is sent: control_task waits for an event for five *)
(* minutes at a time and counts the waits that end without one.            *)
(*   src/src/sme/tasks/sme_controller.c                                    *)
(*                                                                         *)
(* Time passes in minutes. Serving an event takes less than a minute, so   *)
(* here it takes none.                                                     *)
(***************************************************************************)
EXTENDS Naturals

CONSTANTS
    KEEP_TIMEOUT,   \* waits before a KEEP, 276
    FIVE_MINUTE,    \* minutes of a wait, 5
    LastMinute      \* bound on the time explored

ASSUME KeepTimeoutAssumption == KEEP_TIMEOUT \in Nat \ {0}
ASSUME FiveMinuteAssumption  == FIVE_MINUTE \in Nat \ {0}
ASSUME LastMinuteAssumption  == LastMinute \in Nat

VARIABLES
    waited,       \* minutes control_task has been waiting for an event
    keepTimeout,  \* waits without an event, in data mode, since the last KEEP
    inData,       \* sfxIsInDataStatus
    age,          \* minutes since the last KEEP
    interval,     \* age at the moment the last KEEP was sent, 0 if there is none
    disturbed     \* history: an event or the configuration mode since then

vars == <<waited, keepTimeout, inData, age, interval, disturbed>>

Interval == KEEP_TIMEOUT * FIVE_MINUTE

Init ==
    /\ waited = 0
    /\ keepTimeout = 0
    /\ inData = TRUE
    /\ age = 0
    /\ interval = 0
    /\ disturbed = FALSE

\* A minute passes while control_task waits. A wait ends when its time is over.
Minute ==
    /\ age < LastMinute
    /\ waited < FIVE_MINUTE
    /\ waited' = waited + 1
    /\ age' = age + 1
    /\ UNCHANGED <<keepTimeout, inData, interval, disturbed>>

\* An event arrives: it is served, and the wait starts anew.
Event ==
    /\ waited < FIVE_MINUTE
    /\ waited' = 0
    /\ disturbed' = TRUE
    /\ UNCHANGED <<keepTimeout, inData, age, interval>>

\* The console enters the configuration mode or leaves it.
ConsoleCommand ==
    /\ inData' = ~inData
    /\ disturbed' = TRUE
    /\ UNCHANGED <<waited, keepTimeout, age, interval>>

sendToSfxKeep ==
    /\ interval' = age
    /\ age' = 0
    /\ disturbed' = FALSE

TimeOut_OneLess ==
    /\ waited = FIVE_MINUTE
    /\ inData
    /\ waited' = 0
    /\ IF keepTimeout + 2 >= KEEP_TIMEOUT
       THEN keepTimeout' = 0 /\ sendToSfxKeep
       ELSE keepTimeout' = keepTimeout + 1 /\ UNCHANGED <<age, interval, disturbed>>
    /\ UNCHANGED inData

TimeOut_OneMore ==
    /\ waited = FIVE_MINUTE
    /\ inData
    /\ waited' = 0
    /\ IF keepTimeout = KEEP_TIMEOUT
       THEN keepTimeout' = 0 /\ sendToSfxKeep
       ELSE keepTimeout' = keepTimeout + 1 /\ UNCHANGED <<age, interval, disturbed>>
    /\ UNCHANGED inData

\* sfxTimeOut in data mode.
TimeOutInData ==
    /\ waited = FIVE_MINUTE
    /\ inData
    /\ waited' = 0
    /\ IF keepTimeout + 1 = KEEP_TIMEOUT
       THEN keepTimeout' = 0 /\ sendToSfxKeep
       ELSE keepTimeout' = keepTimeout + 1 /\ UNCHANGED <<age, interval, disturbed>>
    /\ UNCHANGED inData

\* sfxTimeOut in configuration mode: leave it, and do not count the wait.
TimeOutInConf ==
    /\ waited = FIVE_MINUTE
    /\ ~inData
    /\ waited' = 0
    /\ inData' = TRUE
    /\ UNCHANGED <<keepTimeout, age, interval, disturbed>>

Next == Minute \/ Event \/ ConsoleCommand \/ TimeOutInData \/ TimeOutInConf

Spec == Init /\ [][Next]_vars

-----------------------------------------------------------------------------
(* Properties.                                                             *)

\* Types of the controller's clock.
TypeOK ==
    /\ waited \in 0 .. FIVE_MINUTE
    /\ keepTimeout \in 0 .. KEEP_TIMEOUT - 1
    /\ inData \in BOOLEAN
    /\ age \in Nat
    /\ interval \in Nat
    /\ disturbed \in BOOLEAN

\* However events and configuration commands fall between the waits, two KEEPs
\* are never less than 23 hours apart: the network is not flooded.
KeepNotEarly == interval # 0 => interval >= Interval

\* On a board that is left alone they are no more than 23 hours apart.
KeepOnQuietBoard == ~disturbed => age <= Interval
===============================================================================
