----------------------------- MODULE ReportCycle ------------------------------
(***************************************************************************)
(* What the board promises of its buttons: one press at a time. A press    *)
(* locks both buttons and owes its reports, button 1 one of the sensors,   *)
(* button 2 one of the position once its scan has been started; only when  *)
(* nothing is owed any more may the buttons be unlocked.                   *)
(***************************************************************************)
CONSTANT Lossy  \* may a report be lost on its way to the task that sends it?

VARIABLES locked, owed

cycleVars == <<locked, owed>>

Press == {"button1Int", "button2Int"}

\* What is owed once r has been done.
Successor(r) == IF r = "button2Int" THEN {"gpsData"} ELSE {}

CycleInit == locked = FALSE /\ owed = {}

Lock(b) ==
    /\ ~locked
    /\ locked' = TRUE
    /\ \/ owed' = {b}
       \/ Lossy /\ owed' = {}

Serve(r) ==
    /\ r \in owed
    /\ \/ owed' = (owed \ {r}) \cup Successor(r)
       \/ Lossy /\ owed' = owed \ {r}
    /\ UNCHANGED locked

Unlock ==
    /\ owed = {}
    /\ locked' = FALSE
    /\ UNCHANGED owed

CycleNext ==
    \/ \E b \in Press : Lock(b)
    \/ \E r \in Press \cup {"gpsData"} : Serve(r)
    \/ Unlock

CycleSpec == CycleInit /\ [][CycleNext]_cycleVars
===============================================================================
