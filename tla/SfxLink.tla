------------------------------- MODULE SfxLink --------------------------------
(***************************************************************************)
(* The sending side of the SigFox link: control_task and the console task  *)
(* share one message model (usartMsg) under the mutex sf_sem, one buffer   *)
(* (message) and one UART whose interrupt transmits the buffer byte by     *)
(* byte after the mutex has been released.                                 *)
(*   src/src/sme/model/sme_model_sigfox.c                                  *)
(*   src/src/sme/Devices/uart/sigFox/sme_sigfox_execute.c, _usart.c        *)
(*   src/src/sme/uart/sme_sigfox_parse.c, sme_cdc_cmd_parse.c              *)
(*                                                                         *)
(* The console task has priority 3 and control_task priority 2, so         *)
(* control_task only steps while the console task is blocked. The mutex is *)
(* a FreeRTOS 8.0.1 one: giving it does not check who holds it.            *)
(***************************************************************************)
EXTENDS Naturals

CONSTANTS
    ConsoleRequests,  \* the sf commands the console may be given
    GpsCommands,      \* whether it may be given gps commands, too
    MaxSequence,      \* largest sequence number, 255 in a uint8_t
    FrameBytes        \* bytes the UART transmits for a frame

\* "bit" is a KEEP or BIT frame, "write" a register access, "longWrite" one with
\* a value that does not fit, "bad" a command whose arguments are refused, and
\* "unknown" a line of the family that is no command of it.
AllConsoleRequests ==
    {"enterConf", "reset", "write", "longWrite", "bad", "unknown", "enterData", "data",
     "bit"}

ASSUME ConsoleAssumption  == ConsoleRequests \subseteq AllConsoleRequests
ASSUME GpsAssumption      == GpsCommands \in BOOLEAN
ASSUME SequenceAssumption == MaxSequence \in Nat \ {0}
ASSUME FrameAssumption    == FrameBytes \in Nat \ {0}

VARIABLES
    holder,         \* who has taken sf_sem
    pc,             \* where each task is
    req,            \* the request each task works on
    sfxStatus,      \* the status the receive FSM is dispatched on
    sequenceNumber, \* of the last frame numbered
    sfxMessageIdx,  \* the sequence numbers expected in answers
    message,        \* who has last composed a frame in the shared buffer
    tx,             \* the frame the UART transmits, left = 0 when none
    modemMode,      \* the mode the modem really is in
    halted,         \* a task has used the NULL model: undefined behaviour
    overlong,       \* history: a register write that does not fit was accepted
    dropped         \* history: a busy UART has dropped a change of mode

faults == <<halted, overlong, dropped>>
vars == <<holder, pc, req, sfxStatus, sequenceNumber, sfxMessageIdx, message,
          tx, modemMode, faults>>

Tasks == {"console", "control"}
None  == "none"

\* What control_task sends: a report, the KEEP, or the exit from configuration.
ControlRequests == {"report", "keep", "exitConf"}
Requests == ControlRequests \cup AllConsoleRequests

DataRequests == {"report", "keep", "data", "bit"}
KeepRequests == {"keep", "bit"}
ConfRequests == {"enterConf", "reset", "write", "longWrite"}
ModeRequests == {"enterData", "exitConf"}

\* The frames that are sent out of message; the others are in flash.
SharedRequests == DataRequests \cup {"write"}

\* sigFoxMessageTypeE of a request.
MessageType(r) ==
    CASE r \in ModeRequests           -> "enterDataMode"
      [] r = "enterConf"              -> "enterConfMode"
      [] r = "reset"                  -> "factoryResert"
      [] r \in {"write", "longWrite"} -> "confCdcMessage"
      [] r \in {"data", "bit"}        -> "dataCdcMessage"
      [] OTHER                        -> "dataIntMessage"

MessageTypes == {MessageType(r) : r \in Requests}

sfxIsInDataStatus_Conf == sfxStatus # "enterConfMode"

sfxIsInDataStatus ==
    sfxStatus \in {"enterDataMode", "dataIntMessage", "dataCdcMessage"}

NoFrame == [kind |-> None, shared |-> FALSE, left |-> 0, intact |-> TRUE]

-----------------------------------------------------------------------------
(* Scheduling and the mutex.                                               *)

ConsoleBlocked ==
    \/ pc["console"] = "idle"
    \/ pc["console"] = "take" /\ holder # None

\* Strict priorities: control_task steps only when the console task cannot.
Runnable_Unordered(t) == ~halted

Runnable(t) == ~halted /\ (t = "control" => ConsoleBlocked)

\* Between getting the model and giving it back.
Critical == {"fill", "execute", "send"}

\* Nobody is left who would give the mutex back.
Leaked == holder # None /\ \A t \in Tasks : pc[t] \notin Critical \cup {"fail"}

At(t, label) == Runnable(t) /\ pc[t] = label
Goto(t, label) == pc' = [pc EXCEPT ![t] = label]

\* A task moves on to label; at idle it is through with its request.
GotoDone(t, label) ==
    /\ Goto(t, label)
    /\ req' = IF label = "idle" THEN [req EXCEPT ![t] = None] ELSE req

-----------------------------------------------------------------------------
Init ==
    /\ holder = None
    /\ pc = [t \in Tasks |-> "idle"]
    /\ req = [t \in Tasks |-> None]
    /\ sfxStatus = "enterDataMode"
    /\ sequenceNumber = 1
    /\ sfxMessageIdx = [data |-> 0, keep |-> 0]
    /\ message = None
    /\ tx = NoFrame
    /\ modemMode = "data"
    /\ halted = FALSE
    /\ overlong = FALSE
    /\ dropped = FALSE

\* The console has read a line of the sf family.
ConsoleRequest ==
    /\ At("console", "idle")
    /\ \E r \in ConsoleRequests : req' = [req EXCEPT !["console"] = r]
    /\ Goto("console", "take")
    /\ UNCHANGED <<holder, sfxStatus, sequenceNumber, sfxMessageIdx, message,
                   tx, modemMode, faults>>

\* control_task has an event to report, or its receive has timed out.
ControlRequest ==
    /\ At("control", "idle")
    /\ \E r \in {"report", IF sfxIsInDataStatus THEN "keep" ELSE "exitConf"} :
          req' = [req EXCEPT !["control"] = r]
    /\ Goto("control", "take")
    /\ UNCHANGED <<holder, sfxStatus, sequenceNumber, sfxMessageIdx, message,
                   tx, modemMode, faults>>

Take_NoMutex(t) ==
    /\ At(t, "take")
    /\ holder' = t
    /\ Goto(t, "fill")
    /\ UNCHANGED <<req, sfxStatus, sequenceNumber, sfxMessageIdx, message,
                   tx, modemMode, faults>>

\* getSigFoxModel with the mutex free.
Take(t) ==
    /\ At(t, "take")
    /\ holder = None
    /\ holder' = t
    /\ Goto(t, "fill")
    /\ UNCHANGED <<req, sfxStatus, sequenceNumber, sfxMessageIdx, message,
                   tx, modemMode, faults>>

\* getSigFoxModel returns NULL after a second and every command uses it; a line
\* that is no command only reports its error, and then gives the mutex. A holder
\* that runs gives it back within the second; see the README.
TakeTimeout(t) ==
    /\ At(t, "take")
    /\ Leaked
    /\ halted' = (req[t] # "unknown")
    /\ Goto(t, IF req[t] = "unknown" THEN "fail" ELSE "take")
    /\ UNCHANGED <<holder, req, sfxStatus, sequenceNumber, sfxMessageIdx,
                   message, tx, modemMode, overlong, dropped>>

getNewSequenceNumber_NoSkip(n) == (n + 1) % (MaxSequence + 1)

\* An increment of a uint8_t that skips 0.
getNewSequenceNumber(n) == IF n = MaxSequence THEN 1 ELSE n + 1

\* Parse the tokens or collect the report into the model. Data frames get
\* their sequence number here; what is no valid command goes to the error exit.
Fill(t) ==
    /\ At(t, "fill")
    /\ sequenceNumber' = IF req[t] \in DataRequests
                         THEN getNewSequenceNumber(sequenceNumber)
                         ELSE sequenceNumber
    /\ Goto(t, IF req[t] \in {"bad", "unknown"} THEN "fail" ELSE "execute")
    /\ UNCHANGED <<holder, req, sfxStatus, sfxMessageIdx, message, tx, modemMode,
                   faults>>

-----------------------------------------------------------------------------
(* executeCDCSigFox                                                        *)

\* Writing into message spoils a frame that is being transmitted out of it.
Compose(writer) ==
    /\ message' = writer
    /\ tx' = [tx EXCEPT !.intact = @ /\ ~(tx.shared /\ tx.left > 0)]

\* A gps command takes another mutex and composes into the same buffer: both
\* files define message without static, and the linker merges the two.
GpsCommand ==
    /\ At("console", "idle")
    /\ GpsCommands
    /\ Compose("gps")
    /\ UNCHANGED <<holder, pc, req, sfxStatus, sequenceNumber, sfxMessageIdx,
                   modemMode, faults>>

\* sendSigFoxConfiguration. Every command writes the ATS prefix into message.
\* A register write that is too long returns true before it sends anything,
\* so neither the sender nor executeCDCSigFox gives the mutex back.
ExecuteConf(t) ==
    /\ At(t, "execute")
    /\ req[t] \in ConfRequests
    /\ sfxStatus' = MessageType(req[t])
    /\ Compose(t)
    /\ GotoDone(t, IF req[t] = "longWrite" THEN "idle" ELSE "send")
    /\ overlong' = (overlong \/ req[t] = "longWrite")
    /\ UNCHANGED <<holder, sequenceNumber, sfxMessageIdx, modemMode, halted,
                   dropped>>

\* enterDataMode: the status is data from here on, ATX is sent from flash.
ExecuteMode(t) ==
    /\ At(t, "execute")
    /\ req[t] \in ModeRequests
    /\ sfxStatus' = MessageType(req[t])
    /\ Goto(t, "send")
    /\ UNCHANGED <<holder, req, sequenceNumber, sfxMessageIdx, message, tx,
                   modemMode, faults>>

\* A data frame, allowed in data status only. The number it carries is
\* recorded before the frame is handed to the UART.
ExecuteData(t) ==
    /\ At(t, "execute")
    /\ req[t] \in DataRequests
    /\ sfxIsInDataStatus
    /\ sfxStatus' = MessageType(req[t])
    /\ Compose(t)
    /\ sfxMessageIdx' = IF req[t] \in KeepRequests
                        THEN [sfxMessageIdx EXCEPT !.keep = sequenceNumber]
                        ELSE [sfxMessageIdx EXCEPT !.data = sequenceNumber]
    /\ Goto(t, "send")
    /\ UNCHANGED <<holder, req, sequenceNumber, modemMode, faults>>

ExecuteRefused_KeepModel(t) ==
    /\ At(t, "execute")
    /\ req[t] \in DataRequests
    /\ ~sfxIsInDataStatus
    /\ GotoDone(t, IF t = "console" THEN "fail" ELSE "idle")
    /\ UNCHANGED <<holder, sfxStatus, sequenceNumber, sfxMessageIdx, message,
                   tx, modemMode, faults>>

\* Otherwise nothing is sent and the model is released; the console then
\* reports the error and releases it a second time.
ExecuteRefused(t) ==
    /\ At(t, "execute")
    /\ req[t] \in DataRequests
    /\ ~sfxIsInDataStatus
    /\ holder' = None
    /\ GotoDone(t, IF t = "console" THEN "fail" ELSE "idle")
    /\ UNCHANGED <<sfxStatus, sequenceNumber, sfxMessageIdx, message,
                   tx, modemMode, faults>>

\* cdc_parser_dbg_sigfox: release, whoever holds the mutex, and print the help.
Fail(t) ==
    /\ At(t, "fail")
    /\ holder' = None
    /\ GotoDone(t, "idle")
    /\ UNCHANGED <<sfxStatus, sequenceNumber, sfxMessageIdx, message,
                   tx, modemMode, faults>>

\* sigfoxSendMessage: hand the frame to the UART, which drops it when it is
\* still busy with another one, and release the model in either case.
Send(t) ==
    /\ At(t, "send")
    /\ tx' = IF tx.left > 0
             THEN tx
             ELSE [kind |-> req[t], left |-> FrameBytes,
                   shared |-> req[t] \in SharedRequests,
                   intact |-> req[t] \in SharedRequests => message = t]
    /\ dropped' = (dropped \/ (tx.left > 0 /\ req[t] \in ModeRequests))
    /\ holder' = None
    /\ GotoDone(t, "idle")
    /\ UNCHANGED <<sfxStatus, sequenceNumber, sfxMessageIdx, message, modemMode,
                   halted, overlong>>

-----------------------------------------------------------------------------
(* The UART and the modem. The modem acts on a frame that arrives whole.   *)

NewMode(frame) ==
    IF frame.intact /\ frame.kind = "enterConf" THEN "conf"
    ELSE IF frame.intact /\ frame.kind \in ModeRequests THEN "data"
    ELSE modemMode

TransmitByte ==
    /\ ~halted
    /\ tx.left > 0
    /\ tx' = IF tx.left = 1 THEN NoFrame ELSE [tx EXCEPT !.left = @ - 1]
    /\ modemMode' = IF tx.left = 1 THEN NewMode(tx) ELSE modemMode
    /\ UNCHANGED <<holder, pc, req, sfxStatus, sequenceNumber, sfxMessageIdx,
                   message, faults>>

Step(t) ==
    \/ Take(t) \/ TakeTimeout(t) \/ Fill(t)
    \/ ExecuteConf(t) \/ ExecuteMode(t) \/ ExecuteData(t) \/ ExecuteRefused(t)
    \/ Fail(t) \/ Send(t)

Next ==
    \/ ConsoleRequest \/ GpsCommand \/ ControlRequest
    \/ \E t \in Tasks : Step(t)
    \/ TransmitByte

Spec == Init /\ [][Next]_vars

(* The console task, of highest priority, runs whenever it can. It sleeps   *)
(* 51 ms between two polls of its line, so control_task, although it can be *)
(* kept from running at any moment, is let in again and again.              *)
Fairness ==
    /\ WF_vars(Step("console"))
    /\ SF_vars(Step("control"))
    /\ WF_vars(TransmitByte)

FairSpec == Spec /\ Fairness

-----------------------------------------------------------------------------
(* Properties.                                                             *)

\* Types of the link's state.
TypeOK ==
    /\ holder \in Tasks \cup {None}
    /\ pc \in [Tasks -> {"idle", "take", "fill", "execute", "send", "fail"}]
    /\ req \in [Tasks -> Requests \cup {None}]
    /\ sfxStatus \in MessageTypes
    /\ sequenceNumber \in 1 .. MaxSequence
    /\ sfxMessageIdx \in [data : 0 .. MaxSequence, keep : 0 .. MaxSequence]
    /\ message \in Tasks \cup {None, "gps"}
    /\ tx \in [kind : Requests \cup {None}, shared : BOOLEAN,
               left : 0 .. FrameBytes, intact : BOOLEAN]
    /\ modemMode \in {"data", "conf"}
    /\ {halted, overlong, dropped} \subseteq BOOLEAN

\* The mutex is never taken away from a task that is using the model, although
\* a refused console command gives it twice (sme_sigfox_execute.c:190 and
\* sme_cdc_cmd_parse.c:212) and the kernel lets anybody give it.
ModelExclusive == \A t \in Tasks : pc[t] \in Critical => holder = t

\* The status that will select the parser of the answer is still the one of the
\* frame when the frame reaches the UART: no other task slips in between.
StatusOfFrame ==
    \A t \in Tasks : pc[t] = "send" => sfxStatus = MessageType(req[t])

\* Without the over-long register write every path gives the model back,
\* "release the SFX model that had an error" (sme_sigfox_execute.c:188), and no
\* caller ever works on the NULL model.
ModelReleased ==
    overlong \/ (~halted /\ \A t \in Tasks : pc[t] = "idle" => holder # t)

\* The same without the exception: what the comment at :188 says.
ModelAlwaysReleased == \A t \in Tasks : pc[t] = "idle" => holder # t

\* A frame leaves the UART as it was composed: "let other message take the huge
\* memory" (sme_sigfox_usart.c:98) does not touch the frame being transmitted.
FrameIntact == tx.left > 0 => tx.intact

\* "send the message only when are in data mode (activated by the enterDataMode
\* message)" (sme_sigfox_execute.c:173): a data frame finds the modem listening,
\* unless the UART has dropped a change of mode, which the status ignores.
DataFrameInDataMode ==
    ~dropped /\ tx.left > 0 /\ tx.kind \in DataRequests => modemMode = "data"

\* Every request is worked off, unless the model has been leaked.
RequestsComplete ==
    \A t \in Tasks : (pc[t] # "idle") ~> (pc[t] = "idle" \/ overlong)
===============================================================================
