----------------------------- MODULE SfxLink_proofs -----------------------------
(***************************************************************************)
(* Proofs about SfxLink for every set of console commands, every width of  *)
(* the sequence number and every length of a frame.                        *)
(*                                                                         *)
(* Mutual exclusion does not follow from the mutex alone, because the      *)
(* error exit of the console command gives it without holding it. The      *)
(* inductive invariant adds what the priorities contribute: control_task   *)
(* is never in its critical section while the console task is in its own   *)
(* or on its error exit.                                                   *)
(***************************************************************************)
EXTENDS SfxLink, TLAPS

-----------------------------------------------------------------------------
(* The operators the model is built from.                                  *)

\* The number of the next frame is a non-zero number again.
LEMMA NumberInRange ==
    ASSUME NEW n \in 1 .. MaxSequence
    PROVE  getNewSequenceNumber(n) \in 1 .. MaxSequence
BY SequenceAssumption DEF getNewSequenceNumber

\* Every request the tasks work on is a request of the link, and has a type.
LEMMA RequestsTyped ==
    /\ ConsoleRequests \subseteq Requests
    /\ {"report", "keep", "exitConf"} \subseteq Requests
    /\ \A r \in Requests : MessageType(r) \in MessageTypes
    /\ ConfRequests \subseteq Requests
    /\ ModeRequests \subseteq Requests
    /\ DataRequests \subseteq Requests
BY ConsoleAssumption DEF Requests, ControlRequests, AllConsoleRequests,
    MessageTypes, ConfRequests, ModeRequests, DataRequests

Labels == {"idle", "take", "fill", "execute", "send", "fail"}

\* Moving a task to a label keeps the types of pc and req.
LEMMA GotoTyped ==
    ASSUME TypeOK, NEW t \in Tasks, NEW label \in Labels
    PROVE  /\ Goto(t, label) => pc' \in [Tasks -> Labels]
           /\ GotoDone(t, label) =>
                 pc' \in [Tasks -> Labels] /\ req' \in [Tasks -> Requests \cup {None}]
BY DEF TypeOK, Goto, GotoDone, Labels

-----------------------------------------------------------------------------
(* Types.                                                                  *)

LEMMA InitTyped == Init => TypeOK
<1> SUFFICES ASSUME Init PROVE TypeOK
  OBVIOUS
<1>1. sfxStatus \in MessageTypes
  <2>1. MessageType("exitConf") = "enterDataMode" /\ "exitConf" \in Requests
    BY RequestsTyped DEF MessageType, ModeRequests
  <2>2. QED
    BY <2>1, RequestsTyped DEF Init
<1>2. sequenceNumber \in 1 .. MaxSequence
  BY SequenceAssumption DEF Init
<1>3. sfxMessageIdx \in [data : 0 .. MaxSequence, keep : 0 .. MaxSequence]
  BY SequenceAssumption DEF Init
<1>4. tx \in [kind : Requests \cup {None}, shared : BOOLEAN,
               left : 0 .. FrameBytes, intact : BOOLEAN]
  BY FrameAssumption DEF Init, NoFrame
<1>5. {halted, overlong, dropped} \subseteq BOOLEAN
  BY DEF Init
<1>6. QED
  BY <1>1, <1>2, <1>3, <1>4, <1>5 DEF TypeOK, Init

\* A step of a task keeps the types.
LEMMA StepTyped ==
    ASSUME TypeOK, NEW t \in Tasks, Step(t)
    PROVE  TypeOK'
<1>1. CASE Take(t)
  BY <1>1, GotoTyped DEF Take, faults, TypeOK, Labels
<1>2. CASE TakeTimeout(t)
  BY <1>2, GotoTyped DEF TakeTimeout, TypeOK, Labels
<1>3. CASE Fill(t)
  BY <1>3, GotoTyped, NumberInRange DEF Fill, faults, TypeOK, Labels
<1>4. CASE ExecuteConf(t)
  <2>1. sfxStatus' \in MessageTypes
    BY <1>4, RequestsTyped DEF ExecuteConf
  <2>2. tx' \in [kind : Requests \cup {None}, shared : BOOLEAN,
                  left : 0 .. FrameBytes, intact : BOOLEAN]
    BY <1>4 DEF ExecuteConf, Compose, TypeOK
  <2>3. QED
    BY <1>4, <2>1, <2>2, GotoTyped DEF ExecuteConf, Compose, faults, TypeOK, Labels
<1>5. CASE ExecuteMode(t)
  BY <1>5, GotoTyped, RequestsTyped DEF ExecuteMode, faults, TypeOK, Labels
<1>6. CASE ExecuteData(t)
  <2>1. sfxStatus' \in MessageTypes
    BY <1>6, RequestsTyped DEF ExecuteData
  <2>2. tx' \in [kind : Requests \cup {None}, shared : BOOLEAN,
                  left : 0 .. FrameBytes, intact : BOOLEAN]
    BY <1>6 DEF ExecuteData, Compose, TypeOK
  <2>3. sfxMessageIdx' \in [data : 0 .. MaxSequence, keep : 0 .. MaxSequence]
    BY <1>6, SequenceAssumption DEF ExecuteData, TypeOK
  <2>4. QED
    BY <1>6, <2>1, <2>2, <2>3, GotoTyped DEF ExecuteData, Compose, faults, TypeOK, Labels
<1>7. CASE ExecuteRefused(t)
  BY <1>7, GotoTyped DEF ExecuteRefused, faults, TypeOK, Labels
<1>8. CASE Fail(t)
  BY <1>8, GotoTyped DEF Fail, faults, TypeOK, Labels
<1>9. CASE Send(t)
  <2>1. tx' \in [kind : Requests \cup {None}, shared : BOOLEAN,
                  left : 0 .. FrameBytes, intact : BOOLEAN]
    BY <1>9, FrameAssumption DEF Send, TypeOK
  <2>2. QED
    BY <1>9, <2>1, GotoTyped DEF Send, TypeOK, Labels
<1>10. QED
  BY <1>1, <1>2, <1>3, <1>4, <1>5, <1>6, <1>7, <1>8, <1>9 DEF Step

LEMMA NextTyped ==
    ASSUME TypeOK, [Next]_vars
    PROVE  TypeOK'
<1>1. CASE ConsoleRequest
  BY <1>1, GotoTyped, RequestsTyped DEF ConsoleRequest, faults, TypeOK, Tasks, Labels
<1>2. CASE ControlRequest
  BY <1>2, GotoTyped, RequestsTyped DEF ControlRequest, faults, TypeOK, Tasks, Labels
<1>3. CASE \E t \in Tasks : Step(t)
  BY <1>3, StepTyped
<1>4. CASE TransmitByte
  <2>1. tx' \in [kind : Requests \cup {None}, shared : BOOLEAN,
                  left : 0 .. FrameBytes, intact : BOOLEAN]
    BY <1>4, FrameAssumption DEF TransmitByte, NoFrame, TypeOK
  <2>2. modemMode' \in {"data", "conf"}
    BY <1>4 DEF TransmitByte, NewMode, TypeOK
  <2>3. QED
    BY <1>4, <2>1, <2>2 DEF TransmitByte, faults, TypeOK
<1>5. CASE GpsCommand
  BY <1>5 DEF GpsCommand, Compose, faults, TypeOK
<1>6. CASE UNCHANGED vars
  BY <1>6 DEF vars, faults, TypeOK
<1>7. QED
  BY <1>1, <1>2, <1>3, <1>4, <1>5, <1>6 DEF Next

\* Types of the link's state.
THEOREM TypeCorrect == Spec => []TypeOK
BY InitTyped, NextTyped, PTL DEF Spec

-----------------------------------------------------------------------------
(* Mutual exclusion.                                                       *)

\* control_task stays out while the console task may give the mutex.
PriorityGuards ==
    pc["control"] \in Critical => pc["console"] \notin Critical \cup {"fail"}

Exclusion == ModelExclusive /\ PriorityGuards /\ StatusOfFrame

\* While a task is about to give or is holding the mutex, the other one is not
\* inside its critical section.
LEMMA OtherOutside ==
    ASSUME TypeOK, Exclusion, NEW t \in Tasks, NEW u \in Tasks, u # t,
           Runnable(t), pc[t] \in Critical \cup {"fail"}
    PROVE  pc[u] \notin Critical
<1>1. CASE t = "control"
  <2>1. u = "console" /\ ConsoleBlocked
    BY <1>1 DEF Tasks, Runnable
  <2>2. QED
    BY <2>1 DEF ConsoleBlocked, Critical
<1>2. CASE t = "console"
  BY <1>2 DEF Tasks, Exclusion, PriorityGuards
<1>3. QED
  BY <1>1, <1>2 DEF Tasks

\* What happens to the labels in a step of t: only t moves, and it enters its
\* critical section only by taking the mutex while the console task is outside.
LEMMA StepMoves ==
    ASSUME TypeOK, Exclusion, NEW t \in Tasks, Step(t)
    PROVE  /\ Runnable(t)
           /\ \A u \in Tasks \ {t} : pc'[u] = pc[u] /\ req'[u] = req[u]
           /\ pc'[t] \in Critical =>
                 /\ holder' = t
                 /\ \A u \in Tasks \ {t} : pc[u] \notin Critical
           /\ pc'[t] = "fail" =>
                 \/ pc[t] \in Critical \cup {"fail"}
                 \/ \A u \in Tasks : pc[u] \notin Critical
           /\ pc[t] \notin Critical \cup {"fail"} => holder \in {None, holder'}
<1> USE DEF At, Goto, GotoDone
<1>0. Runnable(t)
  BY DEF Step, Take, TakeTimeout, Fill, ExecuteConf, ExecuteMode, ExecuteData,
         ExecuteRefused, Fail, Send
<1>a. pc[t] \in Critical => holder = t
  BY DEF Exclusion, ModelExclusive
<1>b. ASSUME pc[t] \in Critical \cup {"fail"}
      PROVE  \A u \in Tasks \ {t} : pc[u] \notin Critical
  BY <1>0, <1>b, OtherOutside
<1>1. CASE Take(t)
  <2>1. \A u \in Tasks : pc[u] \notin Critical
    BY <1>1 DEF Take, Exclusion, ModelExclusive, Tasks, None
  <2>2. QED
    BY <1>0, <1>1, <2>1 DEF Take, TypeOK, Critical
<1>2. CASE TakeTimeout(t)
  BY <1>0, <1>2 DEF TakeTimeout, Leaked, TypeOK, Critical
<1>3. CASE Fill(t)
  BY <1>0, <1>3, <1>a, <1>b DEF Fill, TypeOK, Critical
<1>4. CASE ExecuteConf(t)
  BY <1>0, <1>4, <1>a, <1>b DEF ExecuteConf, TypeOK, Critical
<1>5. CASE ExecuteMode(t)
  BY <1>0, <1>5, <1>a, <1>b DEF ExecuteMode, TypeOK, Critical
<1>6. CASE ExecuteData(t)
  BY <1>0, <1>6, <1>a, <1>b DEF ExecuteData, TypeOK, Critical
<1>7. CASE ExecuteRefused(t)
  BY <1>0, <1>7, <1>a, <1>b DEF ExecuteRefused, TypeOK, Critical
<1>8. CASE Fail(t)
  BY <1>0, <1>8, <1>a, <1>b DEF Fail, TypeOK, Critical
<1>9. CASE Send(t)
  BY <1>0, <1>9, <1>a, <1>b DEF Send, TypeOK, Critical
<1>10. QED
  BY <1>1, <1>2, <1>3, <1>4, <1>5, <1>6, <1>7, <1>8, <1>9 DEF Step

\* In a step of t, a frame that t is about to send keeps the status it has set,
\* and the status only changes inside t's critical section.
LEMMA StepStatus ==
    ASSUME TypeOK, Exclusion, NEW t \in Tasks, Step(t)
    PROVE  /\ pc'[t] = "send" => sfxStatus' = MessageType(req'[t])
           /\ pc[t] \notin Critical => sfxStatus' = sfxStatus
<1> USE DEF At, Goto, GotoDone
<1>0. pc[t] = "send" => sfxStatus = MessageType(req[t])
  BY DEF Exclusion, StatusOfFrame
<1>1. CASE Take(t)
  BY <1>1 DEF Take, TypeOK
<1>2. CASE TakeTimeout(t)
  BY <1>2 DEF TakeTimeout, TypeOK
<1>3. CASE Fill(t)
  BY <1>3 DEF Fill, TypeOK
<1>4. CASE ExecuteConf(t)
  BY <1>4 DEF ExecuteConf, TypeOK, Critical
<1>5. CASE ExecuteMode(t)
  BY <1>5 DEF ExecuteMode, TypeOK, Critical
<1>6. CASE ExecuteData(t)
  BY <1>6 DEF ExecuteData, TypeOK, Critical
<1>7. CASE ExecuteRefused(t)
  BY <1>7 DEF ExecuteRefused, TypeOK
<1>8. CASE Fail(t)
  BY <1>8 DEF Fail, TypeOK
<1>9. CASE Send(t)
  BY <1>9 DEF Send, TypeOK
<1>10. QED
  BY <1>1, <1>2, <1>3, <1>4, <1>5, <1>6, <1>7, <1>8, <1>9 DEF Step

LEMMA NextExclusive ==
    ASSUME TypeOK, Exclusion, [Next]_vars
    PROVE  Exclusion'
<1>1. CASE ConsoleRequest
  BY <1>1 DEF ConsoleRequest, At, Goto, TypeOK, Tasks, Exclusion,
      ModelExclusive, PriorityGuards, StatusOfFrame, Critical
<1>2. CASE ControlRequest
  BY <1>2 DEF ControlRequest, At, Goto, TypeOK, Tasks, Exclusion,
      ModelExclusive, PriorityGuards, StatusOfFrame, Critical
<1>3. ASSUME NEW t \in Tasks, Step(t)
      PROVE  Exclusion'
  <2>1. ModelExclusive'
    <3> SUFFICES ASSUME NEW u \in Tasks, pc'[u] \in Critical
                 PROVE  holder' = u
      BY DEF ModelExclusive, Critical
    <3>1. CASE u = t
      BY <3>1, <1>3, StepMoves
    <3>2. CASE u # t
      <4>1. pc[u] \in Critical /\ holder = u
        BY <3>2, <1>3, StepMoves DEF Exclusion, ModelExclusive
      <4>2. pc[t] \notin Critical \cup {"fail"}
        BY <4>1, <3>2, <1>3, StepMoves, OtherOutside
      <4>3. u # None
        BY DEF Tasks, None
      <4>4. QED
        BY <4>1, <4>2, <4>3, <1>3, StepMoves
    <3>3. QED
      BY <3>1, <3>2
  <2>2. PriorityGuards'
    <3> SUFFICES ASSUME pc'["control"] \in Critical,
                        pc'["console"] \in Critical \cup {"fail"}
                 PROVE  FALSE
      BY DEF PriorityGuards, Critical
    <3>1. "control" \in Tasks /\ "console" \in Tasks
      BY DEF Tasks
    <3>2. CASE t = "control"
      <4>1. ConsoleBlocked /\ pc["console"] = pc'["console"]
        BY <3>1, <3>2, <1>3, StepMoves DEF Runnable
      <4>2. QED
        BY <4>1 DEF ConsoleBlocked, Critical
    <3>3. CASE t = "console"
      <4>1. pc["control"] \in Critical
        BY <3>1, <3>3, <1>3, StepMoves
      <4>2. pc'["console"] \notin Critical
        BY <4>1, <3>1, <3>3, <1>3, StepMoves
      <4>3. pc["console"] \in Critical \cup {"fail"}
        BY <4>1, <4>2, <3>1, <3>3, <1>3, StepMoves
      <4>4. QED
        BY <4>1, <4>3 DEF Exclusion, PriorityGuards
    <3>4. QED
      BY <3>2, <3>3 DEF Tasks
  <2>3. StatusOfFrame'
    <3> SUFFICES ASSUME NEW u \in Tasks, pc'[u] = "send"
                 PROVE  sfxStatus' = MessageType(req'[u])
      BY DEF StatusOfFrame
    <3>1. CASE u = t
      BY <3>1, <1>3, StepStatus
    <3>2. CASE u # t
      <4>1. pc[u] = "send" /\ req'[u] = req[u]
        BY <3>2, <1>3, StepMoves
      <4>2. pc[t] \notin Critical
        BY <4>1, <3>2, <1>3, StepMoves, OtherOutside DEF Critical
      <4>3. sfxStatus' = sfxStatus
        BY <4>2, <1>3, StepStatus
      <4>4. QED
        BY <4>1, <4>3 DEF Exclusion, StatusOfFrame
    <3>3. QED
      BY <3>1, <3>2
  <2>4. QED
    BY <2>1, <2>2, <2>3 DEF Exclusion
<1>4. CASE TransmitByte
  BY <1>4 DEF TransmitByte, Exclusion, ModelExclusive, PriorityGuards,
      StatusOfFrame
<1>5. CASE GpsCommand
  BY <1>5 DEF GpsCommand, Exclusion, ModelExclusive, PriorityGuards,
      StatusOfFrame
<1>6. CASE UNCHANGED vars
  BY <1>6 DEF vars, Exclusion, ModelExclusive, PriorityGuards, StatusOfFrame
<1>7. QED
  BY <1>1, <1>2, <1>3, <1>4, <1>5, <1>6 DEF Next

LEMMA InitExclusive == Init => Exclusion
BY DEF Init, Exclusion, ModelExclusive, PriorityGuards, StatusOfFrame, Critical,
    Tasks

LEMMA ExclusionInvariant == Spec => []Exclusion
<1>1. TypeOK /\ Exclusion /\ [Next]_vars => Exclusion'
  BY NextExclusive
<1>2. QED
  BY <1>1, InitExclusive, TypeCorrect, PTL DEF Spec

\* The mutex stays with the task that uses the model, in spite of the second
\* release of cdc_parser_dbg_sigfox, for every set of console commands.
THEOREM Exclusive == Spec => []ModelExclusive
<1>1. Exclusion => ModelExclusive
  BY DEF Exclusion
<1>2. QED
  BY <1>1, ExclusionInvariant, PTL

\* A frame reaches the UART under its own status: its answer is parsed right.
THEOREM StatusKept == Spec => []StatusOfFrame
<1>1. Exclusion => StatusOfFrame
  BY DEF Exclusion
<1>2. QED
  BY <1>1, ExclusionInvariant, PTL

-----------------------------------------------------------------------------
(* The mutex is not leaked as long as no register write is too long.       *)

\* The mutex is with a task that will give it back, until the one request that
\* forgets to has been executed.
HolderReturns ==
    overlong \/ (/\ \A t \in Tasks : holder = t => pc[t] \in Critical \cup {"fail"}
                 /\ ~halted)

LEMMA InitReturns == Init => HolderReturns
BY DEF Init, HolderReturns, Tasks, None

LEMMA NextReturns ==
    ASSUME TypeOK, Exclusion, HolderReturns, [Next]_vars
    PROVE  HolderReturns'
<1> USE DEF At, Goto, GotoDone, faults
<1>1. CASE ConsoleRequest
  BY <1>1 DEF ConsoleRequest, HolderReturns, TypeOK, Critical, Tasks
<1>2. CASE ControlRequest
  BY <1>2 DEF ControlRequest, HolderReturns, TypeOK, Critical, Tasks
<1>3. ASSUME NEW t \in Tasks, Step(t)
      PROVE  HolderReturns'
  <2>0. None \notin Tasks
    BY DEF None, Tasks
  <2>1. CASE Take(t)
    BY <2>1 DEF Take, HolderReturns, TypeOK, Critical
  <2>2. CASE TakeTimeout(t)
    BY <2>2 DEF TakeTimeout, Leaked, HolderReturns, TypeOK
  <2>3. CASE Fill(t)
    BY <2>3 DEF Fill, HolderReturns, TypeOK, Critical
  <2>4. CASE ExecuteConf(t)
    BY <2>4 DEF ExecuteConf, HolderReturns, TypeOK, Critical
  <2>5. CASE ExecuteMode(t)
    BY <2>5 DEF ExecuteMode, HolderReturns, TypeOK, Critical
  <2>6. CASE ExecuteData(t)
    BY <2>6 DEF ExecuteData, HolderReturns, TypeOK, Critical
  <2>7. CASE ExecuteRefused(t)
    BY <2>0, <2>7 DEF ExecuteRefused, HolderReturns, TypeOK, None
  <2>8. CASE Fail(t)
    BY <2>0, <2>8 DEF Fail, HolderReturns, TypeOK, None
  <2>9. CASE Send(t)
    BY <2>0, <2>9 DEF Send, HolderReturns, TypeOK, None
  <2>10. QED
    BY <1>3, <2>1, <2>2, <2>3, <2>4, <2>5, <2>6, <2>7, <2>8, <2>9 DEF Step
<1>4. CASE TransmitByte
  BY <1>4 DEF TransmitByte, HolderReturns
<1>5. CASE GpsCommand
  BY <1>5 DEF GpsCommand, HolderReturns
<1>6. CASE UNCHANGED vars
  BY <1>6 DEF vars, HolderReturns
<1>7. QED
  BY <1>1, <1>2, <1>3, <1>4, <1>5, <1>6 DEF Next

\* Apart from the over-long register write every path gives the model back, so
\* that no caller ever gets the NULL model.
THEOREM Returned == Spec => []ModelReleased
<1>1. TypeOK /\ Exclusion /\ HolderReturns /\ [Next]_vars => HolderReturns'
  BY NextReturns
<1>2. HolderReturns => ModelReleased
  BY DEF HolderReturns, ModelReleased, Critical
<1>3. QED
  BY <1>1, <1>2, InitReturns, TypeCorrect, ExclusionInvariant, PTL DEF Spec
-----------------------------------------------------------------------------
(* Data frames and the mode of the modem. The status runs ahead of the     *)
(* modem by the frame that changes its mode; since that frame goes through *)
(* the same UART, no data frame overtakes it.                              *)

\* A task is about to hand over a frame that enters data mode,
ModeAtSend == \E t \in Tasks : pc[t] = "send" /\ req[t] \in ModeRequests

\* or such a frame is being transmitted.
ModeOnLine == tx.left > 0 /\ tx.kind \in ModeRequests

\* The four parts are needed together: a status that says data is true of the
\* modem or will be made true, no frame that enters configuration is under way
\* then unless it makes the UART drop the change back, and a frame that changes
\* the mode, being sent from flash, cannot be spoilt.
ModeFollows ==
    dropped \/
    /\ sfxIsInDataStatus => modemMode = "data" \/ ModeOnLine \/ ModeAtSend
    /\ tx.left > 0 /\ tx.kind = "enterConf" /\ sfxIsInDataStatus => ModeAtSend
    /\ tx.kind \in ModeRequests => tx.intact /\ ~tx.shared
    /\ DataFrameInDataMode

\* The kinds of requests exclude each other, and each has its kind of status.
LEMMA KindsApart ==
    /\ None \notin ModeRequests \cup DataRequests \cup {"enterConf"}
    /\ ModeRequests \cap (DataRequests \cup SharedRequests \cup ConfRequests) = {}
    /\ DataRequests \cap ConfRequests = {}
    /\ \A r \in ConfRequests :
          MessageType(r) \notin {"enterDataMode", "dataIntMessage", "dataCdcMessage"}
    /\ "enterConf" \in ConfRequests
BY DEF None, ModeRequests, DataRequests, SharedRequests, ConfRequests, MessageType

\* A step of t that neither sends nor composes leaves what the invariant reads,
\* but for the status.
LEMMA StepKeepsLine ==
    ASSUME NEW t \in Tasks,
           \/ Take(t) \/ TakeTimeout(t) \/ Fill(t) \/ ExecuteMode(t)
           \/ ExecuteRefused(t) \/ Fail(t)
    PROVE  UNCHANGED <<tx, modemMode, dropped>>
BY DEF Take, TakeTimeout, Fill, ExecuteMode, ExecuteRefused, Fail, faults

\* A frame at the UART's door stays there in a step that is not its own Send.
LEMMA SendStays ==
    ASSUME TypeOK, Exclusion, ModeAtSend, NEW t \in Tasks, Step(t), ~Send(t)
    PROVE  ModeAtSend'
<1>1. PICK u \in Tasks : pc[u] = "send" /\ req[u] \in ModeRequests
  BY DEF ModeAtSend
<1>2. CASE u # t
  <2>1. pc'[u] = "send" /\ req'[u] \in ModeRequests
    BY <1>1, <1>2, StepMoves
  <2>2. QED
    BY <2>1 DEF ModeAtSend
<1>3. CASE u = t
  <2>1. pc[t] = "send"
    BY <1>1, <1>3
  <2>2. ~TakeTimeout(t)
    BY <2>1 DEF TakeTimeout, At
  <2>3. QED
    BY <1>1, <1>3, <2>1, <2>2 DEF Step, Take, TakeTimeout, Fill, ExecuteConf, ExecuteMode,
        ExecuteData, ExecuteRefused, Fail, At
<1>4. QED
  BY <1>2, <1>3

\* While a task is sending, nobody else is.
LEMMA OneSends ==
    ASSUME TypeOK, Exclusion, NEW t \in Tasks, NEW u \in Tasks,
           pc[t] = "send", pc[u] = "send"
    PROVE  u = t
BY DEF Exclusion, ModelExclusive, Critical

LEMMA InitFollows == Init => ModeFollows
BY KindsApart DEF Init, ModeFollows, NoFrame, DataFrameInDataMode

\* Steps that leave the UART and the status alone.
LEMMA QuietFollows ==
    ASSUME TypeOK, Exclusion, ModeFollows, NEW t \in Tasks,
           Take(t) \/ TakeTimeout(t) \/ Fill(t) \/ ExecuteRefused(t) \/ Fail(t)
    PROVE  ModeFollows'
<1>1. Step(t) /\ ~Send(t)
  BY DEF Step, Take, TakeTimeout, Fill, ExecuteRefused, Fail, Send, At
<1>2. UNCHANGED <<tx, modemMode, dropped>>
  BY StepKeepsLine
<1>3. sfxStatus' = sfxStatus
  BY DEF Take, TakeTimeout, Fill, ExecuteRefused, Fail
<1>4. ModeAtSend => ModeAtSend'
  BY <1>1, SendStays
<1>5. QED
  BY <1>2, <1>3, <1>4 DEF ModeFollows, ModeOnLine, DataFrameInDataMode, sfxIsInDataStatus

\* The step that enters data status leaves its frame at the UART's door.
LEMMA ModeFollowsMode ==
    ASSUME TypeOK, Exclusion, ModeFollows, NEW t \in Tasks, ExecuteMode(t)
    PROVE  ModeFollows'
<1>1. UNCHANGED <<tx, modemMode, dropped>>
  BY StepKeepsLine
<1>2. ModeAtSend'
  BY DEF ExecuteMode, At, Goto, TypeOK, ModeAtSend
<1>3. QED
  BY <1>1, <1>2 DEF ModeFollows, ModeOnLine, DataFrameInDataMode, sfxIsInDataStatus

\* Composing spoils shared frames only, and changes nothing else on the line.
LEMMA ComposeKeeps ==
    ASSUME TypeOK, NEW w, Compose(w)
    PROVE  /\ tx'.left = tx.left /\ tx'.kind = tx.kind /\ tx'.shared = tx.shared
           /\ ~tx.shared => tx'.intact = tx.intact
BY DEF TypeOK, Compose

\* A register access leaves data status.
LEMMA ModeFollowsConf ==
    ASSUME TypeOK, Exclusion, ModeFollows, NEW t \in Tasks, ExecuteConf(t)
    PROVE  ModeFollows'
<1>1. modemMode' = modemMode /\ dropped' = dropped
  BY DEF ExecuteConf
<1>2. ~sfxIsInDataStatus'
  BY KindsApart DEF ExecuteConf, sfxIsInDataStatus
<1>3. Compose(t)
  BY DEF ExecuteConf
<1>4. QED
  BY <1>1, <1>2, <1>3, ComposeKeeps DEF ModeFollows, DataFrameInDataMode

\* A data frame is composed in data status, which it keeps.
LEMMA ModeFollowsData ==
    ASSUME TypeOK, Exclusion, ModeFollows, NEW t \in Tasks, ExecuteData(t)
    PROVE  ModeFollows'
<1>1. modemMode' = modemMode /\ dropped' = dropped /\ sfxIsInDataStatus
  BY DEF ExecuteData, faults
<1>2. Step(t) /\ ~Send(t)
  BY DEF Step, ExecuteData, Send, At
<1>3. ModeAtSend => ModeAtSend'
  BY <1>2, SendStays
<1>4. Compose(t)
  BY DEF ExecuteData
<1>5. QED
  BY <1>1, <1>3, <1>4, ComposeKeeps DEF ModeFollows, ModeOnLine, DataFrameInDataMode

\* The frame that is handed over is the only one that waits, so what the status
\* says is true of the modem when it is a data frame.
LEMMA ModeFollowsSend ==
    ASSUME TypeOK, Exclusion, ModeFollows, NEW t \in Tasks, Send(t)
    PROVE  ModeFollows'
<1>1. pc[t] = "send" /\ sfxStatus = MessageType(req[t]) /\ sfxStatus' = sfxStatus
      /\ modemMode' = modemMode
  BY DEF Send, At, Exclusion, StatusOfFrame
<1>2. ModeAtSend => req[t] \in ModeRequests
  BY <1>1, OneSends DEF ModeAtSend
<1>3. sfxIsInDataStatus' = sfxIsInDataStatus
  BY <1>1 DEF sfxIsInDataStatus
<1>4. CASE tx.left > 0
  <2>1. tx' = tx /\ dropped' = (dropped \/ req[t] \in ModeRequests)
    BY <1>4 DEF Send
  <2>2. CASE req[t] \in ModeRequests
    BY <2>1, <2>2 DEF ModeFollows
  <2>3. CASE req[t] \notin ModeRequests
    BY <2>1, <2>3, <1>1, <1>2, <1>3
      DEF ModeFollows, ModeOnLine, DataFrameInDataMode
  <2>4. QED
    BY <2>2, <2>3
<1>5. CASE ~(tx.left > 0)
  <2>1. /\ tx'.kind = req[t] /\ tx'.left = FrameBytes /\ dropped' = dropped
        /\ tx'.shared = (req[t] \in SharedRequests)
        /\ tx'.intact = (req[t] \in SharedRequests => message = t)
    BY <1>5 DEF Send, TypeOK
  <2>2. FrameBytes > 0
    BY FrameAssumption
  <2>3. CASE req[t] \in ModeRequests
    <3>1. ModeOnLine' /\ tx'.intact /\ ~tx'.shared
      BY <2>1, <2>2, <2>3, KindsApart DEF ModeOnLine
    <3>2. tx'.kind # "enterConf" /\ tx'.kind \notin DataRequests
      BY <2>1, <2>3, KindsApart
    <3>3. QED
      BY <3>1, <3>2 DEF ModeFollows, DataFrameInDataMode
  <2>4. CASE req[t] \notin ModeRequests
    <3>1. dropped \/ (sfxIsInDataStatus => modemMode = "data")
      BY <1>2, <1>5, <2>4 DEF ModeFollows, ModeOnLine
    <3>2. req[t] = "enterConf" => ~sfxIsInDataStatus
      BY <1>1, KindsApart DEF sfxIsInDataStatus
    <3>3. req[t] \in DataRequests => sfxIsInDataStatus
      BY <1>1 DEF sfxIsInDataStatus, MessageType, DataRequests, ModeRequests
    <3>4. QED
      BY <2>1, <2>4, <1>1, <1>3, <3>1, <3>2, <3>3 DEF ModeFollows, DataFrameInDataMode
  <2>5. QED
    BY <2>3, <2>4
<1>6. QED
  BY <1>4, <1>5

\* The modem changes its mode when the last byte of a frame has arrived.
LEMMA ModeFollowsByte ==
    ASSUME TypeOK, ModeFollows, TransmitByte
    PROVE  ModeFollows'
<1>1. /\ dropped' = dropped /\ sfxIsInDataStatus' = sfxIsInDataStatus
      /\ ModeAtSend' = ModeAtSend
  BY DEF TransmitByte, faults, sfxIsInDataStatus, ModeAtSend
<1>2. CASE tx.left = 1
  <2>1. tx' = NoFrame /\ modemMode' = NewMode(tx)
    BY <1>2 DEF TransmitByte
  <2>2. tx'.left = 0 /\ tx'.kind = None
    BY <2>1 DEF NoFrame
  <2>3. tx.left > 0
    BY DEF TransmitByte
  <2>4. dropped \/ (sfxIsInDataStatus => NewMode(tx) = "data" \/ ModeAtSend)
    <3>1. CASE tx.kind = "enterConf"
      BY <2>3, <3>1 DEF ModeFollows
    <3>2. CASE tx.kind \in ModeRequests
      BY <3>2, KindsApart DEF ModeFollows, NewMode
    <3>3. CASE tx.kind \notin ModeRequests \cup {"enterConf"}
      BY <3>3 DEF ModeFollows, ModeOnLine, NewMode
    <3>4. QED
      BY <3>1, <3>2, <3>3
  <2>5. QED
    BY <1>1, <2>1, <2>2, <2>4, KindsApart DEF ModeFollows, DataFrameInDataMode
<1>3. CASE tx.left # 1
  <2>1. /\ modemMode' = modemMode /\ tx'.kind = tx.kind /\ tx'.left > 0 /\ tx.left > 0
        /\ tx'.intact = tx.intact /\ tx'.shared = tx.shared
    BY <1>3 DEF TransmitByte, TypeOK
  <2>2. QED
    BY <1>1, <2>1 DEF ModeFollows, ModeOnLine, DataFrameInDataMode
<1>4. QED
  BY <1>2, <1>3

LEMMA NextFollows ==
    ASSUME TypeOK, Exclusion, ModeFollows, [Next]_vars
    PROVE  ModeFollows'
<1>1. CASE ConsoleRequest \/ ControlRequest
  <2>1. UNCHANGED <<tx, modemMode, dropped, sfxStatus>>
    BY <1>1 DEF ConsoleRequest, ControlRequest, faults
  <2>2. ModeAtSend => ModeAtSend'
    BY <1>1 DEF ConsoleRequest, ControlRequest, At, Goto, TypeOK, Tasks, ModeAtSend
  <2>3. QED
    BY <2>1, <2>2 DEF ModeFollows, ModeOnLine, DataFrameInDataMode, sfxIsInDataStatus
<1>2. CASE GpsCommand
  <2>1. UNCHANGED <<modemMode, dropped, sfxStatus, pc, req>> /\ Compose("gps")
    BY <1>2 DEF GpsCommand, faults
  <2>2. QED
    BY <2>1, ComposeKeeps
      DEF ModeFollows, ModeOnLine, ModeAtSend, DataFrameInDataMode, sfxIsInDataStatus
<1>3. ASSUME NEW t \in Tasks, Step(t)
      PROVE  ModeFollows'
  BY <1>3, QuietFollows, ModeFollowsMode, ModeFollowsConf, ModeFollowsData,
      ModeFollowsSend DEF Step
<1>4. CASE TransmitByte
  BY <1>4, ModeFollowsByte
<1>5. CASE UNCHANGED vars
  BY <1>5 DEF vars, faults, ModeFollows, ModeOnLine, ModeAtSend, DataFrameInDataMode,
      sfxIsInDataStatus
<1>6. QED
  BY <1>1, <1>2, <1>3, <1>4, <1>5 DEF Next

\* A data frame finds the modem in data mode, whatever else the console does
\* between the two, as long as the UART has dropped no change of mode.
THEOREM DataInDataMode == Spec => []DataFrameInDataMode
<1>1. TypeOK /\ Exclusion /\ ModeFollows /\ [Next]_vars => ModeFollows'
  BY NextFollows
<1>2. ModeFollows => DataFrameInDataMode
  BY DEF ModeFollows, DataFrameInDataMode
<1>3. QED
  BY <1>1, <1>2, InitFollows, TypeCorrect, ExclusionInvariant, PTL DEF Spec
===============================================================================
