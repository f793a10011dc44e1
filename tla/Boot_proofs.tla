------------------------------ MODULE Boot_proofs ------------------------------
(***************************************************************************)
(* Safety of the board controller for every queue length and KEEP period,  *)
(* and of the whole program from reset on.                                 *)
(*                                                                         *)
(* None of the controller's properties is inductive alone. What makes them *)
(* hold is that at most one report (a press, or the GPS report of a press) *)
(* is alive at any time: nurembergSent refuses the next press, and the     *)
(* receive task, which resets it, cannot run before control_task has       *)
(* nothing left to do.                                                     *)
(*                                                                         *)
(* The second part starts at reset: main hands over the state the          *)
(* controller starts from, whichever and however many transfers to the     *)
(* expander fail, so that all of it holds of the whole program.            *)
(***************************************************************************)
EXTENDS Boot, SequenceTheorems, TLAPS

USE QueueLengthAssumption, KeepTimeoutAssumption, IoExtEnabledAssumption

\* The queue holds at most one report.
OneReport ==
    \A i, j \in DOMAIN controllerQueue :
        controllerQueue[i] \in Reports /\ controllerQueue[j] \in Reports => i = j

\* While a report is served, the only other one is the GPS report that the
\* served press of button 2 has just queued.
OnlySuccessorWaits ==
    current \in Reports =>
        \A i \in DOMAIN controllerQueue :
            controllerQueue[i] \in Reports =>
                /\ current = "button2Int"
                /\ pc \in {"clear", "store"}
                /\ controllerQueue[i] = "gpsData"

\* No press comes between the load and the store of clearInt.
LoadedIsFresh == pc = "store" => loaded = intDetect

\* The expander interrupt is the only source of externalInt.
NoExternal == ~IoExtEnabled => ~InFlight("externalInt")

IInv ==
    /\ TypeOK
    /\ ReportsLockButtons
    /\ NoGhostPress
    /\ NoLostPress
    /\ OneReport
    /\ OnlySuccessorWaits
    /\ LoadedIsFresh
    /\ NoExternal

-----------------------------------------------------------------------------
(* What the two ways of sending do to the queue.                           *)

\* r is q with e at position k, everything else being an element of q.
Inserted(q, r, e, k) ==
    /\ k \in DOMAIN r
    /\ r[k] = e
    /\ \A i \in DOMAIN r : i = k \/ \E j \in DOMAIN q : r[i] = q[j]
    /\ \A j \in DOMAIN q : \E i \in DOMAIN r : r[i] = q[j]

LEMMA FrontInserted ==
    ASSUME NEW q \in Seq(Events), NEW e \in Events
    PROVE  LET r == <<e>> \o q
           IN  /\ r \in Seq(Events)
               /\ Len(r) = Len(q) + 1
               /\ Inserted(q, r, e, 1)
<1> DEFINE r == <<e>> \o q
<1>1. r \in Seq(Events) /\ Len(r) = Len(q) + 1
  OBVIOUS
<1>2. r[1] = e /\ \A i \in 1 .. Len(q) : r[i + 1] = q[i]
  OBVIOUS
<1>3. ASSUME NEW i \in DOMAIN r, i # 1
      PROVE  \E j \in DOMAIN q : r[i] = q[j]
  <2>1. i - 1 \in 1 .. Len(q) /\ (i - 1) + 1 = i
    BY <1>1, <1>3
  <2>2. i - 1 \in DOMAIN q /\ r[i] = q[i - 1]
    BY <2>1, <1>2
  <2>3. QED
    BY <2>2
<1>4. ASSUME NEW j \in DOMAIN q
      PROVE  \E i \in DOMAIN r : r[i] = q[j]
  <2>1. j \in 1 .. Len(q) /\ j + 1 \in DOMAIN r
    BY <1>1
  <2>2. QED
    BY <2>1, <1>2
<1>5. 1 \in DOMAIN r
  BY <1>1
<1>6. QED
  BY <1>1, <1>2, <1>3, <1>4, <1>5 DEF Inserted

LEMMA BackInserted ==
    ASSUME NEW q \in Seq(Events), NEW e \in Events
    PROVE  LET r == Append(q, e)
           IN  /\ r \in Seq(Events)
               /\ Len(r) = Len(q) + 1
               /\ Inserted(q, r, e, Len(q) + 1)
               /\ \A i \in 1 .. Len(q) : r[i] = q[i]
  BY DEF Inserted

\* Receiving shifts the queue by one.
LEMMA TailShifts ==
    ASSUME NEW q \in Seq(Events), q # <<>>
    PROVE  /\ Head(q) \in Events
           /\ Head(q) = q[1]
           /\ 1 \in DOMAIN q
           /\ Tail(q) \in Seq(Events)
           /\ Len(Tail(q)) = Len(q) - 1
           /\ \A i \in DOMAIN Tail(q) : i + 1 \in DOMAIN q /\ Tail(q)[i] = q[i + 1]
           /\ \A j \in DOMAIN q : j = 1 \/ \E i \in DOMAIN Tail(q) : Tail(q)[i] = q[j]
<1>1. /\ Head(q) \in Events /\ Head(q) = q[1] /\ 1 \in DOMAIN q
      /\ Tail(q) \in Seq(Events) /\ Len(Tail(q)) = Len(q) - 1
      /\ \A i \in DOMAIN Tail(q) : i + 1 \in DOMAIN q /\ Tail(q)[i] = q[i + 1]
  OBVIOUS
<1>2. ASSUME NEW j \in DOMAIN q, j # 1
      PROVE  \E i \in DOMAIN Tail(q) : Tail(q)[i] = q[j]
  <2>1. j - 1 \in DOMAIN Tail(q) /\ (j - 1) + 1 = j
    BY <1>1, <1>2
  <2>2. QED
    BY <2>1, <1>1
<1>3. QED
  BY <1>1, <1>2

-----------------------------------------------------------------------------
(* The invariant.                                                          *)

LEMMA InitInv == Init => IInv
<1> SUFFICES ASSUME Init PROVE IInv
  OBVIOUS
<1> USE DEF Init, Reports, Buttons, Events, None
<1>1. TypeOK
  <2>1. controllerQueue \in Seq(Events) /\ Len(controllerQueue) <= QueueLength
    BY QueueLengthAssumption
  <2>2. keepTimeout \in 0 .. KeepTimeout - 1
    BY KeepTimeoutAssumption
  <2>3. QED
    BY <2>1, <2>2 DEF TypeOK
<1>2. \A e \in Events : ~InFlight(e)
  BY DEF InFlight
<1>3. ReportsLockButtons /\ NoGhostPress /\ NoLostPress /\ NoExternal
  BY <1>2 DEF ReportsLockButtons, NoGhostPress, NoLostPress, NoExternal
<1>4. OneReport /\ OnlySuccessorWaits /\ LoadedIsFresh
  BY DEF OneReport, OnlySuccessorWaits, LoadedIsFresh
<1>5. QED
  BY <1>1, <1>3, <1>4 DEF IInv

\* When no press is locked out, no report is alive at all.
LEMMA UnlockedIsQuiet ==
    ASSUME IInv, ~nurembergSent
    PROVE  /\ current \notin Reports
           /\ \A i \in DOMAIN controllerQueue : controllerQueue[i] \notin Reports
           /\ pc # "store"
  BY DEF IInv, TypeOK, ReportsLockButtons, InFlight, Reports

\* A press of either button, whichever end of the queue it is put at.
LEMMA PressInv ==
    ASSUME IInv, NEW b \in Buttons, PressAccepted(b),
           nurembergSent' = TRUE,
           intDetect' = intDetect \cup {b},
           \/ ~HasRoom /\ controllerQueue' = controllerQueue
           \/ /\ HasRoom
              /\ controllerQueue' \in Seq(Events)
              /\ Len(controllerQueue') = Len(controllerQueue) + 1
              /\ \E k \in DOMAIN controllerQueue' :
                    Inserted(controllerQueue, controllerQueue', b, k),
           UNCHANGED <<pc, current, loaded, keepTimeout, inDataStatus, awaiting>>
    PROVE  IInv'
<1> USE DEF Events, Buttons, Reports, None
<1>1. ~nurembergSent
  BY DEF PressAccepted
<1>2. /\ current \notin Reports
      /\ \A i \in DOMAIN controllerQueue : controllerQueue[i] \notin Reports
      /\ pc # "store"
  BY <1>1, UnlockedIsQuiet
<1>3. TypeOK /\ NoLostPress /\ NoGhostPress /\ NoExternal
  BY DEF IInv
<1>4. TypeOK'
  BY <1>3 DEF TypeOK, HasRoom
<1>5. ReportsLockButtons'
  BY DEF ReportsLockButtons
<1>6. LoadedIsFresh' /\ OnlySuccessorWaits'
  BY <1>2 DEF LoadedIsFresh, OnlySuccessorWaits
<1>7. CASE ~HasRoom
  <2>1. controllerQueue' = controllerQueue
    BY <1>7
  <2>2. IoExtEnabled
    <3>1. SUFFICES ASSUME ~IoExtEnabled PROVE FALSE
      OBVIOUS
    <3>2. \A i \in DOMAIN controllerQueue : controllerQueue[i] \in Events
      BY <1>3 DEF TypeOK
    <3>3. DOMAIN controllerQueue = {}
      BY <3>1, <3>2, <1>2, <1>3 DEF NoExternal, InFlight
    <3>4. Len(controllerQueue) = 0
      BY <3>3, <1>3 DEF TypeOK
    <3>5. QED
      BY <3>4, <1>7 DEF HasRoom
  <2>3. NoLostPress' /\ NoExternal'
    BY <2>2 DEF NoLostPress, NoExternal
  <2>4. NoGhostPress'
    BY <2>1, <1>3 DEF NoGhostPress, InFlight
  <2>5. OneReport'
    BY <2>1, <1>2 DEF OneReport
  <2>6. QED
    BY <1>4, <1>5, <1>6, <2>3, <2>4, <2>5 DEF IInv
<1>8. CASE HasRoom
  <2>1. PICK k \in DOMAIN controllerQueue' :
            Inserted(controllerQueue, controllerQueue', b, k)
    BY <1>8
  <2>2. OneReport'
    BY <2>1, <1>2 DEF OneReport, Inserted
  <2>3. \A e \in Events : InFlight(e)' <=> (InFlight(e) \/ e = b)
    BY <2>1 DEF InFlight, Inserted
  <2>4. NoGhostPress' /\ NoLostPress' /\ NoExternal'
    BY <2>3, <1>3 DEF NoGhostPress, NoLostPress, NoExternal, TypeOK
  <2>5. QED
    BY <1>4, <1>5, <1>6, <2>2, <2>4 DEF IInv
<1>9. QED
  BY <1>7, <1>8

LEMMA Button1Inv == IInv /\ Button1Press => IInv'
<1> SUFFICES ASSUME IInv, Button1Press PROVE IInv'
  OBVIOUS
<1>1. "button1Int" \in Buttons /\ "button1Int" \in Events
  BY DEF Buttons, Events
<1>2. controllerQueue \in Seq(Events)
  BY DEF IInv, TypeOK
<1>3. HasRoom => /\ controllerQueue' \in Seq(Events)
                 /\ Len(controllerQueue') = Len(controllerQueue) + 1
                 /\ \E k \in DOMAIN controllerQueue' :
                       Inserted(controllerQueue, controllerQueue', "button1Int", k)
  <2>1. SUFFICES ASSUME HasRoom
                 PROVE  /\ controllerQueue' \in Seq(Events)
                        /\ Len(controllerQueue') = Len(controllerQueue) + 1
                        /\ Inserted(controllerQueue, controllerQueue', "button1Int",
                                    1)
    BY DEF Inserted
  <2>2. controllerQueue' = <<"button1Int">> \o controllerQueue
    BY <2>1 DEF Button1Press, SendToFront
  <2>3. QED
    BY <1>1, <1>2, <2>2, FrontInserted
<1>4. QED
  BY <1>1, <1>3, PressInv DEF Button1Press, SendToFront

LEMMA Button2Inv == IInv /\ Button2Press => IInv'
<1> SUFFICES ASSUME IInv, Button2Press PROVE IInv'
  OBVIOUS
<1>1. "button2Int" \in Buttons /\ "button2Int" \in Events
  BY DEF Buttons, Events
<1>2. controllerQueue \in Seq(Events)
  BY DEF IInv, TypeOK
<1>3. HasRoom => /\ controllerQueue' \in Seq(Events)
                 /\ Len(controllerQueue') = Len(controllerQueue) + 1
                 /\ \E k \in DOMAIN controllerQueue' :
                       Inserted(controllerQueue, controllerQueue', "button2Int", k)
  <2>1. SUFFICES ASSUME HasRoom
                 PROVE  /\ controllerQueue' \in Seq(Events)
                        /\ Len(controllerQueue') = Len(controllerQueue) + 1
                        /\ Inserted(controllerQueue, controllerQueue', "button2Int",
                                    Len(controllerQueue) + 1)
    BY DEF Inserted
  <2>2. controllerQueue' = Append(controllerQueue, "button2Int")
    BY <2>1 DEF Button2Press, SendToBack
  <2>3. QED
    BY <1>1, <1>2, <2>2, BackInserted
<1>4. QED
  BY <1>1, <1>3, PressInv DEF Button2Press, SendToBack

LEMMA ExternalInv == IInv /\ ExternalInterrupt => IInv'
<1> SUFFICES ASSUME IInv, ExternalInterrupt PROVE IInv'
  OBVIOUS
<1> USE DEF Events, Buttons, Reports, None
<1>1. TypeOK /\ IoExtEnabled
  BY DEF IInv, ExternalInterrupt
<1>2. NoLostPress' /\ NoExternal'
  BY <1>1 DEF NoLostPress, NoExternal
<1>3. /\ controllerQueue' \in Seq(Events)
      /\ Len(controllerQueue') <= QueueLength
      /\ \A i \in DOMAIN controllerQueue' :
            controllerQueue'[i] \in Reports =>
              i \in DOMAIN controllerQueue /\ controllerQueue'[i] = controllerQueue[i]
  <2>1. CASE ~HasRoom
    BY <1>1, <2>1 DEF ExternalInterrupt, SendToBack, TypeOK
  <2>2. CASE HasRoom
    <3>1. controllerQueue' = Append(controllerQueue, "externalInt")
      BY <2>2 DEF ExternalInterrupt, SendToBack
    <3>2. QED
      BY <1>1, <2>2, <3>1 DEF TypeOK, HasRoom
  <2>3. QED
    BY <2>1, <2>2
<1>4. TypeOK'
  BY <1>1, <1>3 DEF TypeOK, ExternalInterrupt
<1>5. \A e \in Reports : InFlight(e)' => InFlight(e)
  BY <1>3 DEF InFlight, ExternalInterrupt
<1>6. ReportsLockButtons' /\ NoGhostPress'
  BY <1>5 DEF IInv, ReportsLockButtons, NoGhostPress, ExternalInterrupt
<1>7. OneReport' /\ OnlySuccessorWaits' /\ LoadedIsFresh'
  BY <1>3 DEF IInv, OneReport, OnlySuccessorWaits, LoadedIsFresh, ExternalInterrupt
<1>8. QED
  BY <1>2, <1>4, <1>6, <1>7 DEF IInv

LEMMA ReceiveInv == IInv /\ Receive => IInv'
<1> SUFFICES ASSUME IInv, Receive PROVE IInv'
  OBVIOUS
<1> USE DEF Events, Buttons, Reports, None
<1> DEFINE q == controllerQueue
<1>1. TypeOK /\ OneReport /\ current = None /\ q \in Seq(Events) /\ q # <<>>
  BY DEF IInv, TypeOK, Receive
<1>2. /\ current' = q[1] /\ current' \in Events /\ 1 \in DOMAIN q
      /\ q' \in Seq(Events) /\ Len(q') = Len(q) - 1
      /\ \A i \in DOMAIN q' : i \in Nat /\ i # 0 /\ i + 1 \in DOMAIN q /\ q'[i] = q[i + 1]
      /\ \A j \in DOMAIN q : j = 1 \/ \E i \in DOMAIN q' : q'[i] = q[j]
  BY <1>1, TailShifts DEF Receive
<1>3. TypeOK'
  BY <1>1, <1>2 DEF TypeOK, Receive
<1>4. \A e \in Events : InFlight(e)' <=> InFlight(e)
  BY <1>1, <1>2 DEF InFlight
<1>5. ReportsLockButtons' /\ NoGhostPress' /\ NoLostPress' /\ NoExternal'
  BY <1>1, <1>4 DEF IInv, ReportsLockButtons, NoGhostPress, NoLostPress,
                    NoExternal, Receive, TypeOK
<1>6. OneReport'
  BY <1>1, <1>2 DEF OneReport
<1>7. OnlySuccessorWaits'
  <2>1. SUFFICES ASSUME current' \in Reports, NEW i \in DOMAIN q', q'[i] \in Reports
                 PROVE FALSE
    BY DEF OnlySuccessorWaits
  <2>2. q[1] \in Reports /\ q[i + 1] \in Reports /\ i + 1 \in DOMAIN q /\ i + 1 # 1
    BY <2>1, <1>2
  <2>3. QED
    BY <2>2, <1>1, <1>2 DEF OneReport
<1>8. LoadedIsFresh'
  BY DEF LoadedIsFresh, Receive
<1>9. QED
  BY <1>3, <1>5, <1>6, <1>7, <1>8 DEF IInv

\* The GPS report may be queued: none was, since the press is just served.
LEMMA QueueGpsInv == IInv /\ QueueGpsReport => IInv'
<1> SUFFICES ASSUME IInv, QueueGpsReport PROVE IInv'
  OBVIOUS
<1> USE DEF Events, Buttons, Reports, None
<1> DEFINE q == controllerQueue
<1>1. /\ TypeOK /\ q \in Seq(Events) /\ current = "button2Int" /\ nurembergSent
      /\ \A i \in DOMAIN q : q[i] \notin Reports
  BY DEF IInv, TypeOK, QueueGpsReport, ReportsLockButtons, InFlight,
         OnlySuccessorWaits
<1>2. /\ q' \in Seq(Events) /\ Len(q') <= QueueLength
      /\ \/ q' = q
         \/ Inserted(q, q', "gpsData", Len(q) + 1)
  <2>1. CASE ~HasRoom
    BY <1>1, <2>1 DEF QueueGpsReport, SendToBack, TypeOK
  <2>2. CASE HasRoom
    <3>1. q' = Append(q, "gpsData")
      BY <2>2 DEF QueueGpsReport, SendToBack
    <3>2. QED
      BY <1>1, <2>2, <3>1, BackInserted DEF HasRoom
  <2>3. QED
    BY <2>1, <2>2
<1>3. TypeOK'
  BY <1>1, <1>2 DEF TypeOK, QueueGpsReport
<1>4. \A e \in Events \ {"gpsData"} : InFlight(e)' <=> InFlight(e)
  BY <1>2 DEF InFlight, Inserted, QueueGpsReport
<1>5. ReportsLockButtons'
  BY <1>1 DEF ReportsLockButtons, QueueGpsReport
<1>6. NoGhostPress' /\ NoLostPress' /\ NoExternal'
  BY <1>1, <1>4 DEF IInv, NoGhostPress, NoLostPress, NoExternal, QueueGpsReport, TypeOK
<1>7. OneReport' /\ OnlySuccessorWaits' /\ LoadedIsFresh'
  BY <1>1, <1>2 DEF IInv, OneReport, OnlySuccessorWaits, LoadedIsFresh, Inserted,
                    QueueGpsReport
<1>8. QED
  BY <1>3, <1>5, <1>6, <1>7 DEF IInv

\* The steps of control_task that neither receive nor queue: what is in flight
\* shrinks by the served event at most, together with its bit.
LEMMA ServeInv == IInv /\ (SendReport \/ ServeExternal) => IInv'
<1> SUFFICES ASSUME IInv, SendReport \/ ServeExternal PROVE IInv'
  OBVIOUS
<1> USE DEF Events, Buttons, Reports, None
<1>1. TypeOK'
  BY DEF IInv, TypeOK, SendReport, ServeExternal, TransmitReport
<1>2. QED
  BY <1>1 DEF IInv, TypeOK, SendReport, ServeExternal, ReportsLockButtons,
              NoGhostPress, NoLostPress, OneReport, OnlySuccessorWaits,
              LoadedIsFresh, NoExternal, InFlight

LEMMA ClearOtherInv == IInv /\ ClearOther => IInv'
<1> SUFFICES ASSUME IInv, ClearOther PROVE IInv'
  OBVIOUS
<1> USE DEF Events, Buttons, Reports, None
<1>1. TypeOK'
  BY DEF IInv, TypeOK, ClearOther
<1>2. \A e \in Events : InFlight(e)' => InFlight(e)
  BY DEF InFlight, ClearOther
<1>3. \A b \in Buttons : InFlight(b)' <=> InFlight(b)
  BY DEF InFlight, ClearOther
<1>4. ReportsLockButtons' /\ NoGhostPress' /\ NoLostPress' /\ NoExternal'
  BY <1>2, <1>3 DEF IInv, TypeOK, ReportsLockButtons, NoGhostPress, NoLostPress,
                    NoExternal, ClearOther
<1>5. OneReport' /\ OnlySuccessorWaits' /\ LoadedIsFresh'
  BY DEF IInv, OneReport, OnlySuccessorWaits, LoadedIsFresh, ClearOther
<1>6. QED
  BY <1>1, <1>4, <1>5 DEF IInv

LEMMA ClearLoadInv == IInv /\ ClearLoad => IInv'
<1> SUFFICES ASSUME IInv, ClearLoad PROVE IInv'
  OBVIOUS
<1> USE DEF Events, Buttons, Reports, None
<1>1. TypeOK'
  BY DEF IInv, TypeOK, ClearLoad
<1>2. QED
  BY <1>1 DEF IInv, TypeOK, ClearLoad, ReportsLockButtons, NoGhostPress,
              NoLostPress, OneReport, OnlySuccessorWaits, LoadedIsFresh,
              NoExternal, InFlight

\* The store takes away exactly the bit of the press that has been served.
LEMMA ClearStoreInv == IInv /\ ClearStore => IInv'
<1> SUFFICES ASSUME IInv, ClearStore PROVE IInv'
  OBVIOUS
<1> USE DEF Events, Buttons, Reports, None
<1>1. TypeOK /\ current \in Buttons /\ loaded = intDetect
  BY DEF IInv, TypeOK, LoadedIsFresh, ClearStore
<1>2. intDetect' = intDetect \ {current} /\ current' = None
  BY <1>1 DEF ClearStore
<1>3. TypeOK'
  BY <1>1, <1>2 DEF TypeOK, ClearStore
<1>4. \A i \in DOMAIN controllerQueue : controllerQueue[i] # current
  BY <1>1 DEF IInv, OnlySuccessorWaits
<1>5. \A e \in Events : InFlight(e)' <=> (InFlight(e) /\ e # current)
  BY <1>1, <1>2, <1>4 DEF InFlight, ClearStore
<1>6. ReportsLockButtons' /\ NoGhostPress' /\ NoLostPress' /\ NoExternal'
  BY <1>1, <1>2, <1>5 DEF IInv, TypeOK, ReportsLockButtons, NoGhostPress,
                          NoLostPress, NoExternal, ClearStore
<1>7. OneReport' /\ OnlySuccessorWaits' /\ LoadedIsFresh'
  BY DEF IInv, OneReport, OnlySuccessorWaits, LoadedIsFresh, ClearStore
<1>8. QED
  BY <1>3, <1>6, <1>7 DEF IInv

\* Nothing is in flight when control_task is blocked, so an answer may unlock.
LEMMA AnswerInv == IInv /\ Answer => IInv'
<1> SUFFICES ASSUME IInv, Answer PROVE IInv'
  OBVIOUS
<1> USE DEF Events, Buttons, Reports, None
<1>1. TypeOK'
  BY DEF IInv, TypeOK, Answer
<1>2. \A e \in Events : ~InFlight(e) /\ ~InFlight(e)'
  BY DEF IInv, TypeOK, Answer, ControlBlocked, InFlight
<1>3. ReportsLockButtons' /\ NoGhostPress' /\ NoExternal'
  BY <1>2 DEF ReportsLockButtons, NoGhostPress, NoExternal
<1>4. NoLostPress' /\ OneReport' /\ OnlySuccessorWaits' /\ LoadedIsFresh'
  BY DEF IInv, NoLostPress, OneReport, OnlySuccessorWaits, LoadedIsFresh,
         InFlight, Answer
<1>5. QED
  BY <1>1, <1>3, <1>4 DEF IInv

\* The steps that leave queue, bits, lock and control_task alone.
LEMMA ElsewhereInv ==
    IInv /\ (Idle \/ ConsoleCommand \/ LoseAnswer \/ UNCHANGED vars) => IInv'
<1> SUFFICES ASSUME IInv, Idle \/ ConsoleCommand \/ LoseAnswer \/ UNCHANGED vars
             PROVE  IInv'
  OBVIOUS
<1>1. UNCHANGED <<controllerQueue, intDetect, nurembergSent, pc, current, loaded>>
  BY DEF Idle, IdleInData, IdleInConf, ConsoleCommand, LoseAnswer, vars
<1>2. inDataStatus' \in BOOLEAN /\ awaiting' \in BOOLEAN
  BY DEF IInv, TypeOK, Idle, IdleInData, IdleInConf, ConsoleCommand, LoseAnswer,
         TransmitReport, vars
<1>3. keepTimeout' \in 0 .. KeepTimeout - 1
  <2>1. keepTimeout \in 0 .. KeepTimeout - 1
    BY DEF IInv, TypeOK
  <2>2. CASE IdleInData /\ keepTimeout + 1 = KeepTimeout
    BY <2>2, KeepTimeoutAssumption DEF IdleInData
  <2>3. CASE IdleInData /\ keepTimeout + 1 # KeepTimeout
    BY <2>1, <2>3, KeepTimeoutAssumption DEF IdleInData
  <2>4. CASE UNCHANGED keepTimeout
    BY <2>1, <2>4
  <2>5. QED
    BY <2>2, <2>3, <2>4 DEF Idle, IdleInConf, ConsoleCommand, LoseAnswer, vars
<1>4. QED
  BY <1>1, <1>2, <1>3 DEF IInv, TypeOK, ReportsLockButtons, NoGhostPress,
         NoLostPress, OneReport, OnlySuccessorWaits, LoadedIsFresh, NoExternal,
         InFlight

LEMMA StepInv == IInv /\ [Next]_vars => IInv'
  BY Button1Inv, Button2Inv, ExternalInv, ReceiveInv, QueueGpsInv, ServeInv,
     ClearOtherInv, ClearLoadInv, ClearStoreInv, AnswerInv, ElsewhereInv
     DEF Next, ControlStep

-----------------------------------------------------------------------------
(* The theorems.                                                           *)

\* The inductive invariant holds in every reachable state of the controller.
THEOREM Invariance == Spec => []IInv
  BY InitInv, StepInv, PTL DEF Spec

\* Types of the controller's state (sme_controller.c, interrupt.c).
THEOREM TypeCorrect == Spec => []TypeOK
  BY Invariance, PTL DEF IInv

\* The buttons stay locked under every report (nurembergSent, interrupt.c:20).
THEOREM ReportsLock == Spec => []ReportsLockButtons
  BY Invariance, PTL DEF IInv

\* The unprotected read-modify-write of clearInt (interrupt.c:156) never drops
\* the bit of a press that is still to be served.
THEOREM NoGhost == Spec => []NoGhostPress
  BY Invariance, PTL DEF IInv

\* With the expander interrupt off no press is ever swallowed.
THEOREM NoLost == Spec => []NoLostPress
  BY Invariance, PTL DEF IInv

\* With the expander interrupt off at most one event waits, so whatever length
\* xQueueCreate was given (sme_controller.c:32) no send is refused.
THEOREM QueueBound == Spec => []AtMostOneWaiting
<1>1. IInv => AtMostOneWaiting
  <2> SUFFICES ASSUME IInv, ~IoExtEnabled, Len(controllerQueue) > 1
               PROVE  FALSE
    BY DEF AtMostOneWaiting, IInv, TypeOK
  <2>1. controllerQueue \in Seq(Events)
    BY DEF IInv, TypeOK
  <2>2. 1 \in DOMAIN controllerQueue /\ 2 \in DOMAIN controllerQueue
    BY <2>1
  <2>3. \A i \in DOMAIN controllerQueue : controllerQueue[i] \in Reports
    BY <2>1 DEF IInv, NoExternal, InFlight, Events, Reports
  <2>4. QED
    BY <2>2, <2>3 DEF IInv, OneReport
<1>2. QED
  BY <1>1, Invariance, PTL

-----------------------------------------------------------------------------
(* The board implements ReportCycle.                                       *)

\* A full queue without a report is full of expander events.
LEMMA FullOfExternal ==
    ASSUME IInv, ~HasRoom,
           \A i \in DOMAIN controllerQueue : controllerQueue[i] \notin Reports,
           current \notin Reports \/ pc = "execute"
    PROVE  IoExtEnabled
<1> SUFFICES ASSUME ~IoExtEnabled PROVE FALSE
  OBVIOUS
<1>1. controllerQueue \in Seq(Events) /\ NoExternal
  BY DEF IInv, TypeOK
<1>2. \A i \in DOMAIN controllerQueue : controllerQueue[i] # "externalInt"
  BY <1>1 DEF NoExternal, InFlight
<1>3. \A i \in DOMAIN controllerQueue : controllerQueue[i] \in Events
  BY <1>1
<1>4. Len(controllerQueue) = 0
  BY <1>1, <1>2, <1>3 DEF Events, Reports
<1>5. QED
  BY <1>4, QueueLengthAssumption DEF HasRoom

\* A press that is accepted finds nothing owed, and owes itself.
LEMMA PressLocks ==
    ASSUME IInv, NEW b \in Buttons, PressAccepted(b),
           nurembergSent' = TRUE, UNCHANGED <<pc, current>>,
           \/ ~HasRoom /\ controllerQueue' = controllerQueue
           \/ \E k \in DOMAIN controllerQueue' :
                 Inserted(controllerQueue, controllerQueue', b, k)
    PROVE  Cycle!Lock(b)
<1>1. ~nurembergSent
  BY DEF PressAccepted
<1>2. /\ current \notin Reports
      /\ \A i \in DOMAIN controllerQueue : controllerQueue[i] \notin Reports
  BY <1>1, UnlockedIsQuiet
<1>3. CASE ~HasRoom /\ controllerQueue' = controllerQueue
  <2>1. Owed' = {}
    BY <1>2, <1>3 DEF Owed
  <2>2. QED
    BY <1>1, <1>2, <1>3, <2>1, FullOfExternal DEF Cycle!Lock
<1>4. ASSUME NEW k \in DOMAIN controllerQueue',
             Inserted(controllerQueue, controllerQueue', b, k)
      PROVE  Cycle!Lock(b)
  <2>1. Owed' = {b}
    BY <1>2, <1>4 DEF Owed, Inserted, Reports, Buttons
  <2>2. QED
    BY <1>1, <2>1 DEF Cycle!Lock
<1>5. QED
  BY <1>3, <1>4

LEMMA PressRefines ==
    IInv /\ (Button1Press \/ Button2Press) => Cycle!CycleNext
<1> SUFFICES ASSUME IInv, Button1Press \/ Button2Press PROVE Cycle!CycleNext
  OBVIOUS
<1> USE DEF Buttons, Events
<1>1. controllerQueue \in Seq(Events)
  BY DEF IInv, TypeOK
<1>2. CASE Button1Press
  <2>1. \/ ~HasRoom /\ controllerQueue' = controllerQueue
        \/ \E k \in DOMAIN controllerQueue' :
              Inserted(controllerQueue, controllerQueue', "button1Int", k)
    <3>1. CASE ~HasRoom
      BY <1>2, <3>1 DEF Button1Press, SendToFront
    <3>2. CASE HasRoom
      <4>1. controllerQueue' = <<"button1Int">> \o controllerQueue
        BY <1>2, <3>2 DEF Button1Press, SendToFront
      <4>2. Inserted(controllerQueue, controllerQueue', "button1Int", 1)
        BY <1>1, <4>1, FrontInserted
      <4>3. QED
        BY <4>2 DEF Inserted
    <3>3. QED
      BY <3>1, <3>2
  <2>2. Cycle!Lock("button1Int")
    BY <1>2, <2>1, PressLocks DEF Button1Press
  <2>3. QED
    BY <2>2 DEF Cycle!CycleNext, Cycle!Press
<1>3. CASE Button2Press
  <2>1. \/ ~HasRoom /\ controllerQueue' = controllerQueue
        \/ \E k \in DOMAIN controllerQueue' :
              Inserted(controllerQueue, controllerQueue', "button2Int", k)
    <3>1. CASE ~HasRoom
      BY <1>3, <3>1 DEF Button2Press, SendToBack
    <3>2. CASE HasRoom
      <4>1. controllerQueue' = Append(controllerQueue, "button2Int")
        BY <1>3, <3>2 DEF Button2Press, SendToBack
      <4>2. Inserted(controllerQueue, controllerQueue', "button2Int",
                     Len(controllerQueue) + 1)
        BY <1>1, <4>1, BackInserted
      <4>3. QED
        BY <4>2 DEF Inserted
    <3>3. QED
      BY <3>1, <3>2
  <2>2. Cycle!Lock("button2Int")
    BY <1>3, <2>1, PressLocks DEF Button2Press
  <2>3. QED
    BY <2>2 DEF Cycle!CycleNext, Cycle!Press
<1>4. QED
  BY <1>2, <1>3

\* Serving a report takes exactly that one off what is owed.
LEMMA SendRefines == IInv /\ SendReport => Cycle!CycleNext
<1> SUFFICES ASSUME IInv, SendReport PROVE Cycle!CycleNext
  OBVIOUS
<1>1. /\ current \in {"button1Int", "gpsData"} /\ pc = "execute"
      /\ pc' = "clear" /\ current' = current /\ controllerQueue' = controllerQueue
      /\ nurembergSent' = nurembergSent
  BY DEF SendReport
<1>2. \A i \in DOMAIN controllerQueue : controllerQueue[i] \notin Reports
  BY <1>1 DEF IInv, OnlySuccessorWaits, Reports, Buttons
<1>3. Owed = {current} /\ Owed' = {}
  BY <1>1, <1>2 DEF Owed, Reports, Buttons
<1>4. Cycle!Serve(current)
  BY <1>1, <1>3 DEF Cycle!Serve, Cycle!Successor
<1>5. QED
  BY <1>1, <1>4 DEF Cycle!CycleNext, Cycle!Press

\* The GPS report takes the place of the press of button 2.
LEMMA QueueRefines == IInv /\ QueueGpsReport => Cycle!CycleNext
<1> SUFFICES ASSUME IInv, QueueGpsReport PROVE Cycle!CycleNext
  OBVIOUS
<1>1. /\ current = "button2Int" /\ pc = "execute"
      /\ pc' = "clear" /\ current' = current
      /\ nurembergSent' = nurembergSent /\ SendToBack("gpsData")
      /\ controllerQueue \in Seq(Events)
  BY DEF QueueGpsReport, IInv, TypeOK
<1>2. \A i \in DOMAIN controllerQueue : controllerQueue[i] \notin Reports
  BY <1>1 DEF IInv, OnlySuccessorWaits, Reports, Buttons
<1>3. Owed = {"button2Int"}
  BY <1>1, <1>2 DEF Owed, Reports, Buttons
<1>4. CASE HasRoom
  <2>1. Inserted(controllerQueue, controllerQueue', "gpsData", Len(controllerQueue) + 1)
    BY <1>1, <1>4, BackInserted DEF SendToBack, Events
  <2>2. Owed' = {"gpsData"}
    BY <1>1, <1>2, <2>1 DEF Owed, Inserted, Reports, Buttons
  <2>3. QED
    BY <1>1, <1>3, <2>2 DEF Cycle!CycleNext, Cycle!Press, Cycle!Serve, Cycle!Successor
<1>5. CASE ~HasRoom
  <2>1. Owed' = {}
    BY <1>1, <1>2, <1>5 DEF Owed, SendToBack, Reports, Buttons
  <2>2. IoExtEnabled
    BY <1>1, <1>2, <1>5, FullOfExternal
  <2>3. QED
    BY <1>1, <1>3, <2>1, <2>2 DEF Cycle!CycleNext, Cycle!Press, Cycle!Serve
<1>6. QED
  BY <1>4, <1>5

\* Receiving moves a report from the queue to control_task: it is still owed.
LEMMA ReceiveKeepsOwed == IInv /\ Receive => Owed' = Owed /\ UNCHANGED nurembergSent
<1> SUFFICES ASSUME IInv, Receive PROVE Owed' = Owed
  BY DEF Receive
<1> DEFINE q == controllerQueue
<1>1. q \in Seq(Events) /\ q # <<>> /\ pc = "receive" /\ pc' = "execute"
  BY DEF IInv, TypeOK, Receive
<1>2. /\ current' = q[1] /\ 1 \in DOMAIN q
      /\ \A i \in DOMAIN q' : i + 1 \in DOMAIN q /\ q'[i] = q[i + 1]
      /\ \A j \in DOMAIN q : j = 1 \/ \E i \in DOMAIN q' : q'[i] = q[j]
  BY <1>1, TailShifts DEF Receive
<1>3. \A e \in Reports : e \in Owed' <=> e \in Owed
  BY <1>1, <1>2 DEF Owed
<1>4. QED
  BY <1>3 DEF Owed

LEMMA ExternalKeepsOwed ==
    IInv /\ ExternalInterrupt => Owed' = Owed /\ UNCHANGED nurembergSent
<1> SUFFICES ASSUME IInv, ExternalInterrupt PROVE Owed' = Owed
  BY DEF ExternalInterrupt
<1>1. /\ controllerQueue \in Seq(Events) /\ UNCHANGED <<pc, current>>
      /\ SendToBack("externalInt")
  BY DEF IInv, TypeOK, ExternalInterrupt
<1>2. \/ controllerQueue' = controllerQueue
      \/ Inserted(controllerQueue, controllerQueue', "externalInt",
                  Len(controllerQueue) + 1)
  BY <1>1, BackInserted DEF SendToBack, Events
<1>3. \A e \in Reports : e \in Owed' <=> e \in Owed
  BY <1>1, <1>2 DEF Owed, Inserted, Reports, Buttons
<1>4. QED
  BY <1>3 DEF Owed

\* Nothing is owed when control_task is blocked: the answer unlocks.
LEMMA AnswerRefines == IInv /\ Answer => Cycle!CycleNext
<1> SUFFICES ASSUME IInv, Answer PROVE Cycle!CycleNext
  OBVIOUS
<1>1. Owed = {} /\ Owed' = {} /\ nurembergSent' = FALSE
  BY DEF Answer, ControlBlocked, Owed
<1>2. QED
  BY <1>1 DEF Cycle!CycleNext, Cycle!Unlock

LEMMA StepRefines == IInv /\ [Next]_vars => [Cycle!CycleNext]_(Cycle!cycleVars)
<1> SUFFICES ASSUME IInv, [Next]_vars
             PROVE  Cycle!CycleNext \/ UNCHANGED <<nurembergSent, Owed>>
  BY DEF Cycle!cycleVars
<1>1. CASE ServeExternal \/ ClearOther \/ ClearLoad \/ ClearStore
  BY <1>1 DEF ServeExternal, ClearOther, ClearLoad, ClearStore, Owed, Reports,
      Buttons
<1>2. CASE Idle \/ ConsoleCommand \/ LoseAnswer \/ UNCHANGED vars
  BY <1>2 DEF Idle, IdleInData, IdleInConf, ConsoleCommand, LoseAnswer, vars, Owed
<1>3. QED
  BY <1>1, <1>2, PressRefines, SendRefines, QueueRefines, ReceiveKeepsOwed,
     ExternalKeepsOwed, AnswerRefines DEF Next, ControlStep

\* For every queue length and KEEP period, and with the expander interrupt on or
\* off, the board implements the report cycle: interrupt.c, sme_controller.c and
\* clearLed serve one press at a time.
THEOREM CycleImplemented == Spec => ReportsInCycle
<1>1. Init => Cycle!CycleInit
  BY DEF Init, Cycle!CycleInit, Owed, None, Reports, Buttons
<1>2. QED
  BY <1>1, StepRefines, Invariance, PTL DEF Spec, ReportsInCycle, Cycle!CycleSpec

-----------------------------------------------------------------------------
(* From reset on.                                                          *)

USE MaxFaultsAssumption

bootAll == <<vars, bootVars>>

Early  == {"conf0", "init0", "conf1", "init1"}
Late   == {"external", "read force", "write force", "isr", "window", "managers",
           "start", "run"}
Places == Early \cup {"read0", "low0", "read1", "low1", "high0", "high1"} \cup Late

BootTypeOK ==
    /\ bootPc \in Places
    /\ {interruptsOn, externalOn, queueCreated, stopped} \subseteq BOOLEAN
    /\ latched \subseteq Buttons

\* How far main has come decides on all that the rest of the program sees.
BootOrder ==
    /\ bootPc # "run" => Init
    /\ interruptsOn <=> bootPc \in {"window", "run"}
    /\ queueCreated <=> bootPc \in {"start", "run"}
    /\ bootPc \in {"window", "managers", "start", "run"} => externalOn = FALSE
    /\ StopsInWindow

\* The pins that hold the devices in reset when they are low.
Resets0 == {"BLE_RESET"}
Resets1 == {"SFX_RESET", "SFX_WAKEUP", "GPS_RESET"}

\* A port is configured once its write has not failed. Until a reset is given back
\* its copy in actual is good, unless its read failed.
Expander ==
    /\ bootPc # "conf0" /\ "conf0" \notin failed => Port0 \subseteq outputs
    /\ bootPc \notin {"conf0", "init0", "conf1"} /\ "conf1" \notin failed
        => Port1 \subseteq outputs
    /\ bootPc \in Early \cup {"read0"} => out = Pins
    /\ bootPc \in {"low0", "read1", "low1"} => Port1 \subseteq out
    /\ bootPc \in {"low0", "read1", "low1", "high0"} /\ "read0" \notin failed
        => Resets0 \subseteq actual
    /\ bootPc \in {"low1", "high0", "high1"} /\ "read1" \notin failed
        => Resets1 \subseteq actual
    /\ bootPc \in {"high1"} \cup Late /\ failed \cap {"read0", "high0"} = {}
        => Resets0 \subseteq out
    /\ bootPc \in Late /\ failed \cap {"read1", "high1"} = {}
        => Resets1 \subseteq out
    /\ bootPc = "write force" => Resets1 \cap out \subseteq actual

BootInv == IInv /\ BootTypeOK /\ BootOrder /\ Expander

-----------------------------------------------------------------------------
LEMMA BootInitInv == BootInit => BootInv
<1> SUFFICES ASSUME BootInit PROVE BootInv
  OBVIOUS
<1>1. IInv
  BY InitInv DEF BootInit
<1>2. BootTypeOK
  BY DEF BootInit, BootTypeOK, Places, Early
<1>3. BootOrder
  BY DEF BootInit, BootOrder, StopsInWindow
<1>4. Expander
  BY DEF BootInit, Expander, Early, Late
<1>5. QED
  BY <1>1, <1>2, <1>3, <1>4 DEF BootInv

\* While main runs the controller does not move.
LEMMA ControllerWaits ==
    ASSUME BootInv, UNCHANGED vars
    PROVE  IInv' /\ (bootPc # "run" => Init')
<1>1. IInv'
  BY StepInv DEF BootInv
<1>2. bootPc # "run" => Init'
  BY DEF BootInv, BootOrder, Init, vars
<1>3. QED
  BY <1>1, <1>2

\* A transfer to the expander changes its registers, actual, failed and the place only.
LEMMA TransferInv ==
    ASSUME BootInv, ExpanderInit \/ ResetDevices \/ GpsForceOn
    PROVE  BootInv'
<1> USE DEF Configure, Write, Read, At, Quiet
<1>1. /\ UNCHANGED <<vars, interruptsOn, externalOn, queueCreated, latched, stopped>>
      /\ bootPc \in Early \cup {"read0", "low0", "read1", "low1", "high0", "high1",
                                "read force", "write force"}
      /\ bootPc' \in Places \ {"window", "managers", "start", "run"}
      /\ ~stopped
  BY DEF ExpanderInit, ResetDevices, WriteBack, GpsForceOn, Early, Late, Places
<1>2. IInv' /\ (bootPc # "run" => Init')
  BY <1>1, ControllerWaits
<1>3. BootTypeOK' /\ BootOrder'
  BY <1>1, <1>2 DEF BootInv, BootTypeOK, BootOrder, StopsInWindow, Early
<1>4. Expander'
  <2> USE DEF Port0, Port1, Pins, LowPins, Resets0, Resets1, Early, Late
  <2>1. CASE ExpanderInit
    BY <2>1 DEF ExpanderInit, BootInv, Expander
  <2>2. CASE Read("read0", Port0, "low0", "read1")
    BY <2>2 DEF BootInv, Expander
  <2>3. CASE Write("low0", (out \ Port0) \cup ((actual \cap Port0) \ LowPins),
                   "read1", "read1")
    BY <2>3 DEF BootInv, Expander
  <2>4. CASE Read("read1", Port1, "low1", "high0")
    BY <2>4 DEF BootInv, Expander
  <2>5. CASE Write("low1", (out \ Port1) \cup ((actual \cap Port1) \ LowPins),
                   "high0", "high0")
    BY <2>5 DEF BootInv, Expander
  <2>6. CASE Write("high0", (out \ Port0) \cup (actual \cap Port0), "high1", "high1")
    BY <2>6 DEF BootInv, Expander
  <2>7. CASE Write("high1", (out \ Port1) \cup (actual \cap Port1),
                   "external", "external")
    BY <2>7 DEF BootInv, Expander
  <2>8. CASE GpsForceOn
    BY <2>8 DEF GpsForceOn, BootInv, Expander
  <2>9. QED
    BY <2>1, <2>2, <2>3, <2>4, <2>5, <2>6, <2>7, <2>8
       DEF ResetDevices, WriteBack
<1>5. QED
  BY <1>2, <1>3, <1>4 DEF BootInv

\* The other steps of main leave the expander alone.
LEMMA StartInv ==
    ASSUME BootInv,
           EnableExternal \/ IsrInit \/ ManagersInit \/ CtrlInit \/ StartScheduler
    PROVE  BootInv'
<1> USE DEF EnableExternal, IsrInit, ManagersInit, CtrlInit, StartScheduler, At, Quiet
<1>1. /\ UNCHANGED <<vars, latched, out, outputs, actual, failed, stopped>>
      /\ bootPc # "run" /\ ~stopped
  OBVIOUS
<1>2. IInv' /\ Init'
  BY <1>1, ControllerWaits
<1>3. BootTypeOK' /\ BootOrder'
  <2> USE DEF BootInv, BootTypeOK, BootOrder, StopsInWindow, Places, Late, Early
  <2>1. CASE EnableExternal
    <3>1. /\ UNCHANGED <<interruptsOn, queueCreated>>
          /\ externalOn' = TRUE /\ bootPc' = "read force"
          /\ interruptsOn = FALSE /\ queueCreated = FALSE
      BY <1>1, <2>1
    <3>2. BootTypeOK'
      BY <1>1, <3>1
    <3>3. BootOrder'
      BY <1>1, <1>2, <3>1
    <3>4. QED
      BY <3>2, <3>3
  <2>2. CASE IsrInit
    <3>1. /\ interruptsOn' = TRUE /\ queueCreated = FALSE /\ queueCreated' = FALSE
          /\ externalOn' = FALSE /\ bootPc' = "window"
      BY <1>1, <2>2
    <3>2. BootTypeOK'
      BY <1>1, <3>1
    <3>3. BootOrder'
      BY <1>1, <1>2, <3>1
    <3>4. QED
      BY <3>2, <3>3
  <2>3. CASE ManagersInit
    <3>1. /\ queueCreated = FALSE /\ queueCreated' = FALSE /\ interruptsOn' = FALSE
          /\ externalOn' = FALSE /\ bootPc' = "managers"
      BY <1>1, <2>3
    <3>2. BootTypeOK'
      BY <1>1, <3>1
    <3>3. BootOrder'
      BY <1>1, <1>2, <3>1
    <3>4. QED
      BY <3>2, <3>3
  <2>4. CASE CtrlInit
    <3>1. /\ interruptsOn = FALSE /\ interruptsOn' = FALSE /\ queueCreated' = TRUE
          /\ externalOn' = FALSE /\ bootPc' = "start"
      BY <1>1, <2>4
    <3>2. BootTypeOK'
      BY <1>1, <3>1
    <3>3. BootOrder'
      BY <1>1, <1>2, <3>1
    <3>4. QED
      BY <3>2, <3>3
  <2>5. CASE StartScheduler
    BY <1>1, <1>2, <2>5
  <2>6. QED
    BY <2>1, <2>2, <2>3, <2>4, <2>5
<1>4. Expander'
  BY <1>1 DEF BootInv, Expander, Early, Late
<1>5. QED
  BY <1>2, <1>3, <1>4 DEF BootInv

\* A latched press that is taken is one of the controller, or it stops the board.
LEMMA LatchedIsAPress ==
    ASSUME BootInv, NEW b \in Buttons, TakeLatched(b)
    PROVE  /\ [Next]_vars
           /\ bootPc # "run" => UNCHANGED vars /\ bootPc = "window"
           /\ stopped' => bootPc = "window"
<1>1. interruptsOn /\ ~stopped
  BY DEF TakeLatched
<1>2. \/ bootPc = "window" /\ ~queueCreated
      \/ bootPc = "run" /\ queueCreated
  BY <1>1 DEF BootInv, BootOrder
<1>3. CASE ~queueCreated
  BY <1>2, <1>3 DEF TakeLatched
<1>4. CASE queueCreated
  BY <1>1, <1>2, <1>4 DEF TakeLatched, Next
<1>5. QED
  BY <1>3, <1>4

LEMMA PressesInv ==
    ASSUME BootInv, NEW b \in Buttons, PressAtBoot(b) \/ TakeLatched(b)
    PROVE  BootInv'
<1>1. /\ UNCHANGED <<bootPc, interruptsOn, externalOn, queueCreated, out, outputs, actual, failed>>
      /\ latched' \subseteq latched \cup {b}
      /\ stopped' \in BOOLEAN
  BY DEF PressAtBoot, TakeLatched, BootInv, BootTypeOK
<1>2. /\ [Next]_vars
      /\ bootPc # "run" => UNCHANGED vars
      /\ stopped' => bootPc = "window"
  <2>1. CASE TakeLatched(b)
    BY <2>1, LatchedIsAPress
  <2>2. CASE PressAtBoot(b)
    BY <2>2 DEF PressAtBoot, BootInv, BootOrder, StopsInWindow
  <2>3. QED
    BY <2>1, <2>2
<1>3. IInv'
  BY <1>2, StepInv DEF BootInv
<1>4. bootPc # "run" => Init'
  BY <1>2, ControllerWaits
<1>5. BootTypeOK' /\ BootOrder'
  BY <1>1, <1>2, <1>4 DEF BootInv, BootTypeOK, BootOrder, StopsInWindow
<1>6. Expander'
  BY <1>1, ZenonT(60) DEF BootInv, Expander
<1>7. QED
  BY <1>3, <1>5, <1>6 DEF BootInv

LEMMA RunInv == ASSUME BootInv, Run PROVE BootInv'
<1>1. bootPc = "run" /\ UNCHANGED bootVars
  BY DEF Run
<1>2. IInv'
  BY StepInv DEF Run, BootInv
<1>3. BootTypeOK' /\ BootOrder' /\ Expander'
  BY <1>1 DEF bootVars, BootInv, BootTypeOK, BootOrder, StopsInWindow, Expander
<1>4. QED
  BY <1>2, <1>3 DEF BootInv

LEMMA BootStepInv == BootInv /\ [BootNext]_bootAll => BootInv'
<1> SUFFICES ASSUME BootInv, [BootNext]_bootAll PROVE BootInv'
  OBVIOUS
<1>1. CASE BootStep
  BY <1>1, TransferInv, StartInv DEF BootStep
<1>2. CASE Run
  BY <1>2, RunInv
<1>3. CASE \E b \in Buttons : PressAtBoot(b) \/ TakeLatched(b)
  BY <1>3, PressesInv
<1>4. CASE UNCHANGED bootAll
  <2>1. IInv' /\ (bootPc # "run" => Init')
    BY <1>4, ControllerWaits DEF bootAll
  <2>2. BootTypeOK' /\ BootOrder'
    BY <1>4, <2>1 DEF bootAll, bootVars, BootInv, BootTypeOK, BootOrder, StopsInWindow
  <2>3. Expander'
    BY <1>4, ZenonT(60) DEF bootAll, bootVars, BootInv, Expander
  <2>4. QED
    BY <2>1, <2>2, <2>3 DEF BootInv
<1>5. QED
  BY <1>1, <1>2, <1>3, <1>4 DEF BootNext

\* Seen from the controller, the boot is a stutter of its first state.
LEMMA ControllerSteps == BootInv /\ [BootNext]_bootAll => [Next]_vars
<1> SUFFICES ASSUME BootInv, [BootNext]_bootAll PROVE [Next]_vars
  OBVIOUS
<1>1. CASE BootStep
  BY <1>1 DEF BootStep, ExpanderInit, ResetDevices, WriteBack, EnableExternal, GpsForceOn,
              IsrInit, ManagersInit, CtrlInit, StartScheduler, Configure, Read, Write, Quiet
<1>2. CASE \E b \in Buttons : PressAtBoot(b) \/ TakeLatched(b)
  BY <1>2, LatchedIsAPress DEF PressAtBoot
<1>3. QED
  BY <1>1, <1>2 DEF BootNext, Run, bootAll

-----------------------------------------------------------------------------
\* The invariant of the boot.
THEOREM BootInvariance == BootSpec => []BootInv
<1>1. BootSpec => BootInit /\ [][BootNext]_bootAll
  BY DEF BootSpec, bootAll
<1>2. QED
  BY <1>1, BootInitInv, BootStepInv, PTL

\* main.c brings up the controller of sme_controller.c: from reset on the board
\* implements the specification of module Controller.
THEOREM BootImplements == BootSpec => Spec
<1>1. BootSpec => BootInit /\ [][BootNext]_bootAll
  BY DEF BootSpec, bootAll
<1>2. BootInit => Init
  BY DEF BootInit
<1>3. QED
  BY <1>1, <1>2, BootInvariance, ControllerSteps, PTL DEF Spec

\* So it types its state (sme_controller.c, interrupt.c) from reset on,
THEOREM TypedFromReset == BootSpec => []TypeOK
  BY BootImplements, TypeCorrect, PTL

\* its buttons are locked under every report (interrupt.c:20),
THEOREM LockedFromReset == BootSpec => []ReportsLockButtons
  BY BootImplements, ReportsLock, PTL

\* no latched press leaves a ghost either (interrupt.c:156),
THEOREM NoGhostFromReset == BootSpec => []NoGhostPress
  BY BootImplements, NoGhost, PTL

\* and it serves one press at a time with all its reports.
THEOREM CycleFromReset == BootSpec => ReportsInCycle
  BY BootImplements, CycleImplemented, PTL

\* A press stops the board in the window of main.c:81 only.
THEOREM StopsOnlyInWindow == BootSpec => []StopsInWindow
  BY BootInvariance, PTL DEF BootInv, BootOrder

\* However many transfers fail, only three of a port can keep its devices in reset:
\* its configuration (tca6416a.c:64 and 70), its first read and the write that puts
\* back what was read.
THEOREM Released == BootSpec => []DevicesReleased
<1>1. BootInv => DevicesReleased
  BY DEF BootInv, Expander, DevicesReleased, Driven, Port0, Port1, Resets0, Resets1, Late
<1>2. QED
  BY <1>1, BootInvariance, PTL

\* As interrupt.c is compiled, with the expander line off, the scheduler starts
\* the controller in its initial state.
THEOREM HandedOver ==
    ASSUME IoExtEnabled = FALSE
    PROVE  BootSpec => HandOver
<1>1. BootSpec => BootInit /\ [][BootNext]_bootAll
  BY DEF BootSpec, bootAll
<1>2. BootInv /\ [BootNext]_bootAll
      => [bootPc # "run" /\ bootPc' = "run"
            => Init' /\ queueCreated' /\ externalOn' = IoExtEnabled]_bootAll
  <2> SUFFICES ASSUME BootInv, BootNext, bootPc # "run", bootPc' = "run"
               PROVE  Init' /\ queueCreated' /\ externalOn' = IoExtEnabled
    BY DEF bootAll
  <2>1. CASE StartScheduler
    BY <2>1, ControllerWaits
       DEF StartScheduler, At, BootInv, BootOrder
  <2>2. ~Run /\ \A b \in Buttons : ~PressAtBoot(b) /\ ~TakeLatched(b)
    BY DEF Run, PressAtBoot, TakeLatched
  <2>3. StartScheduler
    BY <2>2 DEF BootNext, BootStep, ExpanderInit, ResetDevices, WriteBack, EnableExternal,
                GpsForceOn, IsrInit, ManagersInit, CtrlInit, Configure, Read, Write
  <2>4. QED
    BY <2>1, <2>3
<1>3. QED
  BY <1>1, <1>2, BootInvariance, PTL DEF HandOver, bootAll
===============================================================================
