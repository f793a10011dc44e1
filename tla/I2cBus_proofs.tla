----------------------------- MODULE I2cBus_proofs -----------------------------
(***************************************************************************)
(* Proofs about I2cBus for every number of retries and every register the  *)
(* console may ask for: the two transfers of a read, with their retries    *)
(* and time-outs, implement the atomic read of module Registers.           *)
(***************************************************************************)
EXTENDS I2cBus, TLAPS

Labels  == {"idle", "take", "setup", "write", "read", "give", "return"}
Holding == {"setup", "write", "read", "give"}
Calls   == [phase : {"idle", "asked", "answered"}, slave : Sensors \cup {None},
            reg : Registers \cup {None}, byte : Bytes \cup {NoByte}]

\* The mutex is with exactly the task that is using the bus.
MutexHeld == \A t \in Tasks : holder = t <=> pc[t] \in Holding

\* A task and its call move together, and nothing is handed over before the end.
CallPhase ==
    \A t \in Tasks :
        /\ pc[t] = "idle" => call[t].phase = "idle"
        /\ pc[t] \in {"take", "setup", "write", "read"} =>
              /\ call[t].phase = "asked" /\ call[t].byte = NoByte
              /\ call[t].slave \in Sensors /\ call[t].reg \in Registers
        /\ pc[t] \in {"give", "return"} => call[t].phase = "answered"

\* What the packet and the sensor hold between the transfers of a read.
PacketSet ==
    \A t \in Tasks :
        /\ pc[t] = "write" => /\ packet.address = call[t].slave
                              /\ packet.data = call[t].reg
        /\ pc[t] = "read"  => /\ packet.address = call[t].slave
                              /\ packet.data = t
                              /\ pointer[call[t].slave] = call[t].reg

\* control_task reads the register its report has come to.
JobCalled ==
    pc["control"] # "idle" =>
        /\ job # NoJob
        /\ call["control"].slave = job.slave
        /\ call["control"].reg = job.reg

BusInv == TypeOK /\ MutexHeld /\ CallPhase /\ PacketSet /\ JobCalled

USE TasksAssumption, TimeoutAssumption, ConsoleAssumption

-----------------------------------------------------------------------------
(* The operators the model is built from.                                  *)

LEMMA Names ==
    /\ None \notin Sensors /\ None \notin Registers /\ None \notin Tasks
    /\ "status" \in Registers
BY DEF None, Sensors, Registers

\* A byte that is read has a type and says where it comes from.
LEMMA ByteTyped ==
    ASSUME TypeOK, NEW s \in Sensors, NEW r \in Registers
    PROVE  /\ ByteAt(s, r) \in Bytes
           /\ ByteAt(s, r).from = s /\ ByteAt(s, r).reg = r
           /\ AvailableAfter(s, r) \in SUBSET Bits
BY DEF TypeOK, ByteAt, Bytes, AvailableAfter

\* The report goes from register to register, and through both sensors.
LEMMA NextJobTyped ==
    ASSUME NEW j \in [slave : Sensors, reg : Registers], NEW ok \in BOOLEAN,
           NEW bits
    PROVE  NextJob(j, ok, bits) \in [slave : Sensors, reg : Registers] \cup {NoJob}
<1>1. j.slave \in Sensors /\ j.reg \in Registers
  OBVIOUS
<1>2. NextRegister(j.slave, j.reg, ok, bits) \in Registers \cup {None}
  BY <1>1 DEF NextRegister, OutRegister, Registers
<1>3. \A r \in Registers : [j EXCEPT !.reg = r] \in [slave : Sensors, reg : Registers]
  OBVIOUS
<1>4. [slave |-> "HTS221", reg |-> "status"] \in [slave : Sensors, reg : Registers]
  BY DEF Sensors, Registers
<1>5. QED
  BY <1>2, <1>3, <1>4 DEF NextJob

LEMMA SpoilsTyped ==
    ASSUME NEW r \in Registers, NEW ok \in BOOLEAN, NEW bits \in SUBSET Bits
    PROVE  Spoils(r, ok, bits) \in SUBSET Bits
BY DEF Spoils, Bits

-----------------------------------------------------------------------------
(* The invariant.                                                          *)

LEMMA InitInv == BusInit => BusInv
<1> SUFFICES ASSUME BusInit PROVE BusInv
  OBVIOUS
<1>1. NoCall \in Calls
  BY DEF NoCall, Calls
<1>2. call \in [Tasks -> Calls] /\ available \in [Sensors -> SUBSET Bits]
  BY <1>1 DEF BusInit, Init
<1>3. packet \in [address : Sensors \cup {None}, data : Registers \cup Tasks \cup {None}]
  BY DEF BusInit
<1>4. /\ pointer \in [Sensors -> Registers]
      /\ pc \in [Tasks -> Labels]
      /\ tries \in [Tasks -> 0 .. TIMEOUT]
      /\ buffer \in [Slots -> Bytes \cup {NoByte}]
  BY Names DEF BusInit, Labels
<1>5. TypeOK
  BY <1>2, <1>3, <1>4 DEF BusInit, TypeOK, Calls, Labels
<1>6. MutexHeld /\ CallPhase /\ PacketSet /\ JobCalled
  BY Names DEF BusInit, Init, MutexHeld, CallPhase, PacketSet, JobCalled,
      Holding, NoCall
<1>7. QED
  BY <1>5, <1>6 DEF BusInv

\* A task goes to a label, and the other one stays.
LEMMA Moves ==
    ASSUME TypeOK, NEW t \in Tasks, NEW label \in Labels, Goto(t, label)
    PROVE  /\ pc' \in [Tasks -> Labels]
           /\ pc'[t] = label
           /\ \A u \in Tasks : u # t => pc'[u] = pc[u]
BY DEF TypeOK, Goto, Labels

\* The call of a task is answered; what it has asked for stays.
LEMMA Answered ==
    ASSUME TypeOK, NEW t \in Tasks,
           call' = [call EXCEPT ![t].phase = "answered"]
    PROVE  /\ call' \in [Tasks -> Calls]
           /\ call'[t] = [call[t] EXCEPT !.phase = "answered"]
           /\ call'[t].phase = "answered" /\ call'[t].byte = call[t].byte
           /\ call'[t].slave = call[t].slave /\ call'[t].reg = call[t].reg
           /\ \A u \in Tasks : u # t => call'[u] = call[u]
BY DEF TypeOK, Calls

\* Two tasks never use the bus at once.
LEMMA OneHolds ==
    ASSUME BusInv, NEW t \in Tasks, NEW u \in Tasks, pc[t] \in Holding, u # t
    PROVE  pc[u] \notin Holding
BY DEF BusInv, MutexHeld

\* The steps of a transfer that leave the calls and the packet alone.
LEMMA QuietInv ==
    ASSUME BusInv, NEW t \in Tasks, Take(t) \/ Retry(t) \/ Give(t)
    PROVE  BusInv'
<1>1. CASE Take(t)
  <2>1. /\ pc[t] = "take" /\ holder = None /\ holder' = t
        /\ UNCHANGED <<available, call, packet, pointer, tries, work>>
        /\ pc' \in [Tasks -> Labels] /\ pc'[t] = "setup"
        /\ \A u \in Tasks : u # t => pc'[u] = pc[u]
    BY <1>1, Moves DEF Take, At, BusInv, Labels
  <2>2. TypeOK'
    BY <2>1 DEF BusInv, TypeOK, Labels, work
  <2>3. MutexHeld'
    BY <2>1, Names DEF BusInv, MutexHeld, Holding
  <2>4. CallPhase' /\ PacketSet' /\ JobCalled'
    BY <2>1 DEF BusInv, CallPhase, PacketSet, JobCalled, work
  <2>5. QED
    BY <2>2, <2>3, <2>4 DEF BusInv
<1>2. CASE Retry(t)
  <2>1. /\ UNCHANGED <<available, call, bus, pc, work>>
        /\ tries' \in [Tasks -> 0 .. TIMEOUT]
    BY <1>2 DEF Retry, BusInv, TypeOK
  <2>2. QED
    BY <2>1 DEF BusInv, TypeOK, MutexHeld, CallPhase, PacketSet, JobCalled, work,
        bus
<1>3. CASE Give(t)
  <2>1. /\ pc[t] = "give" /\ holder' = None
        /\ UNCHANGED <<available, call, packet, pointer, tries, work>>
        /\ pc' \in [Tasks -> Labels] /\ pc'[t] = "return"
        /\ \A u \in Tasks : u # t => pc'[u] = pc[u]
    BY <1>3, Moves DEF Give, At, BusInv, Labels
  <2>2. TypeOK'
    BY <2>1 DEF BusInv, TypeOK, Labels, work
  <2>3. \A u \in Tasks : u # t => pc[u] \notin Holding
    BY <2>1, OneHolds DEF Holding
  <2>4. MutexHeld'
    BY <2>1, <2>3, Names DEF MutexHeld, Holding
  <2>5. CallPhase' /\ PacketSet' /\ JobCalled'
    BY <2>1 DEF BusInv, CallPhase, PacketSet, JobCalled, work
  <2>6. QED
    BY <2>2, <2>4, <2>5 DEF BusInv
<1>4. QED
  BY <1>1, <1>2, <1>3

\* The steps that set up the packet and send the token.
LEMMA PacketInv ==
    ASSUME BusInv, NEW t \in Tasks, Setup(t) \/ WriteToken(t)
    PROVE  BusInv'
<1>1. CASE Setup(t)
  <2>1. /\ pc[t] = "setup" /\ UNCHANGED <<available, call, holder, pointer, tries, work>>
        /\ packet' = [address |-> call[t].slave, data |-> call[t].reg]
        /\ pc' \in [Tasks -> Labels] /\ pc'[t] = "write"
        /\ \A u \in Tasks : u # t => pc'[u] = pc[u]
    BY <1>1, Moves DEF Setup, At, BusInv, Labels
  <2>2. \A u \in Tasks : u # t => pc[u] \notin Holding
    BY <2>1, OneHolds DEF Holding
  <2>3. call[t].slave \in Sensors /\ call[t].reg \in Registers
    BY <2>1 DEF BusInv, CallPhase
  <2>4. TypeOK'
    BY <2>1, <2>3 DEF BusInv, TypeOK, Labels, work
  <2>5. MutexHeld' /\ CallPhase' /\ JobCalled'
    BY <2>1 DEF BusInv, MutexHeld, CallPhase, JobCalled, Holding, work
  <2>6. PacketSet'
    BY <2>1, <2>2 DEF PacketSet, Holding
  <2>7. QED
    BY <2>4, <2>5, <2>6 DEF BusInv
<1>2. CASE WriteToken(t)
  <2>1. /\ pc[t] = "write" /\ UNCHANGED <<available, call, holder, tries, work>>
        /\ packet' = [packet EXCEPT !.data = t]
        /\ pointer' = [pointer EXCEPT ![packet.address] = packet.data]
        /\ pc' \in [Tasks -> Labels] /\ pc'[t] = "read"
        /\ \A u \in Tasks : u # t => pc'[u] = pc[u]
    BY <1>2, Moves DEF WriteToken, At, BusInv, Labels
  <2>2. \A u \in Tasks : u # t => pc[u] \notin Holding
    BY <2>1, OneHolds DEF Holding
  <2>3. /\ packet.address = call[t].slave /\ packet.data = call[t].reg
        /\ call[t].slave \in Sensors /\ call[t].reg \in Registers
    BY <2>1 DEF BusInv, CallPhase, PacketSet
  <2>4. /\ packet'.address = call[t].slave /\ packet'.data = t
        /\ packet' \in [address : Sensors \cup {None},
                        data : Registers \cup Tasks \cup {None}]
    BY <2>1, <2>3 DEF BusInv, TypeOK
  <2>5. /\ pointer' \in [Sensors -> Registers]
        /\ pointer'[call[t].slave] = call[t].reg
    BY <2>1, <2>3 DEF BusInv, TypeOK
  <2>6. TypeOK'
    BY <2>1, <2>4, <2>5 DEF BusInv, TypeOK, Labels, work
  <2>7. MutexHeld' /\ CallPhase' /\ JobCalled'
    BY <2>1 DEF BusInv, MutexHeld, CallPhase, JobCalled, Holding, work
  <2>8. PacketSet'
    BY <2>1, <2>2, <2>4, <2>5 DEF PacketSet, Holding
  <2>9. QED
    BY <2>6, <2>7, <2>8 DEF BusInv
<1>3. QED
  BY <1>1, <1>2

\* A call that ends without a byte, before the bus is taken or on it.
LEMMA FailInv ==
    ASSUME BusInv, NEW t \in Tasks, TakeTimeout(t) \/ GiveUp(t)
    PROVE  BusInv'
<1>1. /\ call' = [call EXCEPT ![t].phase = "answered"]
      /\ UNCHANGED <<available, bus, tries, work>>
      /\ pc[t] \in {"take", "write", "read"}
      /\ pc' \in [Tasks -> Labels]
      /\ \/ pc[t] = "take" /\ pc'[t] = "return"
         \/ pc[t] \in {"write", "read"} /\ pc'[t] = "give"
      /\ \A u \in Tasks : u # t => pc'[u] = pc[u]
  BY Moves DEF TakeTimeout, GiveUp, At, BusInv, Labels
<1>2. /\ call' \in [Tasks -> Calls] /\ call'[t].phase = "answered"
      /\ call'[t].slave = call[t].slave /\ call'[t].reg = call[t].reg
      /\ \A u \in Tasks : u # t => call'[u] = call[u]
  BY <1>1, Answered DEF BusInv
<1>3. TypeOK'
  BY <1>1, <1>2 DEF BusInv, TypeOK, Labels, Calls, work, bus
<1>4. MutexHeld'
  BY <1>1 DEF BusInv, MutexHeld, Holding, bus
<1>5. CallPhase' /\ PacketSet'
  BY <1>1, <1>2 DEF BusInv, CallPhase, PacketSet, bus
<1>6. JobCalled'
  BY <1>1, <1>2 DEF BusInv, JobCalled, work
<1>7. QED
  BY <1>3, <1>4, <1>5, <1>6 DEF BusInv

\* What a read does to the calls: the byte reaches the task that asked for it,
\* out of the register that it asked for.
LEMMA ReadsOwn ==
    ASSUME BusInv, NEW t \in Tasks, ReadByte(t)
    PROVE  LET s == call[t].slave  r == call[t].reg IN
           /\ call[t].phase = "asked" /\ s \in Sensors /\ r \in Registers
           /\ call' = [call EXCEPT ![t].phase = "answered", ![t].byte = ByteAt(s, r)]
           /\ available' = [available EXCEPT ![s] = AvailableAfter(s, r)]
<1>1. /\ pc[t] = "read"
      /\ call' = [call EXCEPT
                     ![packet.data].byte = ByteAt(packet.address, pointer[packet.address]),
                     ![t].phase = "answered"]
      /\ available' = [available EXCEPT ![packet.address] =
                          AvailableAfter(packet.address, pointer[packet.address])]
  BY DEF ReadByte, At
<1>2. /\ call[t].phase = "asked"
      /\ call[t].slave \in Sensors /\ call[t].reg \in Registers
      /\ packet.address = call[t].slave /\ packet.data = t
      /\ pointer[packet.address] = call[t].reg
  BY <1>1 DEF BusInv, CallPhase, PacketSet
<1>3. call \in [Tasks -> Calls]
  BY DEF BusInv, TypeOK, Calls
<1>4. ASSUME NEW b
      PROVE  [call EXCEPT ![t].byte = b, ![t].phase = "answered"]
               = [call EXCEPT ![t].phase = "answered", ![t].byte = b]
  <2> DEFINE f == [call EXCEPT ![t].byte = b, ![t].phase = "answered"]
             g == [call EXCEPT ![t].phase = "answered", ![t].byte = b]
  <2>1. f[t] = [[call[t] EXCEPT !.byte = b] EXCEPT !.phase = "answered"]
        /\ g[t] = [[call[t] EXCEPT !.phase = "answered"] EXCEPT !.byte = b]
    BY <1>3
  <2>2. f[t] = g[t]
    BY <1>3, <2>1 DEF Calls
  <2>3. \A u \in Tasks : f[u] = g[u]
    BY <1>3, <2>2
  <2>4. QED
    BY <1>3, <2>3
<1>5. QED
  BY <1>1, <1>2, <1>4, ZenonT(60)

LEMMA ReadInv ==
    ASSUME BusInv, NEW t \in Tasks, ReadByte(t)
    PROVE  BusInv'
<1> DEFINE s == call[t].slave
           r == call[t].reg
<1>1. /\ pc[t] = "read" /\ UNCHANGED <<bus, tries, work>>
      /\ pc' \in [Tasks -> Labels] /\ pc'[t] = "give"
      /\ \A u \in Tasks : u # t => pc'[u] = pc[u]
  BY Moves DEF ReadByte, At, BusInv, Labels
<1>2. /\ s \in Sensors /\ r \in Registers
      /\ call' = [call EXCEPT ![t].phase = "answered", ![t].byte = ByteAt(s, r)]
      /\ available' = [available EXCEPT ![s] = AvailableAfter(s, r)]
  BY ReadsOwn
<1>3. /\ ByteAt(s, r) \in Bytes /\ AvailableAfter(s, r) \in SUBSET Bits
      /\ call \in [Tasks -> Calls] /\ available \in [Sensors -> SUBSET Bits]
  BY <1>2, ByteTyped DEF BusInv, TypeOK, Calls
<1>4. /\ call' \in [Tasks -> Calls] /\ call'[t].phase = "answered"
      /\ call'[t].slave = s /\ call'[t].reg = r
      /\ \A u \in Tasks : u # t => call'[u] = call[u]
  BY <1>2, <1>3 DEF Calls
<1>5. available' \in [Sensors -> SUBSET Bits]
  BY <1>2, <1>3
<1>6. TypeOK'
  BY <1>1, <1>4, <1>5 DEF BusInv, TypeOK, Labels, Calls, work, bus
<1>7. MutexHeld'
  BY <1>1 DEF BusInv, MutexHeld, Holding, bus
<1>8. CallPhase' /\ PacketSet'
  BY <1>1, <1>4 DEF BusInv, CallPhase, PacketSet, bus
<1>9. JobCalled'
  BY <1>1, <1>4 DEF BusInv, JobCalled, work
<1>10. QED
  BY <1>6, <1>7, <1>8, <1>9 DEF BusInv

\* A call begins, for a register there is.
LEMMA CallInv ==
    ASSUME BusInv, NEW t \in Tasks, NEW s \in Sensors, NEW r \in Registers,
           pc[t] = "idle", Call(t, s, r)
    PROVE  /\ call' = [call EXCEPT ![t] = [phase |-> "asked", slave |-> s, reg |-> r,
                                          byte |-> NoByte]]
           /\ call[t].phase = "idle"
           /\ call' \in [Tasks -> Calls] /\ pc' \in [Tasks -> Labels]
           /\ call'[t].slave = s /\ call'[t].reg = r
           /\ \A u \in Tasks : u # t => call'[u] = call[u] /\ pc'[u] = pc[u]
           /\ UNCHANGED bus => MutexHeld' /\ CallPhase' /\ PacketSet'
<1>1. /\ pc' \in [Tasks -> Labels] /\ pc'[t] = "take"
      /\ \A u \in Tasks : u # t => pc'[u] = pc[u]
      /\ call[t].phase = "idle"
  BY Moves DEF Call, BusInv, Labels, CallPhase
<1>2. /\ call' = [call EXCEPT ![t] = [phase |-> "asked", slave |-> s, reg |-> r,
                                     byte |-> NoByte]]
      /\ call' \in [Tasks -> Calls]
      /\ call'[t] = [phase |-> "asked", slave |-> s, reg |-> r, byte |-> NoByte]
      /\ \A u \in Tasks : u # t => call'[u] = call[u]
  BY DEF Call, BusInv, TypeOK, Calls
<1>3. ASSUME UNCHANGED bus PROVE MutexHeld' /\ CallPhase' /\ PacketSet'
  BY <1>1, <1>2, <1>3 DEF BusInv, MutexHeld, CallPhase, PacketSet, Holding, bus
<1>4. QED
  BY <1>1, <1>2, <1>3

\* A call returns.
LEMMA ReturnInv ==
    ASSUME BusInv, NEW t \in Tasks, pc[t] = "return", Goto(t, "idle"), Return(t),
           UNCHANGED bus, tries' = [tries EXCEPT ![t] = 0]
    PROVE  /\ call' \in [Tasks -> Calls] /\ pc' \in [Tasks -> Labels]
           /\ tries' \in [Tasks -> 0 .. TIMEOUT] /\ pc'[t] = "idle"
           /\ \A u \in Tasks : u # t => call'[u] = call[u] /\ pc'[u] = pc[u]
           /\ MutexHeld' /\ CallPhase' /\ PacketSet'
<1>1. /\ pc' \in [Tasks -> Labels] /\ pc'[t] = "idle"
      /\ \A u \in Tasks : u # t => pc'[u] = pc[u]
  BY Moves DEF BusInv, Labels
<1>2. /\ call' \in [Tasks -> Calls] /\ call'[t].phase = "idle"
      /\ \A u \in Tasks : u # t => call'[u] = call[u]
  BY DEF Return, BusInv, TypeOK, Calls, NoCall
<1>3. tries' \in [Tasks -> 0 .. TIMEOUT]
  BY DEF BusInv, TypeOK
<1>4. MutexHeld' /\ CallPhase' /\ PacketSet'
  BY <1>1, <1>2 DEF BusInv, MutexHeld, CallPhase, PacketSet, Holding, bus
<1>5. QED
  BY <1>1, <1>2, <1>3, <1>4

LEMMA ConsoleInv ==
    BusInv /\ (ConsoleAsk \/ ConsoleReturn) => BusInv'
<1> SUFFICES ASSUME BusInv, ConsoleAsk \/ ConsoleReturn PROVE BusInv'
  OBVIOUS
<1> USE DEF At
<1>1. CASE ConsoleAsk
  <2>1. PICK s \in Sensors, r \in Registers : Call("console", s, r)
    BY <1>1 DEF ConsoleAsk
  <2>2. UNCHANGED <<available, bus, tries, work>> /\ pc["console"] = "idle"
    BY <1>1 DEF ConsoleAsk
  <2>3. /\ call' \in [Tasks -> Calls] /\ pc' \in [Tasks -> Labels]
        /\ call'["control"] = call["control"] /\ pc'["control"] = pc["control"]
        /\ MutexHeld' /\ CallPhase' /\ PacketSet'
    BY <2>1, <2>2, CallInv
  <2>4. QED
    BY <2>2, <2>3 DEF BusInv, TypeOK, JobCalled, Calls, Labels, bus, work
<1>2. CASE ConsoleReturn
  <2>1. /\ UNCHANGED <<available, bus, work>>
        /\ call' \in [Tasks -> Calls] /\ pc' \in [Tasks -> Labels]
        /\ tries' \in [Tasks -> 0 .. TIMEOUT]
        /\ call'["control"] = call["control"] /\ pc'["control"] = pc["control"]
        /\ MutexHeld' /\ CallPhase' /\ PacketSet'
    BY <1>2, ReturnInv DEF ConsoleReturn, Return
  <2>2. QED
    BY <2>1 DEF BusInv, TypeOK, JobCalled, Calls, Labels, bus, work
<1>3. QED
  BY <1>1, <1>2

LEMMA ReportInv ==
    BusInv /\ (ReportStart \/ ReportAsk \/ ReportReturn) => BusInv'
<1> SUFFICES ASSUME BusInv, ReportStart \/ ReportAsk \/ ReportReturn
             PROVE  BusInv'
  OBVIOUS
<1> USE DEF At
<1>1. CASE ReportStart
  <2>1. job' \in [slave : Sensors, reg : Registers]
    BY <1>1 DEF ReportStart, Sensors, Registers
  <2>2. QED
    BY <1>1, <2>1 DEF ReportStart, BusInv, TypeOK, MutexHeld, CallPhase, PacketSet,
        JobCalled, bus
<1>2. CASE ReportAsk
  <2>1. /\ job # NoJob /\ job \in [slave : Sensors, reg : Registers]
        /\ pc["control"] = "idle" /\ Call("control", job.slave, job.reg)
        /\ UNCHANGED <<available, bus, tries, job>>
    BY <1>2 DEF ReportAsk, BusInv, TypeOK
  <2>2. /\ call' \in [Tasks -> Calls] /\ pc' \in [Tasks -> Labels]
        /\ call'["control"].slave = job.slave /\ call'["control"].reg = job.reg
        /\ MutexHeld' /\ CallPhase' /\ PacketSet'
    BY <2>1, CallInv
  <2>3. /\ spoiled' \in SUBSET Bits /\ ready' \in SUBSET Bits
        /\ buffer' \in [Slots -> Bytes \cup {NoByte}]
    BY <1>2 DEF ReportAsk, BusInv, TypeOK
  <2>4. TypeOK'
    BY <2>1, <2>2, <2>3 DEF BusInv, TypeOK, Calls, Labels, bus
  <2>5. JobCalled'
    BY <2>1, <2>2 DEF JobCalled
  <2>6. QED
    BY <2>2, <2>4, <2>5 DEF BusInv
<1>3. CASE ReportReturn
  <2> DEFINE byte == call["control"].byte
             ok   == byte # NoByte
  <2>1. /\ pc["control"] = "return" /\ job \in [slave : Sensors, reg : Registers]
        /\ byte \in Bytes \cup {NoByte}
    BY <1>3 DEF ReportReturn, BusInv, TypeOK, JobCalled
  <2>2. /\ UNCHANGED <<available, bus>>
        /\ call' \in [Tasks -> Calls] /\ pc' \in [Tasks -> Labels]
        /\ tries' \in [Tasks -> 0 .. TIMEOUT] /\ pc'["control"] = "idle"
        /\ MutexHeld' /\ CallPhase' /\ PacketSet'
    BY <1>3, <2>1, ReturnInv DEF ReportReturn, Return
  <2>3. ready' \in SUBSET Bits
    <3>1. ready' = IF ok /\ job.reg = "status" THEN byte.bits ELSE ready
      BY <1>3 DEF ReportReturn
    <3>2. ok => byte.bits \in SUBSET Bits
      BY <2>1 DEF Bytes
    <3>3. QED
      BY <3>1, <3>2 DEF BusInv, TypeOK
  <2>4. spoiled' \in SUBSET Bits
    <3>1. spoiled' = spoiled \cup Spoils(job.reg, ok, ready')
      BY <1>3 DEF ReportReturn
    <3>2. Spoils(job.reg, ok, ready') \in SUBSET Bits
      BY <2>1, <2>3, SpoilsTyped
    <3>3. QED
      BY <3>1, <3>2 DEF BusInv, TypeOK
  <2>5. job' \in [slave : Sensors, reg : Registers] \cup {NoJob}
    <3>1. job' = NextJob(job, ok, ready')
      BY <1>3 DEF ReportReturn
    <3>2. QED
      BY <3>1, <2>1, NextJobTyped
  <2>6. buffer' \in [Slots -> Bytes \cup {NoByte}]
    BY <1>3, <2>1 DEF ReportReturn, BusInv, TypeOK
  <2>7. TypeOK'
    BY <2>2, <2>3, <2>4, <2>5, <2>6 DEF BusInv, TypeOK, Calls, Labels, bus
  <2>8. JobCalled'
    BY <2>2 DEF JobCalled
  <2>9. QED
    BY <2>2, <2>7, <2>8 DEF BusInv
<1>4. QED
  BY <1>1, <1>2, <1>3

LEMMA ConversionInv ==
    ASSUME BusInv, NEW s \in Sensors, Conversion(s)
    PROVE  BusInv'
<1>1. /\ available' \in [Sensors -> SUBSET Bits]
      /\ UNCHANGED <<call, bus, pc, tries, work>>
  BY DEF Conversion, Sample, BusInv, TypeOK
<1>2. QED
  BY <1>1 DEF BusInv, TypeOK, MutexHeld, CallPhase, PacketSet, JobCalled, bus, work

LEMMA NextInv == BusInv /\ [BusNext]_vars => BusInv'
<1> SUFFICES ASSUME BusInv, [BusNext]_vars PROVE BusInv'
  OBVIOUS
<1>1. CASE UNCHANGED vars
  BY <1>1 DEF vars, BusInv, TypeOK, MutexHeld, CallPhase, PacketSet, JobCalled
<1>2. QED
  BY <1>1, QuietInv, PacketInv, FailInv, ReadInv, ConsoleInv, ReportInv,
     ConversionInv DEF BusNext, Transfer

LEMMA Invariance == BusSpec => []BusInv
  BY InitInv, NextInv, PTL DEF BusSpec

-----------------------------------------------------------------------------
(* The theorems.                                                           *)

\* Types of the bus: a call gives up in time, whatever TIMEOUT is (smeI2C.c).
THEOREM TypeCorrect == BusSpec => []TypeOK
  BY Invariance, PTL DEF BusInv

\* The mutex of I2CFreeRtos.c is with exactly the task between its take and its
\* give; nobody gives it for another.
THEOREM BusExclusive == BusSpec => []MutexHeld
  BY Invariance, PTL DEF BusInv

-----------------------------------------------------------------------------
(* The report.                                                             *)

\* A byte that has been handed over is one of the register asked for.
ByteOwn ==
    \A t \in Tasks : call[t].byte # NoByte =>
        call[t].byte.from = call[t].slave /\ call[t].byte.reg = call[t].reg

\* The buffer holds register r of the sensor at hand.
Own(r) == buffer[r].from = job.slave /\ buffer[r].reg = r

\* What the report has read so far of the sensor at hand, unless it is spoiled.
FieldsRead ==
    job # NoJob /\ job.reg # "status" =>
        /\ "out" \in ready \cup spoiled
        /\ job.reg # "tempH" => "temp" \in spoiled \/ Own("tempH")
        /\ job.reg \notin {"tempH", "tempL"} => "temp" \in spoiled \/ Own("tempL")
        /\ job.reg \in {"outL", "outXL"} => "out" \in spoiled \/ Own("outH")
        /\ job.reg = "outXL" => "out" \in spoiled \/ Own("outL")

LEMMA InitFields == BusInit => ByteOwn /\ FieldsRead
BY DEF BusInit, Init, NoCall, ByteOwn, FieldsRead

LEMMA NextByteOwn ==
    ASSUME BusInv, ByteOwn, [BusNext]_vars
    PROVE  ByteOwn'
<1>1. ASSUME NEW t \in Tasks, Transfer(t) PROVE ByteOwn'
  <2>1. CASE Take(t) \/ Setup(t) \/ WriteToken(t) \/ Retry(t) \/ Give(t)
    BY <2>1 DEF Take, Setup, WriteToken, Retry, Give, ByteOwn
  <2>2. CASE TakeTimeout(t) \/ GiveUp(t)
    BY <2>2, Answered DEF TakeTimeout, GiveUp, ByteOwn, BusInv
  <2>3. CASE ReadByte(t)
    <3>1. /\ call[t].slave \in Sensors /\ call[t].reg \in Registers
          /\ call' = [call EXCEPT ![t].phase = "answered",
                                  ![t].byte = ByteAt(call[t].slave, call[t].reg)]
          /\ call \in [Tasks -> Calls]
      BY <2>3, ReadsOwn DEF BusInv, TypeOK, Calls
    <3>2. /\ ByteAt(call[t].slave, call[t].reg).from = call[t].slave
          /\ ByteAt(call[t].slave, call[t].reg).reg = call[t].reg
      BY DEF ByteAt
    <3>3. /\ call'[t].byte = ByteAt(call[t].slave, call[t].reg)
          /\ call'[t].slave = call[t].slave /\ call'[t].reg = call[t].reg
          /\ \A u \in Tasks : u # t => call'[u] = call[u]
      BY <3>1 DEF Calls
    <3>4. QED
      BY <3>2, <3>3 DEF ByteOwn
  <2>4. QED
    BY <1>1, <2>1, <2>2, <2>3 DEF Transfer
<1>2. ASSUME NEW t \in Tasks, Return(t) PROVE ByteOwn'
  BY <1>2 DEF Return, NoCall, ByteOwn, BusInv, TypeOK
<1>3. ASSUME NEW t \in Tasks, NEW s, NEW r, Call(t, s, r) PROVE ByteOwn'
  BY <1>3 DEF Call, ByteOwn, BusInv, TypeOK
<1>4. CASE ConsoleAsk \/ ReportAsk
  BY <1>3, <1>4 DEF ConsoleAsk, ReportAsk
<1>5. CASE ConsoleReturn \/ ReportReturn
  BY <1>2, <1>5 DEF ConsoleReturn, ReportReturn
<1>6. CASE ReportStart \/ (\E s \in Sensors : Conversion(s)) \/ UNCHANGED vars
  BY <1>6 DEF ReportStart, Conversion, Sample, vars, ByteOwn
<1>7. QED
  BY <1>1, <1>4, <1>5, <1>6 DEF BusNext

\* One more register of the report: what it adds, and what it leaves.
LEMMA ReturnReads ==
    ASSUME BusInv, ByteOwn, ReportReturn
    PROVE  LET ok == call["control"].byte # NoByte IN
           /\ job \in [slave : Sensors, reg : Registers] /\ job # NoJob
           /\ spoiled' = spoiled \cup Spoils(job.reg, ok, ready')
           /\ job' = NextJob(job, ok, ready')
           /\ job.reg # "status" => ready' = ready
           /\ job.reg # "status" /\ ok =>
                 buffer'[job.reg].from = job.slave /\ buffer'[job.reg].reg = job.reg
           /\ \A r \in Slots : r # job.reg => buffer'[r] = buffer[r]
<1> DEFINE byte == call["control"].byte
           ok   == byte # NoByte
<1>1. /\ pc["control"] = "return" /\ job # NoJob
      /\ job \in [slave : Sensors, reg : Registers]
      /\ call["control"].slave = job.slave /\ call["control"].reg = job.reg
  BY DEF ReportReturn, At, BusInv, TypeOK, JobCalled
<1>2. ok => byte.from = job.slave /\ byte.reg = job.reg
  BY <1>1 DEF ByteOwn
<1>3. buffer \in [Slots -> Bytes \cup {NoByte}]
  BY DEF BusInv, TypeOK
<1>4. /\ ready' = IF ok /\ job.reg = "status" THEN byte.bits ELSE ready
      /\ buffer' = IF ok /\ job.reg # "status"
                   THEN [buffer EXCEPT ![job.reg] = byte] ELSE buffer
      /\ spoiled' = spoiled \cup Spoils(job.reg, ok, ready')
      /\ job' = NextJob(job, ok, ready')
  BY DEF ReportReturn
<1>5. job.reg # "status" => job.reg \in Slots
  BY <1>1 DEF Slots
<1>6. QED
  BY <1>1, <1>2, <1>3, <1>4, <1>5

LEMMA NextFields ==
    ASSUME BusInv, ByteOwn, FieldsRead, [BusNext]_vars
    PROVE  FieldsRead'
<1>1. CASE ReportReturn
  <2> DEFINE ok == call["control"].byte # NoByte
  <2>1. SUFFICES ASSUME job' # NoJob, job'.reg # "status" PROVE FieldsRead'
    BY DEF FieldsRead
  <2>2. /\ job \in [slave : Sensors, reg : Registers] /\ job # NoJob
        /\ spoiled' = spoiled \cup Spoils(job.reg, ok, ready')
        /\ job' = NextJob(job, ok, ready')
        /\ job.reg # "status" => ready' = ready
        /\ job.reg # "status" /\ ok =>
              buffer'[job.reg].from = job.slave /\ buffer'[job.reg].reg = job.reg
        /\ \A r \in Slots : r # job.reg => buffer'[r] = buffer[r]
    BY <1>1, ReturnReads
  <2>3. /\ job'.slave = job.slave
        /\ job'.reg = NextRegister(job.slave, job.reg, ok, ready')
        /\ NextRegister(job.slave, job.reg, ok, ready') # None
    BY <2>1, <2>2 DEF NextJob
  <2>4. CASE job.reg = "status"
    BY <2>2, <2>3, <2>4 DEF FieldsRead, NextRegister, Spoils, Bits, None
  <2>5. CASE job.reg = "tempH"
    BY <2>2, <2>3, <2>5 DEF FieldsRead, NextRegister, OutRegister, Spoils, Own, None,
        Slots, Registers
  <2>6. CASE job.reg = "tempL"
    BY <2>2, <2>3, <2>6 DEF FieldsRead, NextRegister, OutRegister, Spoils, Own, None,
        Slots, Registers
  <2>7. CASE job.reg \in {"outH", "outL", "outXL"}
    BY <2>2, <2>3, <2>7 DEF FieldsRead, NextRegister, OutRegister, Spoils, Own, None,
        Slots, Registers
  <2>8. QED
    BY <2>2, <2>4, <2>5, <2>6, <2>7 DEF Registers
<1>2. CASE ReportStart
  BY <1>2 DEF ReportStart, FieldsRead
<1>3. CASE ReportAsk
  BY <1>3 DEF ReportAsk, FieldsRead, Own
<1>4. CASE UNCHANGED work
  BY <1>4 DEF work, FieldsRead, Own
<1>5. ASSUME NEW t \in Tasks, Transfer(t) PROVE UNCHANGED work
  BY <1>5 DEF Transfer, Take, TakeTimeout, Setup, WriteToken, ReadByte, Retry, GiveUp,
      Give
<1>6. ConsoleAsk \/ ConsoleReturn \/ (\E s \in Sensors : Conversion(s)) \/ UNCHANGED vars
        => UNCHANGED work
  BY DEF ConsoleAsk, ConsoleReturn, Conversion, vars, work
<1>7. QED
  BY <1>1, <1>2, <1>3, <1>4, <1>5, <1>6 DEF BusNext

LEMMA TempFields ==
    ASSUME NEW s PROVE FieldBytes(s, "temp") = {"tempH", "tempL"}
BY DEF FieldBytes

\* The last register of a sensor: the fields that are not spoiled are all there.
LEMMA LastRegister ==
    ASSUME BusInv, ByteOwn, FieldsRead, [BusNext]_vars,
           job # NoJob, job'.slave # job.slave,
           NEW bit \in Bits \ spoiled', NEW r \in FieldBytes(job.slave, bit)
    PROVE  buffer'[r].from = job.slave /\ buffer'[r].reg = r
<1> DEFINE ok == call["control"].byte # NoByte
<1>1. ReportReturn
  <2>1. ASSUME NEW t \in Tasks, Transfer(t) PROVE UNCHANGED job
    BY <2>1 DEF Transfer, Take, TakeTimeout, Setup, WriteToken, ReadByte, Retry,
        GiveUp, Give, work
  <2>2. QED
    BY <2>1 DEF BusNext, ConsoleAsk, ConsoleReturn, ReportStart, ReportAsk,
        Conversion, vars, work
<1>2. /\ job \in [slave : Sensors, reg : Registers]
      /\ spoiled' = spoiled \cup Spoils(job.reg, ok, ready')
      /\ job' = NextJob(job, ok, ready')
      /\ job.reg # "status" => ready' = ready
      /\ job.reg # "status" /\ ok =>
            buffer'[job.reg].from = job.slave /\ buffer'[job.reg].reg = job.reg
      /\ \A q \in Slots : q # job.reg => buffer'[q] = buffer[q]
  BY <1>1, ReturnReads
<1>3. NextRegister(job.slave, job.reg, ok, ready') = None
  BY <1>2 DEF NextJob
<1>4. r \in Slots /\ bit \in {"temp", "out"}
  BY DEF FieldBytes, Slots, Registers, Bits
<1>5. CASE job.reg = "status"
  BY <1>2, <1>3, <1>4, <1>5 DEF NextRegister, Spoils, Bits, None
<1>6. CASE job.reg = "tempH"
  BY <1>2, <1>3, <1>4, <1>6 DEF FieldsRead, NextRegister, OutRegister, Spoils, Own,
      None, FieldBytes
<1>7. CASE job.reg = "tempL"
  <2>1. "out" \in spoiled /\ ("temp" \in spoiled \/ Own("tempH"))
    BY <1>2, <1>3, <1>7 DEF FieldsRead, NextRegister, OutRegister, None
  <2>2. bit = "temp" /\ ok
    BY <1>2, <1>4, <1>7, <2>1 DEF Spoils
  <2>3. r \in {"tempH", "tempL"}
    BY <2>2, TempFields
  <2>4. QED
    BY <1>2, <1>4, <1>7, <2>1, <2>2, <2>3 DEF Own
<1>8. CASE job.reg \in {"outH", "outL", "outXL"}
  <2>1. /\ "temp" \in spoiled \/ (Own("tempH") /\ Own("tempL"))
        /\ job.reg # "outH" => "out" \in spoiled \/ Own("outH")
        /\ job.reg = "outXL" => "out" \in spoiled \/ Own("outL")
    BY <1>2, <1>8 DEF FieldsRead
  <2>2. CASE bit = "temp"
    <3>1. r \in {"tempH", "tempL"} /\ r # job.reg
      BY <1>8, <2>2, TempFields
    <3>2. QED
      BY <1>2, <1>4, <2>1, <2>2, <3>1 DEF Own
  <2>3. CASE bit = "out"
    <3>1. ok
      BY <1>2, <1>8, <2>3 DEF Spoils
    <3>2. /\ job.reg # "outH"
          /\ r \in {"outH", "outL", "outXL"}
          /\ job.reg = "outL" => r \in {"outH", "outL"}
      BY <1>2, <1>3, <1>8, <2>3, <3>1 DEF NextRegister, FieldBytes, Sensors, None
    <3>3. QED
      BY <1>2, <1>4, <1>8, <2>1, <2>3, <3>1, <3>2 DEF Own
  <2>4. QED
    BY <1>4, <2>2, <2>3
<1>9. QED
  BY <1>2, <1>5, <1>6, <1>7, <1>8 DEF Registers

\* For every register the console reads in between: what is decoded as a field of
\* the report comes from the registers of that field, of the sensor at hand.
THEOREM HonestReport == BusSpec => ReportHonest
<1>1. BusInv /\ ByteOwn /\ FieldsRead /\ [BusNext]_vars => ByteOwn' /\ FieldsRead'
  BY NextByteOwn, NextFields
<1>2. BusInv /\ ByteOwn /\ FieldsRead /\ [BusNext]_vars =>
        [job # NoJob /\ job'.slave # job.slave =>
           \A bit \in Bits \ spoiled' : \A r \in FieldBytes(job.slave, bit) :
               buffer'[r].from = job.slave /\ buffer'[r].reg = r]_vars
  BY LastRegister
<1>3. QED
  BY <1>1, <1>2, InitFields, Invariance, PTL DEF BusSpec, ReportHonest

-----------------------------------------------------------------------------
(* The refinement.                                                         *)

USE DEF Abstract!ByteAt, ByteAt, Abstract!AvailableAfter, AvailableAfter,
        Abstract!NoByte, NoByte, Abstract!None, None

\* Every step of the bus is a step of the atomic registers, or none at all.
LEMMA TransferRefines ==
    ASSUME BusInv, NEW t \in Tasks, Transfer(t)
    PROVE  Abstract!Next \/ UNCHANGED <<available, call>>
<1>1. CASE Take(t) \/ Setup(t) \/ WriteToken(t) \/ Retry(t) \/ Give(t)
  BY <1>1 DEF Take, Setup, WriteToken, Retry, Give
<1>2. CASE TakeTimeout(t) \/ GiveUp(t)
  <2>1. call[t].phase = "asked"
    BY <1>2 DEF TakeTimeout, GiveUp, At, BusInv, CallPhase
  <2>2. Abstract!Fail(t)
    BY <1>2, <2>1 DEF TakeTimeout, GiveUp, Abstract!Fail
  <2>3. QED
    BY <2>2 DEF Abstract!Next
<1>3. CASE ReadByte(t)
  <2>1. Abstract!Read(t)
    BY <1>3, ReadsOwn DEF Abstract!Read
  <2>2. QED
    BY <2>1 DEF Abstract!Next
<1>4. QED
  BY <1>1, <1>2, <1>3 DEF Transfer

LEMMA CallRefines ==
    ASSUME BusInv, NEW t \in Tasks, NEW s \in Sensors, NEW r \in Registers,
           pc[t] = "idle", Call(t, s, r), UNCHANGED available
    PROVE  Abstract!Next
<1>1. Abstract!Ask(t)
  BY CallInv DEF Abstract!Ask, Abstract!Sensors, Sensors, Abstract!Registers,
      Registers
<1>2. QED
  BY <1>1 DEF Abstract!Next

LEMMA NextRefines ==
    BusInv /\ [BusNext]_vars => [Abstract!Next]_<<available, call>>
<1> SUFFICES ASSUME BusInv, [BusNext]_vars
             PROVE  Abstract!Next \/ UNCHANGED <<available, call>>
  OBVIOUS
<1>1. CASE \E t \in Tasks : Transfer(t)
  BY <1>1, TransferRefines
<1>2. CASE ConsoleAsk
  BY <1>2, CallRefines DEF ConsoleAsk, At
<1>3. CASE ReportAsk
  <2>1. job \in [slave : Sensors, reg : Registers]
    BY <1>3 DEF ReportAsk, BusInv, TypeOK
  <2>2. QED
    BY <1>3, <2>1, CallRefines DEF ReportAsk, At
<1>4. CASE ConsoleReturn \/ ReportReturn
  <2>1. \E t \in Tasks : Return(t)
    BY <1>4 DEF ConsoleReturn, ReportReturn
  <2>2. QED
    BY <2>1 DEF Return, NoCall, Abstract!Next, Abstract!Return, Abstract!NoCall
<1>5. CASE ReportStart \/ UNCHANGED vars
  BY <1>5 DEF ReportStart, vars
<1>6. CASE \E s \in Sensors : Conversion(s)
  BY <1>6 DEF Conversion, Sample, Abstract!Next, Abstract!Sample, Abstract!Sensors,
      Sensors, Abstract!Bits, Bits
<1>7. QED
  BY <1>1, <1>2, <1>3, <1>4, <1>5, <1>6 DEF BusNext

\* readRegister is atomic: with any number of retries, the console preempting
\* control_task anywhere between its two transfers, every byte handed over is one
\* the register asked for had during the call.
THEOREM AtomicReads == BusSpec => ReadsAreAtomic
<1>1. BusInit => Abstract!Init
  BY DEF BusInit, Init, NoCall, Abstract!Init, Abstract!NoCall, Abstract!Sensors,
      Sensors
<1>2. QED
  BY <1>1, NextRefines, Invariance, PTL DEF BusSpec, ReadsAreAtomic, Abstract!Spec
================================================================================
