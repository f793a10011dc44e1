-------------------------------- MODULE I2cBus --------------------------------
(***************************************************************************)
(* The I2C bus and the report of pressure, temperature and humidity.       *)
(*   src/src/sme/Devices/I2CFreeRtos.c     the mutex around every transfer *)
(*   src/src/sme/Devices/I2C/smeI2C.c      the transfers and their retries *)
(*   LPS25H.c, HTS221.c, sme_decode_i2c_sfx.c    the report                *)
(*   sme_i2c_parse.c, sme_model_i2c.c            the i2c command           *)
(*                                                                         *)
(* All transfers go through one master_packet, and a sensor keeps the      *)
(* register that was selected last, so a read is two transfers that belong *)
(* together. The users at run time are control_task (priority 2) and the   *)
(* console task (3), which may preempt it between any two steps.           *)
(***************************************************************************)
EXTENDS Registers, Naturals

CONSTANTS
    TIMEOUT,            \* failed attempts a call puts up with (10)
    ConsoleSensors,     \* the sensors and registers the console may ask for
    ConsoleRegisters

ASSUME TimeoutAssumption == TIMEOUT \in Nat
ASSUME TasksAssumption   == Tasks = {"console", "control"}
ASSUME ConsoleAssumption ==
    ConsoleSensors \subseteq Sensors /\ ConsoleRegisters \subseteq Registers

VARIABLES
    holder,     \* who has taken i2c_sem
    packet,     \* master_packet: the slave, and the token or the destination
    pointer,    \* the register selected in each sensor
    pc,         \* where each task is
    tries,      \* its local timeout
    buffer,     \* the global buffer of sme_model_i2c.c: where its bytes come from,
                \* NoByte for what an earlier sensor or report has left there
    job,        \* the register of the report that is read next
    ready,      \* the status the driver has read
    spoiled     \* history: what failed or was not ready, of the sensor at hand

bus  == <<holder, packet, pointer>>
work == <<buffer, job, ready, spoiled>>
vars == <<available, call, holder, packet, pointer, pc, tries, buffer, job, ready,
          spoiled>>

Slots  == Registers \ {"status"}
NoJob  == [slave |-> None, reg |-> None]

\* Strict priorities: control_task steps only when the console task cannot.
ConsoleBlocked ==
    \/ pc["console"] = "idle"
    \/ pc["console"] = "take" /\ holder # None

At(t, label) == pc[t] = label /\ (t = "control" => ConsoleBlocked)
Goto(t, label) == pc' = [pc EXCEPT ![t] = label]

-----------------------------------------------------------------------------
BusInit ==
    /\ Init
    /\ holder = None
    /\ packet = [address |-> None, data |-> None]
    /\ pointer = [s \in Sensors |-> "status"]
    /\ pc = [t \in Tasks |-> "idle"]
    /\ tries = [t \in Tasks |-> 0]
    /\ buffer = [r \in Slots |-> NoByte]
    /\ job = NoJob
    /\ ready = {}
    /\ spoiled = {}

\* A task calls readRegister.
Call(t, s, r) ==
    /\ call' = [call EXCEPT ![t] = [phase |-> "asked", slave |-> s, reg |-> r,
                                    byte |-> NoByte]]
    /\ Goto(t, "take")

Take_NoMutex(t) ==
    /\ At(t, "take")
    /\ holder' = t
    /\ Goto(t, "setup")
    /\ UNCHANGED <<available, call, packet, pointer, tries, work>>

Take(t) ==
    /\ At(t, "take")
    /\ holder = None
    /\ holder' = t
    /\ Goto(t, "setup")
    /\ UNCHANGED <<available, call, packet, pointer, tries, work>>

\* The second is over: the call returns 0 without touching the bus.
TakeTimeout(t) ==
    /\ At(t, "take")
    /\ holder # None
    /\ call' = [call EXCEPT ![t].phase = "answered"]
    /\ Goto(t, "return")
    /\ UNCHANGED <<available, bus, tries, work>>

\* Address and request token.
Setup(t) ==
    /\ At(t, "setup")
    /\ packet' = [address |-> call[t].slave, data |-> call[t].reg]
    /\ Goto(t, "write")
    /\ UNCHANGED <<available, call, holder, pointer, tries, work>>

WriteToken_Unchecked(t) ==
    /\ At(t, "write")
    /\ \E taken \in BOOLEAN :
          pointer' = IF taken THEN [pointer EXCEPT ![packet.address] = packet.data]
                     ELSE pointer
    /\ packet' = [packet EXCEPT !.data = t]
    /\ Goto(t, "read")
    /\ UNCHANGED <<available, call, holder, tries, work>>

\* The sensor has acknowledged the token; the packet is turned round.
WriteToken(t) ==
    /\ At(t, "write")
    /\ pointer' = [pointer EXCEPT ![packet.address] = packet.data]
    /\ packet' = [packet EXCEPT !.data = t]
    /\ Goto(t, "read")
    /\ UNCHANGED <<available, call, holder, tries, work>>

\* The byte goes where the packet says.
ReadByte(t) ==
    /\ At(t, "read")
    /\ LET s == packet.address  r == pointer[s] IN
          /\ call' = [call EXCEPT ![packet.data].byte = ByteAt(s, r),
                                  ![t].phase = "answered"]
          /\ available' = [available EXCEPT ![s] = AvailableAfter(s, r)]
    /\ Goto(t, "give")
    /\ UNCHANGED <<bus, tries, work>>

Retry_NoLimit(t) ==
    /\ At(t, "write") \/ At(t, "read")
    /\ tries' = [tries EXCEPT ![t] = (@ + 1) % (TIMEOUT + 1)]
    /\ UNCHANGED <<available, call, bus, pc, work>>

Retry_OffByOne(t) ==
    /\ At(t, "write") \/ At(t, "read")
    /\ tries[t] <= TIMEOUT
    /\ tries' = [tries EXCEPT ![t] = @ + 1]
    /\ UNCHANGED <<available, call, bus, pc, work>>

\* A transfer fails and is tried again: one count serves both loops.
Retry(t) ==
    /\ At(t, "write") \/ At(t, "read")
    /\ tries[t] < TIMEOUT
    /\ tries' = [tries EXCEPT ![t] = @ + 1]
    /\ UNCHANGED <<available, call, bus, pc, work>>

\* timeout++ == TIMEOUT: the call returns 0.
GiveUp(t) ==
    /\ At(t, "write") \/ At(t, "read")
    /\ tries[t] = TIMEOUT
    /\ call' = [call EXCEPT ![t].phase = "answered"]
    /\ Goto(t, "give")
    /\ UNCHANGED <<available, bus, tries, work>>

Give(t) ==
    /\ At(t, "give")
    /\ holder' = None
    /\ Goto(t, "return")
    /\ UNCHANGED <<available, call, packet, pointer, tries, work>>

-----------------------------------------------------------------------------
(* The console: readGenericRegister reads one register into a local.       *)

ConsoleAsk ==
    /\ At("console", "idle")
    /\ \E s \in ConsoleSensors, r \in ConsoleRegisters : Call("console", s, r)
    /\ UNCHANGED <<available, bus, tries, work>>

ConsoleReturn ==
    /\ At("console", "return")
    /\ Return("console")
    /\ Goto("console", "idle")
    /\ tries' = [tries EXCEPT !["console"] = 0]
    /\ UNCHANGED <<bus, work>>

-----------------------------------------------------------------------------
(* control_task: sme_i2c_get_press_hum_read_str.                           *)

ReportStart ==
    /\ At("control", "idle")
    /\ job = NoJob
    /\ job' = [slave |-> "LPS25H", reg |-> "status"]
    /\ UNCHANGED <<available, call, bus, pc, tries, buffer, ready, spoiled>>

ReportAsk ==
    /\ At("control", "idle")
    /\ job # NoJob
    /\ Call("control", job.slave, job.reg)
    /\ spoiled' = IF job.reg = "status" THEN {} ELSE spoiled
    /\ buffer' = IF job.reg = "status" THEN [r \in Slots |-> NoByte] ELSE buffer
    /\ ready' = IF job.reg = "status" THEN {} ELSE ready
    /\ UNCHANGED <<available, bus, tries, job>>

\* getValues of both drivers: high byte first; a high byte that cannot be read
\* ends its quantity, a quantity that is not ready ends the function.
OutRegister(bits) == IF "out" \in bits THEN "outH" ELSE None

NextRegister(s, r, ok, bits) ==
    CASE r = "status" -> IF ok /\ "temp" \in bits THEN "tempH" ELSE None
      [] r = "tempH"  -> IF ok THEN "tempL" ELSE OutRegister(bits)
      [] r = "tempL"  -> OutRegister(bits)
      [] r = "outH"   -> IF ok THEN "outL" ELSE None
      [] r = "outL"   -> IF ok /\ s = "LPS25H" THEN "outXL" ELSE None
      [] r = "outXL"  -> None

\* What a failed read, or a bit that is not set, leaves out of the report.
Spoils(r, ok, bits) ==
    CASE r = "status" -> IF ok /\ "temp" \in bits THEN Bits \ bits
                         ELSE Bits
      [] r \in {"tempH", "tempL"} -> IF ok THEN {} ELSE {"temp"}
      [] OTHER                    -> IF ok THEN {} ELSE {"out"}

\* The next register of the report; a sensor that is through is decoded and
\* followed by the other one.
NextJob(j, ok, bits) ==
    LET next == NextRegister(j.slave, j.reg, ok, bits) IN
    IF next # None THEN [j EXCEPT !.reg = next]
    ELSE IF j.slave = "LPS25H" THEN [slave |-> "HTS221", reg |-> "status"]
    ELSE NoJob

ReportReturn ==
    /\ At("control", "return")
    /\ LET byte == call["control"].byte
           ok   == byte # NoByte
           data == ok /\ job.reg # "status"
       IN  /\ ready' = IF ok /\ job.reg = "status" THEN byte.bits ELSE ready
           /\ buffer' = IF data THEN [buffer EXCEPT ![job.reg] = byte] ELSE buffer
           /\ spoiled' = spoiled \cup Spoils(job.reg, ok, ready')
           /\ job' = NextJob(job, ok, ready')
    /\ Return("control")
    /\ Goto("control", "idle")
    /\ tries' = [tries EXCEPT !["control"] = 0]
    /\ UNCHANGED bus

\* A conversion ends, at any time.
Conversion(s) == Sample(s) /\ UNCHANGED <<bus, pc, tries, work>>

Transfer(t) ==
    \/ Take(t) \/ TakeTimeout(t) \/ Setup(t) \/ WriteToken(t) \/ ReadByte(t)
    \/ Retry(t) \/ GiveUp(t) \/ Give(t)

BusNext ==
    \/ \E t \in Tasks : Transfer(t)
    \/ ConsoleAsk \/ ConsoleReturn
    \/ ReportStart \/ ReportAsk \/ ReportReturn
    \/ \E s \in Sensors : Conversion(s)

BusSpec == BusInit /\ [][BusNext]_vars

(* Every transfer ends, if only with an error. The console sleeps between   *)
(* two polls of its line, so control_task is let in again and again.        *)
Fairness ==
    /\ WF_vars(Transfer("console")) /\ WF_vars(ConsoleReturn)
    /\ SF_vars(Transfer("control"))

FairBusSpec == BusSpec /\ Fairness

-----------------------------------------------------------------------------
(* Properties.                                                             *)

\* Types; a call never fails more than TIMEOUT + 1 times over its two loops.
TypeOK ==
    /\ available \in [Sensors -> SUBSET Bits]
    /\ call \in [Tasks -> [phase : {"idle", "asked", "answered"},
                           slave : Sensors \cup {None},
                           reg : Registers \cup {None}, byte : Bytes \cup {NoByte}]]
    /\ holder \in Tasks \cup {None}
    /\ packet \in [address : Sensors \cup {None},
                   data : Registers \cup Tasks \cup {None}]
    /\ pointer \in [Sensors -> Registers]
    /\ pc \in [Tasks -> {"idle", "take", "setup", "write", "read", "give", "return"}]
    /\ tries \in [Tasks -> 0 .. TIMEOUT]
    /\ buffer \in [Slots -> Bytes \cup {NoByte}]
    /\ job \in [slave : Sensors, reg : Registers] \cup {NoJob}
    /\ ready \subseteq Bits
    /\ spoiled \subseteq Bits

\* The two transfers of a read are one atomic read of the register asked for,
\* although packet and pointer are shared and the console may read at any time
\* (I2CFreeRtos.c:37 against smeI2C.c:48-73).
Abstract == INSTANCE Registers
ReadsAreAtomic == Abstract!Spec

\* The fields of a report share one buffer that is not cleared between the two
\* sensors, and results are ignored (sme_decode_i2c_sfx.c:51-58). Still, what is
\* decoded as a field was read from its own register in this report, unless a
\* read of it failed or was not ready.
FieldBytes(s, bit) ==
    IF bit = "temp" THEN {"tempH", "tempL"}
    ELSE {"outH", "outL"} \cup (IF s = "LPS25H" THEN {"outXL"} ELSE {})

ReportHonest ==
    [][job # NoJob /\ job'.slave # job.slave =>
         \A bit \in Bits \ spoiled' : \A r \in FieldBytes(job.slave, bit) :
             buffer'[r].from = job.slave /\ buffer'[r].reg = r]_vars

\* The bus is always given back: no answer of a sensor, and no silence, keeps
\* the other task off it for good.
BusReleased == \A t \in Tasks : (holder = t) ~> (holder # t)
===============================================================================
