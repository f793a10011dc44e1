------------------------------ MODULE Registers -------------------------------
(***************************************************************************)
(* What the I2C layer promises its callers: reading a register is one      *)
(* atomic step. Between call and return there is an instant at which the   *)
(* register asked for, of the sensor asked for, had the value handed over; *)
(* or the read fails and hands over nothing.                               *)
(*                                                                         *)
(* The sensors are external. Their model holds what the drivers rely on:   *)
(* a sample fills all output registers, sets the two data-ready bits, and  *)
(* reading a high byte clears its bit (LPS25H.c, comment at lines 60-75).  *)
(***************************************************************************)
CONSTANT Tasks      \* the tasks that read registers

VARIABLES
    available,  \* the data-ready bits of each sensor
    call        \* what each task has asked for, and the answer

Sensors   == {"LPS25H", "HTS221"}
Registers == {"status", "tempH", "tempL", "outH", "outL", "outXL"}
Bits      == {"temp", "out"}
None      == "none"

\* A byte remembers where it came from; the status register holds the bits.
Bytes  == [from : Sensors, reg : Registers, bits : SUBSET Bits]
NoByte == [from |-> None, reg |-> None, bits |-> {}]

ByteAt(s, r) == [from |-> s, reg |-> r,
                 bits |-> IF r = "status" THEN available[s] ELSE {}]

\* The data-ready bits after register r has been read.
AvailableAfter(s, r) ==
    available[s] \ (CASE r = "tempH" -> {"temp"}
                      [] r = "outH"  -> {"out"}
                      [] OTHER       -> {})

-----------------------------------------------------------------------------
NoCall == [phase |-> "idle", slave |-> None, reg |-> None, byte |-> NoByte]

Init ==
    /\ available = [s \in Sensors |-> {}]
    /\ call = [t \in Tasks |-> NoCall]

Ask(t) ==
    /\ call[t].phase = "idle"
    /\ \E s \in Sensors, r \in Registers :
          call' = [call EXCEPT ![t] = [phase |-> "asked", slave |-> s,
                                       reg |-> r, byte |-> NoByte]]
    /\ UNCHANGED available

Read(t) ==
    /\ call[t].phase = "asked"
    /\ LET s == call[t].slave  r == call[t].reg IN
          /\ call' = [call EXCEPT ![t].phase = "answered", ![t].byte = ByteAt(s, r)]
          /\ available' = [available EXCEPT ![s] = AvailableAfter(s, r)]

Fail(t) ==
    /\ call[t].phase = "asked"
    /\ call' = [call EXCEPT ![t].phase = "answered"]
    /\ UNCHANGED available

Return(t) ==
    /\ call[t].phase = "answered"
    /\ call' = [call EXCEPT ![t] = NoCall]
    /\ UNCHANGED available

\* A sensor finishes a conversion.
Sample(s) ==
    /\ available' = [available EXCEPT ![s] = Bits]
    /\ UNCHANGED call

Next ==
    \/ \E t \in Tasks : Ask(t) \/ Read(t) \/ Fail(t) \/ Return(t)
    \/ \E s \in Sensors : Sample(s)

Spec == Init /\ [][Next]_<<available, call>>
===============================================================================
