---------------------------- MODULE KeepAlive_proofs ----------------------------
(***************************************************************************)
(* KEEPs are never too early, for every interval. The argument is that the *)
(* counted waits and the current one all lie after the last KEEP; on a     *)
(* board that is left alone they are all there is.                         *)
(***************************************************************************)
EXTENDS KeepAlive, TLAPS

Counted == keepTimeout * FIVE_MINUTE + waited

IInv ==
    /\ TypeOK
    /\ age >= Counted
    /\ ~disturbed => inData /\ age = Counted
    /\ KeepNotEarly

\* One more wait of five minutes.
LEMMA OneWait ==
    ASSUME NEW k \in Nat
    PROVE  /\ (k + 1) * FIVE_MINUTE = k * FIVE_MINUTE + FIVE_MINUTE
           /\ k * FIVE_MINUTE \in Nat
BY FiveMinuteAssumption

\* As many waits as make a KEEP fill the interval, fewer do not exceed it.
LEMMA WithinInterval ==
    ASSUME NEW k \in 0 .. KEEP_TIMEOUT - 1
    PROVE  (k + 1) * FIVE_MINUTE <= Interval
<1>1. KEEP_TIMEOUT \in Nat /\ FIVE_MINUTE \in Nat /\ k \in Nat
  BY KeepTimeoutAssumption, FiveMinuteAssumption
<1>2. PICK d \in Nat : KEEP_TIMEOUT = (k + 1) + d
  <2>1. KEEP_TIMEOUT - (k + 1) \in Nat /\ KEEP_TIMEOUT = (k + 1) + (KEEP_TIMEOUT - (k + 1))
    BY <1>1
  <2>2. QED
    BY <2>1
<1>3. ((k + 1) + d) * FIVE_MINUTE = (k + 1) * FIVE_MINUTE + d * FIVE_MINUTE
  BY <1>1, Z3
<1>4. d * FIVE_MINUTE \in Nat
  BY <1>1
<1>5. QED
  BY <1>1, <1>2, <1>3, <1>4 DEF Interval

LEMMA NoWait == 0 * FIVE_MINUTE + 0 = 0
BY FiveMinuteAssumption

LEMMA ZeroInRange == 0 \in 0 .. KEEP_TIMEOUT - 1 /\ 0 \in 0 .. FIVE_MINUTE
<1>1. KEEP_TIMEOUT \in Nat /\ KEEP_TIMEOUT # 0 /\ FIVE_MINUTE \in Nat
  BY KeepTimeoutAssumption, FiveMinuteAssumption
<1>2. QED
  BY <1>1

LEMMA InitInv == Init => IInv
<1> SUFFICES ASSUME Init PROVE IInv
  OBVIOUS
<1>1. Counted = 0 * FIVE_MINUTE + 0
  BY DEF Init, Counted
<1>2. Counted = 0
  BY <1>1, NoWait
<1>3. TypeOK
  BY ZeroInRange DEF Init, TypeOK
<1>4. age >= Counted /\ age = Counted
  BY <1>2 DEF Init
<1>5. KeepNotEarly
  BY DEF Init, KeepNotEarly
<1>6. QED
  BY <1>3, <1>4, <1>5 DEF Init, IInv

LEMMA StepInv ==
    ASSUME IInv, [Next]_vars
    PROVE  IInv'
<1> USE FiveMinuteAssumption, KeepTimeoutAssumption
<1>0. keepTimeout \in Nat /\ keepTimeout * FIVE_MINUTE \in Nat
  BY OneWait DEF IInv, TypeOK
<1>1. CASE Minute
  BY <1>0, <1>1 DEF Minute, IInv, TypeOK, Counted, KeepNotEarly
<1>2. CASE Event
  BY <1>0, <1>2 DEF Event, IInv, TypeOK, Counted, KeepNotEarly
<1>3. CASE ConsoleCommand
  BY <1>3 DEF ConsoleCommand, IInv, TypeOK, Counted, KeepNotEarly
<1>4. CASE TimeOutInData
  <2>1. (keepTimeout + 1) * FIVE_MINUTE = keepTimeout * FIVE_MINUTE + FIVE_MINUTE
    BY <1>0, OneWait
  <2>2. age >= (keepTimeout + 1) * FIVE_MINUTE
    BY <1>0, <1>4, <2>1 DEF TimeOutInData, IInv, TypeOK, Counted
  <2>3. CASE keepTimeout + 1 = KEEP_TIMEOUT
    <3>1. age >= Interval
      BY <2>2, <2>3 DEF Interval
    <3>2. Counted' = 0 * FIVE_MINUTE + 0
      BY <1>4, <2>3 DEF TimeOutInData, Counted
    <3>3. Counted' = 0
      BY <3>2, NoWait
    <3>4. TypeOK'
      <4>1. waited' = 0 /\ keepTimeout' = 0 /\ age' = 0 /\ interval' = age
        BY <1>4, <2>3 DEF TimeOutInData, sendToSfxKeep
      <4>2. disturbed' \in BOOLEAN /\ inData' \in BOOLEAN
        BY <1>4, <2>3 DEF TimeOutInData, sendToSfxKeep, IInv, TypeOK
      <4>3. QED
        BY <4>1, <4>2, ZeroInRange DEF IInv, TypeOK
    <3>5. age' >= Counted' /\ age' = Counted' /\ inData'
      BY <1>4, <2>3, <3>3 DEF TimeOutInData, sendToSfxKeep
    <3>6. KeepNotEarly'
      BY <1>4, <2>3, <3>1 DEF TimeOutInData, sendToSfxKeep, KeepNotEarly, Interval
    <3>7. QED
      BY <3>4, <3>5, <3>6 DEF IInv
  <2>4. CASE keepTimeout + 1 # KEEP_TIMEOUT
    BY <1>0, <1>4, <2>1, <2>4 DEF TimeOutInData, IInv, TypeOK, Counted, KeepNotEarly
  <2>5. QED
    BY <2>3, <2>4
<1>5. CASE TimeOutInConf
  BY <1>0, <1>5 DEF TimeOutInConf, IInv, TypeOK, Counted, KeepNotEarly
<1>6. CASE UNCHANGED vars
  BY <1>6 DEF vars, IInv, TypeOK, Counted, KeepNotEarly
<1>7. QED
  BY <1>1, <1>2, <1>3, <1>4, <1>5, <1>6 DEF Next

LEMMA Invariance == Spec => []IInv
BY InitInv, StepInv, PTL DEF Spec

\* The count of time-outs stays below KEEP_TIMEOUT: it never steps over it.
THEOREM TypeCorrect == Spec => []TypeOK
<1>1. IInv => TypeOK
  BY DEF IInv
<1>2. QED
  BY <1>1, Invariance, PTL

\* Two KEEPs are never closer than KEEP_TIMEOUT waits, whatever events arrive.
THEOREM NotEarly == Spec => []KeepNotEarly
<1>1. IInv => KeepNotEarly
  BY DEF IInv
<1>2. QED
  BY <1>1, Invariance, PTL

\* Left alone, the board sends a KEEP at least every KEEP_TIMEOUT waits.
THEOREM OnQuietBoard == Spec => []KeepOnQuietBoard
<1>1. ASSUME IInv PROVE KeepOnQuietBoard
  <2>1. keepTimeout \in 0 .. KEEP_TIMEOUT - 1 /\ keepTimeout \in Nat
    BY <1>1, KeepTimeoutAssumption DEF IInv, TypeOK
  <2>2. (keepTimeout + 1) * FIVE_MINUTE = keepTimeout * FIVE_MINUTE + FIVE_MINUTE
    BY <2>1, OneWait
  <2>3. keepTimeout * FIVE_MINUTE \in Nat /\ (keepTimeout + 1) * FIVE_MINUTE <= Interval
    BY <2>1, OneWait, WithinInterval
  <2>4. Interval \in Nat
    BY KeepTimeoutAssumption, FiveMinuteAssumption DEF Interval
  <2>5. QED
    BY <1>1, <2>2, <2>3, <2>4, FiveMinuteAssumption
    DEF IInv, TypeOK, Counted, KeepOnQuietBoard
<1>2. QED
  BY <1>1, Invariance, PTL
===============================================================================
