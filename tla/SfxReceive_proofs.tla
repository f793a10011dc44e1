-------------------------- MODULE SfxReceive_proofs ---------------------------
(***************************************************************************)
(* The receive FSM accepts exactly the answers that bear an expected       *)
(* number, whatever bytes come in, whatever the statuses and the sequence  *)
(* numbers, and wherever a sender preempts it. An answer that runs past    *)
(* its payload is excepted; its damage ends with the next header.          *)
(***************************************************************************)
EXTENDS SfxReceive, WellFoundedInduction, SequenceTheorems, TLAPS

-----------------------------------------------------------------------------
(* The check sum.                                                          *)

LEMMA ByteRange ==
    /\ 0 \in Byte
    /\ \A b \in Byte : b \in Nat /\ b <= 255
    /\ \A n \in Nat : n <= 255 => n \in Byte
BY DEF Byte

LEMMA ByteOfPayload ==
    ASSUME NEW p \in Seq(Byte), NEW i \in 1 .. Len(p)
    PROVE  p[i] \in Byte /\ p[i] \in Nat
<1>1. p[i] \in Byte
  OBVIOUS
<1>2. QED
  BY <1>1, ByteRange

\* A set of natural numbers that is not empty has a least element.
LEMMA LeastElement ==
    ASSUME NEW T \in SUBSET Nat, T # {}
    PROVE  \E n \in T : \A m \in T : n <= m
<1>1. IsWellFoundedOn(OpToRel(<, Nat), Nat)
  BY NatLessThanWellFounded
<1>2. PICK n \in T : \A m \in T : <<m, n>> \notin OpToRel(<, Nat)
  BY <1>1, WFMin
<1>3. \A m \in T : ~(m < n)
  BY <1>2 DEF OpToRel
<1>4. QED
  BY <1>3

\* g adds up the first n bytes of p.
AddsUp(g, p, n) ==
    g = [i \in 0 .. n |-> IF i = 0 THEN 0 ELSE g[i - 1] + p[i]]

Summable(p) ==
    {n \in 0 .. Len(p) : \E g \in [0 .. n -> Nat] : AddsUp(g, p, n)}

LEMMA SummableStep ==
    ASSUME NEW p \in Seq(Byte), NEW n \in Nat, n + 1 <= Len(p), n \in Summable(p)
    PROVE  n + 1 \in Summable(p)
<1>1. PICK g \in [0 .. n -> Nat] : AddsUp(g, p, n)
  BY DEF Summable
<1>2. p[n + 1] \in Nat
  BY n + 1 \in 1 .. Len(p), ByteOfPayload
<1> DEFINE h == [i \in 0 .. n + 1 |-> IF i = n + 1 THEN g[n] + p[n + 1] ELSE g[i]]
<1>3. h \in [0 .. n + 1 -> Nat]
  BY <1>2
<1>4. \A i \in 0 .. n + 1 : h[i] = IF i = 0 THEN 0 ELSE h[i - 1] + p[i]
  <2> SUFFICES ASSUME NEW i \in 0 .. n + 1
               PROVE  h[i] = IF i = 0 THEN 0 ELSE h[i - 1] + p[i]
    OBVIOUS
  <2>1. CASE i = n + 1
    BY <2>1
  <2>2. CASE i # n + 1
    <3>1. i \in 0 .. n /\ h[i] = g[i] /\ (i # 0 => i - 1 \in 0 .. n /\ h[i - 1] = g[i - 1])
      BY <2>2
    <3>2. g[i] = IF i = 0 THEN 0 ELSE g[i - 1] + p[i]
      BY <1>1, <3>1 DEF AddsUp
    <3>3. QED
      BY <3>1, <3>2
  <2>3. QED
    BY <2>1, <2>2
<1>5. AddsUp(h, p, n + 1)
  <2> HIDE DEF h
  <2>1. QED
    BY <1>3, <1>4 DEF AddsUp
<1>6. n + 1 \in 0 .. Len(p)
  OBVIOUS
<1>7. QED
  <2> HIDE DEF h
  <2>1. QED
    BY <1>3, <1>5, <1>6 DEF Summable

\* The sum of a payload is a number: the recursion of SumOf comes to an end.
LEMMA SumIsNat == ASSUME NEW p \in Seq(Byte) PROVE SumOf(p) \in Nat
<1>1. Len(p) \in Nat
  OBVIOUS
<1>2. 0 \in Summable(p)
  <2> DEFINE g == [i \in 0 .. 0 |-> 0]
  <2>1. g \in [0 .. 0 -> Nat] /\ AddsUp(g, p, 0)
    BY DEF AddsUp
  <2>2. QED
    BY <1>1, <2>1 DEF Summable
<1>3. Len(p) \in Summable(p)
  <2> SUFFICES ASSUME Len(p) \notin Summable(p) PROVE FALSE
    OBVIOUS
  <2> DEFINE T == (0 .. Len(p)) \ Summable(p)
  <2>1. T \in SUBSET Nat /\ Len(p) \in T
    BY <1>1
  <2>2. PICK n \in T : \A m \in T : n <= m
    BY <2>1, LeastElement
  <2>3. n \in 0 .. Len(p) /\ n # 0 /\ n \notin Summable(p)
    BY <1>2
  <2>4. n - 1 \in Nat /\ n - 1 \in 0 .. Len(p) /\ n - 1 < n /\ (n - 1) + 1 = n
    BY <1>1, <2>3
  <2>5. n - 1 \in Summable(p)
    BY <2>2, <2>4
  <2>6. QED
    BY <2>3, <2>4, <2>5, SummableStep
<1>4. PICK g \in [0 .. Len(p) -> Nat] : AddsUp(g, p, Len(p))
  BY <1>3 DEF Summable
<1> DEFINE sum == CHOOSE f : AddsUp(f, p, Len(p))
<1>5. AddsUp(sum, p, Len(p))
  BY <1>4
<1>6. SumOf(p) = sum[Len(p)]
  BY DEF SumOf, AddsUp
<1>7. \A n \in 0 .. Len(p) : sum[n] \in Nat
  <2> SUFFICES ASSUME NEW k \in 0 .. Len(p), sum[k] \notin Nat PROVE FALSE
    OBVIOUS
  <2> DEFINE T == {n \in 0 .. Len(p) : sum[n] \notin Nat}
  <2>0. \A n \in 0 .. Len(p) : sum[n] = IF n = 0 THEN 0 ELSE sum[n - 1] + p[n]
    <3> HIDE DEF sum
    <3>1. QED
      BY <1>5 DEF AddsUp
  <2> HIDE DEF sum
  <2>1. T \in SUBSET Nat /\ T # {}
    BY <1>1
  <2>2. PICK n \in T : \A m \in T : n <= m
    BY <2>1, LeastElement
  <2>3. n \in 0 .. Len(p) /\ sum[n] \notin Nat
    OBVIOUS
  <2>4. n # 0
    BY <2>0, <2>3
  <2>5. n - 1 \in 0 .. Len(p) /\ n - 1 < n /\ n \in 1 .. Len(p)
    BY <1>1, <2>3, <2>4
  <2>6. sum[n - 1] \in Nat
    BY <2>2, <2>5
  <2>7. p[n] \in Nat
    BY <2>5, ByteOfPayload
  <2>8. QED
    BY <2>0, <2>3, <2>4, <2>6, <2>7
<1>8. QED
  BY <1>1, <1>6, <1>7

LEMMA CrcIsWord ==
    ASSUME NEW l \in Byte, NEW t \in Byte, NEW s \in Byte, NEW p \in Seq(Byte)
    PROVE  calculateCRC(l, t, s, p) \in Nat /\ calculateCRC(l, t, s, p) <= 65535
<1>1. l \in Nat /\ t \in Nat /\ s \in Nat /\ SumOf(p) \in Nat
  BY SumIsNat, ByteRange
<1>2. ASSUME NEW a \in Nat, NEW b \in Nat, NEW c \in Nat, NEW d \in Nat
      PROVE  (a + b + c + d) % 65536 \in Nat /\ (a + b + c + d) % 65536 <= 65535
  OBVIOUS
<1>3. QED
  BY <1>1, <1>2 DEF calculateCRC

\* The two bytes of a word are its remainder and its quotient.
LEMMA BytesOfWord ==
    ASSUME NEW c \in Nat, c <= 65535
    PROVE  c % 256 \in Byte /\ c \div 256 \in Byte
<1>1. c % 256 \in Nat /\ c % 256 <= 255 /\ c \div 256 \in Nat /\ c \div 256 <= 255
  OBVIOUS
<1>2. QED
  BY <1>1, ByteRange

LEMMA WordOfBytes ==
    ASSUME NEW c \in Nat, c <= 65535, NEW a \in Byte, NEW b \in Byte
    PROVE  a + 256 * b = c <=> a = c % 256 /\ b = c \div 256
<1>1. a \in Nat /\ b \in Nat /\ a <= 255 /\ b <= 255
  BY ByteRange
<1>2. QED
  BY <1>1

-----------------------------------------------------------------------------
(* The invariant.                                                          *)

AnswerOK(a) ==
    /\ a \in [length : Byte, type : Byte, seq : Byte, payload : Seq(Byte), crc : Seq(Byte)]
    /\ Len(a.payload) \in 0 .. AnswerLen
    /\ Len(a.crc) \in 0 .. 2

SumOfAnswer == calculateCRC(answer.length, answer.type, answer.seq, answer.payload)

\* The FSM in this state has read what the history has seen.
Tracks(state) ==
    /\ state = "lenRec" => Len(seen) = 1
    /\ state = "typeRec" => Len(seen) = 2
    /\ state = "sequenceRec" => Len(seen) = 3
    /\ state = "payloadRec" =>
           /\ Len(seen) = 4 + Len(answer.payload)
           /\ answer.length = 0 \/ Len(answer.payload) < answer.length
           /\ verdict = "none"
    /\ state \in {"crcRec", "tailerRec"} =>
           /\ answer.length > 0 /\ Len(answer.payload) = answer.length
           /\ Len(seen) = 4 + answer.length + Len(answer.crc)
           /\ Confirms(answer.type) => answer.payload[1] = 0
           /\ \A i \in 1 .. Len(answer.crc) : seen[4 + answer.length + i] = answer.crc[i]
    /\ state = "crcRec" => Len(answer.crc) < 2
    /\ state = "tailerRec" =>
           /\ Len(answer.crc) = 2
           /\ answer.crc[1] = SumOfAnswer % 256 /\ answer.crc[2] = SumOfAnswer \div 256
    /\ state \notin {"headerRec", "nullState"} => seen[1] = SFX_MSG_HEADER
    /\ state \notin {"headerRec", "nullState", "lenRec"} => seen[2] = answer.length
    /\ state \notin {"headerRec", "nullState", "lenRec", "typeRec"} => seen[3] = answer.type
    /\ state \in {"payloadRec", "crcRec", "tailerRec"} =>
           /\ seen[4] = answer.seq /\ answer.seq \in expected
           /\ \A i \in 1 .. Len(answer.payload) : seen[4 + i] = answer.payload[i]

\* Where it does: in the state that is to be stored, and in the state of the
\* FSM whenever the data parser may be next to read it. A sender that comes in
\* between starts the FSM anew.
Tracking ==
    /\ rx.phase = "store" => Tracks(rx.next)
    /\ rx.phase = "data" => Tracks(recFsm)
    /\ rx.phase \in {"idle", "select"} /\ sfxStatus \in DataStatuses => Tracks(recFsm)
    /\ rx.phase = "conf" /\ sfxStatus \in DataStatuses => recFsm = "headerRec"

\* The verdict, on the numbers compared with.
AcceptsExpected ==
    rx.phase \in {"idle", "store"} => (verdict = "ok" <=> IsAnswer(seen, expected))

IInv ==
    /\ TypeOK
    /\ ~overrun => Tracking
    /\ ~overrun => AcceptsExpected
    /\ RefusesOthers

-----------------------------------------------------------------------------
(* Types.                                                                  *)

LEMMA Appended ==
    ASSUME NEW S, NEW q \in Seq(S), NEW e \in S
    PROVE  /\ Append(q, e) \in Seq(S) /\ Len(Append(q, e)) = Len(q) + 1
           /\ Len(q) \in Nat
           /\ Append(q, e)[Len(q) + 1] = e
           /\ \A i \in 1 .. Len(q) : Append(q, e)[i] = q[i]
OBVIOUS

LEMMA TypeOfAnswer == TypeOK <=>
    /\ AnswerOK(answer)
    /\ sfxStatus \in Statuses \cup {"conf"}
    /\ sfxMessageIdx \in [data : Sequences \cup {0}, keep : Sequences \cup {0}]
    /\ recFsm \in FsmStates
    /\ rx \in [phase : {"idle", "select", "data", "conf", "store"}, byte : Byte,
               next : FsmStates]
    /\ overrun \in BOOLEAN
    /\ verdict \in {"none", "ok", "error", "confirmed"}
    /\ seen \in Seq(Byte)
    /\ expected \subseteq Sequences \cup {0}
BY DEF TypeOK, AnswerOK

\* A byte of a data answer joins the history, unless the answer is overrun.
LEMMA SeenType ==
    ASSUME TypeOK, NEW state \in FsmStates, HandlingData(state)
    PROVE  /\ seen' \in Seq(Byte) /\ expected' \subseteq Sequences \cup {0}
           /\ state = "headerRec" => Len(seen') = 1 /\ seen'[1] = rx.byte
           /\ state \notin {"headerRec", "nullState"} /\ ~overrun
                => seen' = Append(seen, rx.byte)
           /\ state = "nullState" => Len(seen') = 0
           /\ state \notin {"headerRec", "sequenceRec"} => expected' = expected
<1>1. rx.byte \in Byte /\ seen \in Seq(Byte)
  BY DEF TypeOK
<1>2. CASE state = "headerRec"
  <2>1. seen' = <<rx.byte>> /\ expected' = {}
    BY <1>2 DEF HandlingData
  <2>2. QED
    BY <1>1, <1>2, <2>1
<1>3. CASE state = "nullState"
  <2>1. seen' = <<>> /\ expected' = expected
    BY <1>3 DEF HandlingData
  <2>2. QED
    BY <1>3, <2>1 DEF TypeOK
<1>4. CASE state \notin {"headerRec", "nullState"}
  <2>1. IF overrun THEN seen' = <<>> ELSE seen' = Append(seen, rx.byte)
    BY <1>4 DEF HandlingData
  <2>2. expected' = expected \/
            (state = "sequenceRec" /\ expected' = {sfxMessageIdx.data, sfxMessageIdx.keep})
    BY <1>4 DEF HandlingData
  <2>3. expected' \subseteq Sequences \cup {0}
    BY <2>2 DEF TypeOK
  <2>4. Append(seen, rx.byte) \in Seq(Byte) /\ <<>> \in Seq(Byte)
    BY <1>1, Appended
  <2>5. seen' \in Seq(Byte)
    BY <2>1, <2>4
  <2>6. QED
    BY <1>4, <2>1, <2>2, <2>3, <2>5
<1>5. QED
  BY <1>2, <1>3, <1>4

LEMMA HandledType ==
    ASSUME TypeOK, UNCHANGED sendVars, recFsm' \in FsmStates, overrun' \in BOOLEAN,
           Stay \/ (\E s \in FsmStates : Continue(s)),
           AnswerOK(answer'), verdict' \in {"none", "ok", "error", "confirmed"},
           seen' \in Seq(Byte), expected' \subseteq Sequences \cup {0}
    PROVE  TypeOK'
<1>1. rx' \in [phase : {"idle", "select", "data", "conf", "store"}, byte : Byte,
               next : FsmStates]
  BY ByteRange DEF Stay, Continue, Idle, FsmStates
<1>2. QED
  BY <1>1 DEF TypeOK, AnswerOK, sendVars

\* What a byte stored into the answer, or behind it, may make of it.
LEMMA AnswerTypes ==
    ASSUME AnswerOK(answer), NEW b \in Byte
    PROVE  /\ AnswerOK([answer EXCEPT !.length = b]) /\ AnswerOK([answer EXCEPT !.type = b])
           /\ AnswerOK([answer EXCEPT !.payload = <<>>])
           /\ AnswerOK([answer EXCEPT !.seq = b, !.payload = <<>>])
           /\ AnswerOK(NoAnswer) /\ AnswerOK([NoAnswer EXCEPT !.payload = answer.payload])
           /\ Len(answer.payload) < AnswerLen
                => LET p == Append(answer.payload, b)
                   IN  /\ AnswerOK([answer EXCEPT !.payload = p])
                       /\ AnswerOK([answer EXCEPT !.payload = p, !.crc = <<>>])
           /\ Len(answer.crc) < 2 => AnswerOK([answer EXCEPT !.crc = Append(answer.crc, b)])
           /\ \A p \in {answer.payload, <<>>}, crc \in Counters :
                  AnswerOK([answer EXCEPT !.payload = p, !.crc = crc])
           /\ \A crc \in Counters : AnswerOK([answer EXCEPT !.crc = crc])
           /\ \A p \in {answer.payload, <<>>} :
                  /\ AnswerOK([answer EXCEPT !.payload = p])
                  /\ AnswerOK([answer EXCEPT !.payload = p, !.crc = <<>>])
<1>1. /\ answer \in [length : Byte, type : Byte, seq : Byte,
                     payload : Seq(Byte), crc : Seq(Byte)]
      /\ Len(answer.payload) \in 0 .. AnswerLen /\ Len(answer.crc) \in 0 .. 2
  BY DEF AnswerOK
<1>2. <<>> \in Seq(Byte) /\ Len(<<>>) = 0 /\ 0 \in 0 .. AnswerLen /\ 0 \in 0 .. 2 /\ 0 \in Byte
  BY PayloadLenAssumption, ByteRange DEF AnswerLen
<1>3. \A crc \in Counters : crc \in Seq(Byte) /\ Len(crc) \in 0 .. 2
  <2>1. <<0>> = Append(<<>>, 0) /\ <<0, 0>> = Append(<<0>>, 0)
    OBVIOUS
  <2>2. <<0>> \in Seq(Byte) /\ Len(<<0>>) = 1
    BY <1>2, <2>1, Appended
  <2>3. <<0, 0>> \in Seq(Byte) /\ Len(<<0, 0>>) = 2
    BY <1>2, <2>1, <2>2, Appended
  <2>4. Len(<<>>) \in 0 .. 2 /\ Len(<<0>>) \in 0 .. 2 /\ Len(<<0, 0>>) \in 0 .. 2
    BY <1>2, <2>2, <2>3
  <2>5. QED
    BY <1>2, <2>2, <2>3, <2>4, Zenon DEF Counters
<1>4. ASSUME Len(answer.payload) < AnswerLen
      PROVE  /\ Append(answer.payload, b) \in Seq(Byte)
             /\ Len(Append(answer.payload, b)) \in 0 .. AnswerLen
  <2>1. Append(answer.payload, b) \in Seq(Byte)
        /\ Len(Append(answer.payload, b)) = Len(answer.payload) + 1
    BY <1>1, Appended
  <2>2. Len(answer.payload) + 1 \in 0 .. AnswerLen
    BY <1>1, <1>4, PayloadLenAssumption DEF AnswerLen
  <2>3. QED
    BY <2>1, <2>2
<1>5. ASSUME Len(answer.crc) < 2
      PROVE  /\ Append(answer.crc, b) \in Seq(Byte)
             /\ Len(Append(answer.crc, b)) \in 0 .. 2
  <2>1. Append(answer.crc, b) \in Seq(Byte)
        /\ Len(Append(answer.crc, b)) = Len(answer.crc) + 1
    BY <1>1, Appended
  <2>2. Len(answer.crc) + 1 \in 0 .. 2
    BY <1>1, <1>5
  <2>3. QED
    BY <2>1, <2>2
<1> HIDE DEF Counters
<1>6. QED
  BY <1>1, <1>2, <1>3, <1>4, <1>5 DEF AnswerOK, NoAnswer

\* What a handler of either parser has at hand.
LEMMA HandlerTypes ==
    ASSUME TypeOK, NEW parser, Handling(parser)
    PROVE  /\ UNCHANGED sendVars /\ AnswerOK(answer) /\ rx.byte \in Byte /\ 0 \in Byte
           /\ recFsm \in FsmStates /\ overrun \in BOOLEAN
  BY TypeOfAnswer, ByteRange DEF Handling, TypeOK

LEMMA PayloadEndType ==
    ASSUME NEW first, NEW payload, PayloadEnd(first, payload),
           AnswerOK([answer EXCEPT !.payload = payload]),
           AnswerOK([answer EXCEPT !.payload = payload, !.crc = <<>>])
    PROVE  /\ AnswerOK(answer') /\ \E s \in FsmStates : Continue(s)
           /\ verdict' \in {"none", "error"}
  BY DEF PayloadEnd, Give, FsmStates

\* Every handler keeps the types, in answers that overrun the payload as well.
LEMMA HandleTypes ==
    ASSUME TypeOK, Handle
    PROVE  TypeOK'
<1> USE DEF Give
<1>1. CASE HandleConfByte \/ HandleConfEnd
  <2>1. Handling("conf")
    BY <1>1 DEF HandleConfByte, HandleConfEnd
  <2>2. /\ UNCHANGED sendVars /\ AnswerOK(answer) /\ 0 \in Byte
        /\ recFsm \in FsmStates /\ overrun \in BOOLEAN
    BY <2>1, HandlerTypes
  <2>3. Stay /\ seen' = <<>> /\ expected' = expected /\ verdict' \in {"none", "confirmed"}
    BY <1>1 DEF HandleConfByte, HandleConfEnd
  <2>4. seen' \in Seq(Byte) /\ expected' \subseteq Sequences \cup {0}
    BY <2>3 DEF TypeOK
  <2>5. AnswerOK(answer') /\ recFsm' \in FsmStates /\ overrun' \in BOOLEAN
    <3>1. CASE HandleConfEnd
      BY <2>2, <3>1, AnswerTypes DEF HandleConfEnd
    <3>2. CASE HandleConfByte /\ Len(answer.payload) < AnswerLen
      <4>1. answer' = [answer EXCEPT !.payload = Append(answer.payload, 0)]
            /\ overrun' \in BOOLEAN /\ recFsm' = recFsm
        BY <2>2, <3>2 DEF HandleConfByte
      <4>2. QED
        BY <2>2, <3>2, <4>1, AnswerTypes
    <3>3. CASE HandleConfByte /\ ~(Len(answer.payload) < AnswerLen)
      <4>1. StoreOutside /\ \E payload \in {answer.payload, <<>>}, crc \in Counters :
                                answer' = [answer EXCEPT !.payload = payload, !.crc = crc]
        BY <3>3 DEF HandleConfByte
      <4>2. QED
        BY <2>2, <4>1, AnswerTypes DEF StoreOutside
    <3>4. QED
      BY <1>1, <3>1, <3>2, <3>3
  <2>6. QED
    BY <2>2, <2>3, <2>4, <2>5, HandledType
<1>2. ASSUME NEW state \in FsmStates, HandlingData(state), AnswerOK(answer'),
             recFsm' \in FsmStates, overrun' \in BOOLEAN,
             Stay \/ (\E s \in FsmStates : Continue(s)),
             verdict' \in {"none", "ok", "error"}
      PROVE  TypeOK'
  <2>1. UNCHANGED sendVars
    BY <1>2 DEF HandlingData, Handling
  <2>2. seen' \in Seq(Byte) /\ expected' \subseteq Sequences \cup {0}
    BY <1>2, SeenType
  <2>3. QED
    BY <1>2, <2>1, <2>2, HandledType
<1>3. ASSUME NEW state, HandlingData(state)
      PROVE  /\ AnswerOK(answer) /\ rx.byte \in Byte /\ 0 \in Byte
             /\ recFsm \in FsmStates /\ overrun \in BOOLEAN
  BY <1>3, HandlerTypes DEF HandlingData
<1>4. CASE HandleHeader \/ HandleLength \/ HandleType \/ HandleSequence
           \/ HandleTailer \/ HandleNull
  <2>1. PICK state \in FsmStates : HandlingData(state)
    BY <1>4 DEF HandleHeader, HandleLength, HandleType, HandleSequence, HandleTailer,
                HandleNull, FsmStates
  <2>2. /\ AnswerOK(answer) /\ rx.byte \in Byte
        /\ recFsm \in FsmStates /\ overrun \in BOOLEAN
    BY <1>3, <2>1
  <2>3. AnswerOK(answer')
    BY <1>4, <2>2, AnswerTypes DEF HandleHeader, HandleLength, HandleType, HandleSequence,
                                   HandleTailer, HandleNull
  <2>4. /\ Stay \/ (\E s \in FsmStates : Continue(s))
        /\ recFsm' \in FsmStates /\ overrun' \in BOOLEAN
        /\ verdict' \in {"none", "ok", "error"}
    BY <1>4, <2>2 DEF HandleHeader, HandleLength, HandleType, HandleSequence,
                      HandleTailer, HandleNull, FsmStates
  <2>5. QED
    BY <1>2, <2>1, <2>3, <2>4
<1>5. CASE HandlePayload
  <2>0. PICK state \in FsmStates : HandlingData(state)
    BY <1>5 DEF HandlePayload, FsmStates
  <2>1. recFsm' = recFsm /\ Len(answer.payload) < AnswerLen
    BY <1>5 DEF HandlePayload
  <2>2. /\ AnswerOK(answer) /\ rx.byte \in Byte /\ 0 \in Byte
        /\ recFsm \in FsmStates /\ overrun \in BOOLEAN
    BY <1>3, <2>0
  <2>3. PICK b \in Byte :
            LET payload == Append(answer.payload, b)
            IN  IF Len(payload) = answer.length
                THEN PayloadEnd(payload[1], payload)
                ELSE answer' = [answer EXCEPT !.payload = payload] /\ Stay /\ verdict' = "none"
    BY <1>5, <2>2 DEF HandlePayload
  <2>4. /\ AnswerOK([answer EXCEPT !.payload = Append(answer.payload, b)])
        /\ AnswerOK([answer EXCEPT !.payload = Append(answer.payload, b), !.crc = <<>>])
    BY <2>1, <2>2, AnswerTypes
  <2>5. overrun' \in BOOLEAN
    BY <1>5, <2>2 DEF HandlePayload
  <2>6. /\ AnswerOK(answer')
        /\ Stay \/ (\E s \in FsmStates : Continue(s))
        /\ verdict' \in {"none", "error"}
    BY <2>3, <2>4, PayloadEndType
  <2>7. AnswerOK(answer')
    BY <2>6
  <2>8. /\ Stay \/ (\E s \in FsmStates : Continue(s))
        /\ recFsm' \in FsmStates /\ overrun' \in BOOLEAN
        /\ verdict' \in {"none", "ok", "error"}
    BY <2>1, <2>2, <2>5, <2>6
  <2>9. QED
    BY <1>2, <2>0, <2>7, <2>8
<1>6. CASE HandlePayloadOutside
  <2>0. PICK state \in FsmStates : HandlingData(state)
    BY <1>6 DEF HandlePayloadOutside, FsmStates
  <2>1. recFsm' \in FsmStates /\ overrun' \in BOOLEAN
    BY <1>6 DEF HandlePayloadOutside, StoreOutside
  <2>2. AnswerOK(answer) /\ 0 \in Byte
    BY <1>3, <2>0
  <2>3. PICK payload \in {answer.payload, <<>>}, crc \in Counters :
          \/ /\ answer' = [answer EXCEPT !.payload = payload, !.crc = crc]
             /\ Stay /\ verdict' = "none"
          \/ PayloadEnd(answer.payload[1], payload)
    BY <1>6 DEF HandlePayloadOutside
  <2>4. /\ AnswerOK([answer EXCEPT !.payload = payload])
        /\ AnswerOK([answer EXCEPT !.payload = payload, !.crc = <<>>])
        /\ AnswerOK([answer EXCEPT !.payload = payload, !.crc = crc])
    BY <2>2, AnswerTypes
  <2>5. /\ AnswerOK(answer')
        /\ Stay \/ (\E s \in FsmStates : Continue(s))
        /\ verdict' \in {"none", "error"}
    BY <2>3, <2>4, PayloadEndType
  <2>6. AnswerOK(answer')
    BY <2>5
  <2>7. /\ Stay \/ (\E s \in FsmStates : Continue(s))
        /\ recFsm' \in FsmStates /\ overrun' \in BOOLEAN
        /\ verdict' \in {"none", "ok", "error"}
    BY <2>1, <2>5
  <2>8. QED
    BY <1>2, <2>0, <2>6, <2>7
<1>7. CASE HandleCrc \/ HandleCrcOutside
  <2>1. HandlingData("crcRec") /\ "crcRec" \in FsmStates
    BY <1>7 DEF HandleCrc, HandleCrcOutside, FsmStates
  <2>2. /\ AnswerOK(answer) /\ rx.byte \in Byte /\ 0 \in Byte
        /\ recFsm \in FsmStates /\ overrun \in BOOLEAN
    BY <1>3, <2>1
  <2>3. AnswerOK(answer')
    BY <1>7, <2>2, AnswerTypes DEF HandleCrc, HandleCrcOutside
  <2>4. /\ Stay \/ (\E s \in FsmStates : Continue(s))
        /\ recFsm' \in FsmStates /\ overrun' \in BOOLEAN
        /\ verdict' \in {"none", "error"}
    BY <1>7, <2>2, ZenonT(60) DEF HandleCrc, HandleCrcOutside, StoreOutside, FsmStates
  <2>5. QED
    BY <1>2, <2>1, <2>3, <2>4
<1>8. QED
  BY <1>1, <1>4, <1>5, <1>6, <1>7 DEF Handle

-----------------------------------------------------------------------------
(* The steps outside the parsers.                                          *)

\* An answer to one of numbers is one to a number that is not 0, or one to 0.
LEMMA AnswerKinds ==
    ASSUME NEW s \in Seq(Byte), NEW numbers
    PROVE  IsAnswer(s, numbers) <=> \/ IsAnswer(s, numbers \ {0})
                                    \/ 0 \in numbers /\ IsAnswer(s, {0})
<1>1. CASE Len(s) >= 4
  BY <1>1 DEF IsAnswer, MayBecomeAnswer
<1>2. CASE ~(Len(s) >= 4)
  <2>1. Len(s) >= 2 /\ s[2] > 0 => Len(s) # 7 + s[2]
    <3> SUFFICES ASSUME Len(s) >= 2 PROVE s[2] > 0 => Len(s) # 7 + s[2]
      OBVIOUS
    <3>1. s[2] \in Nat
      BY ByteOfPayload
    <3>2. QED
      BY <1>2, <3>1
  <2>2. QED
    BY <2>1 DEF IsAnswer
<1>3. QED
  BY <1>1, <1>2

LEMMA InitInv == Init => IInv
<1> SUFFICES ASSUME Init PROVE IInv
  OBVIOUS
<1>1. NoAnswer \in [length : Byte, type : Byte, seq : Byte, payload : Seq(Byte), crc : Seq(Byte)]
      /\ Len(NoAnswer.payload) = 0 /\ Len(NoAnswer.crc) = 0
  BY ByteRange DEF NoAnswer
<1>2. AnswerOK(answer)
  <2>1. 0 \in 0 .. AnswerLen /\ 0 \in 0 .. 2
    BY PayloadLenAssumption DEF AnswerLen
  <2>2. answer = NoAnswer
    BY DEF Init
  <2>3. QED
    BY <1>1, <2>1, <2>2 DEF AnswerOK
<1>3. rx \in [phase : {"idle", "select", "data", "conf", "store"}, byte : Byte,
              next : FsmStates]
  BY ByteRange DEF Init, Idle, FsmStates
<1>4. seen \in Seq(Byte) /\ Len(seen) = 0
  BY DEF Init
<1>5. TypeOK
  BY <1>2, <1>3, <1>4, TypeOfAnswer DEF Init, FsmStates
<1>6. Tracking
  BY DEF Init, Idle, Tracking, DataStatuses
<1>7. ~IsAnswer(seen, expected)
  BY <1>4 DEF IsAnswer
<1>8. QED
  BY <1>5, <1>6, <1>7 DEF Init, IInv, AcceptsExpected, RefusesOthers

LEMMA SendInv == ASSUME IInv, NEW status \in Statuses, Send(status) PROVE IInv'
<1>1. recFsm' = "headerRec" /\ UNCHANGED <<answer, rx, overrun, verdict, seen, expected>>
  BY DEF Send
<1>2. sfxMessageIdx' \in [data : Sequences \cup {0}, keep : Sequences \cup {0}]
  BY DEF Send, IInv, TypeOK
<1>3. sfxStatus' \in Statuses \cup {"conf"}
  BY DEF Send
<1>4. TypeOK'
  BY <1>1, <1>2, <1>3 DEF IInv, TypeOK, FsmStates
<1>5. Tracks("headerRec")'
  BY DEF Tracks
<1>6. ~overrun => Tracking'
  BY <1>1, <1>5 DEF IInv, Tracking, Tracks, SumOfAnswer
<1>7. QED
  BY <1>1, <1>4, <1>6 DEF IInv, AcceptsExpected, RefusesOthers

LEMMA ChecksumBytes == TypeOK => Checksum \subseteq Byte
<1> SUFFICES ASSUME TypeOK PROVE Checksum \subseteq Byte
  OBVIOUS
<1>1. SumOfAnswer \in Nat /\ SumOfAnswer <= 65535
  BY CrcIsWord DEF TypeOK, SumOfAnswer
<1>2. SumOfAnswer % 256 \in Byte /\ SumOfAnswer \div 256 \in Byte
  BY <1>1, BytesOfWord
<1>3. QED
  BY <1>2 DEF Checksum, SumOfAnswer

LEMMA ReceiveByteInv == IInv /\ ReceiveByte => IInv'
<1> SUFFICES ASSUME IInv, ReceiveByte PROVE IInv'
  OBVIOUS
<1>1. PICK b \in Bytes \cup Checksum : rx' = [rx EXCEPT !.phase = "select", !.byte = b]
  BY DEF ReceiveByte
<1>2. b \in Byte
  BY ChecksumBytes, BytesAssumption DEF IInv
<1>3. rx.phase = "idle"
      /\ UNCHANGED <<sendVars, recFsm, answer, overrun, verdict, seen, expected>>
  BY DEF ReceiveByte
<1>4. TypeOK' /\ rx'.phase = "select"
  BY <1>1, <1>2, <1>3 DEF IInv, TypeOK, sendVars
<1>5. ~overrun => Tracking'
  BY <1>3, <1>4 DEF IInv, Tracking, Tracks, SumOfAnswer, sendVars
<1>6. QED
  BY <1>3, <1>4, <1>5 DEF IInv, AcceptsExpected, RefusesOthers

LEMMA SelectParserInv == IInv /\ SelectParser => IInv'
<1> SUFFICES ASSUME IInv, SelectParser PROVE IInv'
  OBVIOUS
<1>1. rx.phase = "select"
      /\ UNCHANGED <<sendVars, recFsm, answer, overrun, verdict, seen, expected>>
      /\ rx' = [rx EXCEPT !.phase = IF sfxStatus \in DataStatuses THEN "data" ELSE "conf"]
  BY DEF SelectParser
<1>2. TypeOK' /\ rx'.phase = IF sfxStatus \in DataStatuses THEN "data" ELSE "conf"
  BY <1>1 DEF IInv, TypeOK, sendVars
<1>3. ~overrun => Tracking'
  BY <1>1, <1>2 DEF IInv, Tracking, Tracks, SumOfAnswer, sendVars
<1>4. QED
  BY <1>1, <1>2, <1>3 DEF IInv, AcceptsExpected, RefusesOthers

LEMMA StoreInv == IInv /\ Store => IInv'
<1> SUFFICES ASSUME IInv, Store PROVE IInv'
  OBVIOUS
<1>1. rx.phase = "store" /\ recFsm' = rx.next /\ rx' = Idle
      /\ UNCHANGED <<sendVars, answer, overrun, verdict, seen, expected>>
  BY DEF Store
<1>2. TypeOK' /\ rx'.phase = "idle"
  BY <1>1, ByteRange DEF IInv, TypeOK, sendVars, Idle, FsmStates
<1>3. ~overrun => Tracking'
  BY <1>1, <1>2 DEF IInv, Tracking, Tracks, SumOfAnswer, sendVars
<1>4. QED
  BY <1>1, <1>2, <1>3 DEF IInv, AcceptsExpected, RefusesOthers

-----------------------------------------------------------------------------
(* handleConf and handleData, one lemma for each action.                   *)

LEMMA HandleConfByteInv ==
    ASSUME IInv, TypeOK', ~overrun, ~overrun', HandleConfByte
    PROVE  IInv'
<1>1. /\ rx.phase = "conf" /\ UNCHANGED <<sendVars, recFsm, expected>>
      /\ verdict' = "none" /\ seen' = <<>> /\ Stay
  BY DEF HandleConfByte, Handling, Give, StoreOutside
<1>2. seen' \in Seq(Byte) /\ Len(seen') = 0 /\ ~IsAnswer(seen, expected)'
  BY <1>1 DEF IsAnswer
<1>3. rx'.phase = "idle" /\ (sfxStatus' \in DataStatuses => recFsm' = "headerRec")
  BY <1>1 DEF IInv, Tracking, Stay, Idle, sendVars
<1>4. Tracking'
  BY <1>3 DEF Tracking, Tracks
<1>5. QED
  BY <1>1, <1>2, <1>4 DEF IInv, AcceptsExpected, RefusesOthers

LEMMA HandleConfEndInv ==
    ASSUME IInv, TypeOK', ~overrun, ~overrun', HandleConfEnd
    PROVE  IInv'
<1>1. /\ rx.phase = "conf" /\ UNCHANGED <<sendVars, recFsm, expected>>
      /\ verdict' = "confirmed" /\ seen' = <<>> /\ Stay
  BY DEF HandleConfEnd, Handling, Give
<1>2. seen' \in Seq(Byte) /\ Len(seen') = 0 /\ ~IsAnswer(seen, expected)'
  BY <1>1 DEF IsAnswer
<1>3. rx'.phase = "idle" /\ (sfxStatus' \in DataStatuses => recFsm' = "headerRec")
  BY <1>1 DEF IInv, Tracking, Stay, Idle, sendVars
<1>4. Tracking'
  BY <1>3 DEF Tracking, Tracks
<1>5. QED
  BY <1>1, <1>2, <1>4 DEF IInv, AcceptsExpected, RefusesOthers

\* What all actions of handleData find.
LEMMA HandlingFacts ==
    ASSUME IInv, ~overrun, NEW state \in FsmStates, HandlingData(state)
    PROVE  /\ rx.phase = "data" /\ recFsm = state
           /\ UNCHANGED sendVars /\ TypeOK /\ Tracks(state)
           /\ rx.byte \in Byte /\ AnswerOK(answer) /\ seen \in Seq(Byte)
<1>1. rx.phase = "data" /\ recFsm = state /\ UNCHANGED sendVars
  BY DEF HandlingData, Handling
<1>2. TypeOK /\ Tracks(state)
  BY <1>1 DEF IInv, Tracking
<1>3. QED
  BY <1>1, <1>2, TypeOfAnswer DEF TypeOK

\* When the parser goes on, the invariant is about the state it goes on in.
LEMMA ContinueInv ==
    ASSUME NEW state, TypeOK', Tracks(state)', Continue(state),
           verdict' = "ok" <=> IsAnswer(seen, expected)', RefusesOthers'
    PROVE  IInv'
<1>1. rx'.phase = "store" /\ rx'.next = state
  BY DEF Continue
<1>2. Tracks(rx.next)'
  BY <1>1 DEF Tracks
<1>3. QED
  BY <1>1, <1>2 DEF IInv, Tracking, AcceptsExpected

LEMMA StayInv ==
    ASSUME TypeOK', Tracks(recFsm)', Stay, verdict' = "none", ~IsAnswer(seen, expected)'
    PROVE  IInv'
BY DEF IInv, Tracking, AcceptsExpected, RefusesOthers, Stay, Idle

LEMMA HandleHeaderInv ==
    ASSUME IInv, TypeOK', HandleHeader
    PROVE  IInv'
<1>1. /\ HandlingData("headerRec") /\ "headerRec" \in FsmStates
      /\ UNCHANGED recFsm /\ verdict' = "none"
  BY DEF HandleHeader, Give, FsmStates
<1>2. TypeOK /\ recFsm' = "headerRec"
  BY <1>1 DEF IInv, HandlingData
<1>3. /\ seen' \in Seq(Byte) /\ Len(seen') = 1 /\ seen'[1] = rx.byte
  BY <1>1, <1>2, SeenType
<1>4. ~IsAnswer(seen, expected)'
  BY <1>3 DEF IsAnswer
<1>5. CASE rx.byte = SFX_MSG_HEADER
  <2>1. Continue("lenRec")
    BY <1>5 DEF HandleHeader
  <2>2. Tracks("lenRec")'
    BY <1>3, <1>5 DEF Tracks
  <2>3. QED
    BY <1>1, <1>4, <2>1, <2>2, ContinueInv DEF RefusesOthers
<1>6. CASE rx.byte # SFX_MSG_HEADER
  <2>1. Stay
    BY <1>6 DEF HandleHeader
  <2>2. Tracks(recFsm)'
    BY <1>2 DEF Tracks
  <2>3. QED
    BY <1>1, <1>4, <2>1, <2>2, StayInv
<1>7. QED
  BY <1>5, <1>6

\* A byte after the header: what was seen stays, and the byte comes behind it.
LEMMA OneMoreSeen ==
    ASSUME IInv, ~overrun, NEW state \in FsmStates \ {"headerRec", "nullState"},
           HandlingData(state)
    PROVE  /\ seen' \in Seq(Byte) /\ expected' \subseteq Sequences \cup {0}
           /\ Len(seen) \in Nat /\ Len(seen') = Len(seen) + 1
           /\ seen'[Len(seen) + 1] = rx.byte
           /\ \A i \in 1 .. Len(seen) : seen'[i] = seen[i]
           /\ state # "sequenceRec" => expected' = expected
<1>1. TypeOK /\ rx.byte \in Byte /\ seen \in Seq(Byte)
  BY HandlingFacts
<1>2. /\ seen' \in Seq(Byte) /\ expected' \subseteq Sequences \cup {0}
      /\ seen' = Append(seen, rx.byte)
      /\ state # "sequenceRec" => expected' = expected
  BY <1>1, SeenType
<1>3. QED
  BY <1>1, <1>2, Appended

LEMMA HandleLengthInv ==
    ASSUME IInv, TypeOK', ~overrun, ~overrun', HandleLength
    PROVE  IInv'
<1>1. /\ HandlingData("lenRec") /\ "lenRec" \in FsmStates \ {"headerRec", "nullState"}
      /\ "typeRec" \in FsmStates /\ overrun' = overrun /\ verdict' = "none"
      /\ Continue("typeRec") /\ answer' = [answer EXCEPT !.length = rx.byte]
      /\ UNCHANGED recFsm
  BY DEF HandleLength, Give, FsmStates
<1>2. /\ TypeOK /\ UNCHANGED <<sendVars, recFsm>> /\ AnswerOK(answer) /\ rx.byte \in Byte
      /\ Len(seen) = 1 /\ seen[1] = SFX_MSG_HEADER
  BY <1>1, HandlingFacts DEF Tracks
<1>3. /\ seen' \in Seq(Byte) /\ expected' \subseteq Sequences \cup {0}
      /\ Len(seen') = 2 /\ seen'[1] = SFX_MSG_HEADER /\ seen'[2] = rx.byte
  BY <1>1, <1>2, OneMoreSeen
<1>4. AnswerOK(answer') /\ answer'.length = rx.byte
  BY <1>1, <1>2 DEF AnswerOK
<1>6. Tracks("typeRec")'
  BY <1>3, <1>4 DEF Tracks
<1>7. rx.byte \in Nat
  BY <1>2, ByteRange
<1>8. ~IsAnswer(seen, expected)'
  BY <1>3, <1>7 DEF IsAnswer
<1>9. QED
  BY <1>1, <1>6, <1>8, ContinueInv DEF RefusesOthers

LEMMA HandleTypeInv ==
    ASSUME IInv, TypeOK', ~overrun, ~overrun', HandleType
    PROVE  IInv'
<1>1. /\ HandlingData("typeRec") /\ "typeRec" \in FsmStates \ {"headerRec", "nullState"}
      /\ "sequenceRec" \in FsmStates /\ overrun' = overrun /\ verdict' = "none"
      /\ Continue("sequenceRec") /\ answer' = [answer EXCEPT !.type = rx.byte]
      /\ UNCHANGED recFsm
  BY DEF HandleType, Give, FsmStates
<1>2. /\ TypeOK /\ UNCHANGED <<sendVars, recFsm>> /\ AnswerOK(answer) /\ rx.byte \in Byte
      /\ Len(seen) = 2 /\ seen[1] = SFX_MSG_HEADER /\ seen[2] = answer.length
  BY <1>1, HandlingFacts DEF Tracks
<1>3. /\ seen' \in Seq(Byte) /\ expected' \subseteq Sequences \cup {0}
      /\ Len(seen') = 3 /\ seen'[1] = SFX_MSG_HEADER /\ seen'[2] = answer.length
      /\ seen'[3] = rx.byte
  BY <1>1, <1>2, OneMoreSeen
<1>4. AnswerOK(answer') /\ answer'.type = rx.byte /\ answer'.length = answer.length
  BY <1>1, <1>2 DEF AnswerOK
<1>6. Tracks("sequenceRec")'
  BY <1>3, <1>4 DEF Tracks
<1>7. answer.length \in Nat
  BY <1>2, ByteRange DEF AnswerOK
<1>8. ~IsAnswer(seen, expected)'
  BY <1>3, <1>7 DEF IsAnswer
<1>9. QED
  BY <1>1, <1>6, <1>8, ContinueInv DEF RefusesOthers

LEMMA HandleSequenceInv ==
    ASSUME IInv, TypeOK', ~overrun, ~overrun', HandleSequence
    PROVE  IInv'
<1>1. /\ HandlingData("sequenceRec")
      /\ "sequenceRec" \in FsmStates \ {"headerRec", "nullState"}
      /\ "payloadRec" \in FsmStates /\ "nullState" \in FsmStates /\ overrun' = overrun
      /\ UNCHANGED recFsm
  BY DEF HandleSequence, FsmStates
<1>2. /\ TypeOK /\ UNCHANGED <<sendVars, recFsm>> /\ AnswerOK(answer) /\ rx.byte \in Byte
      /\ Len(seen) = 3 /\ seen[1] = SFX_MSG_HEADER /\ seen[2] = answer.length
      /\ seen[3] = answer.type
  BY <1>1, HandlingFacts DEF Tracks
<1>3. /\ seen' \in Seq(Byte) /\ expected' \subseteq Sequences \cup {0}
      /\ Len(seen') = 4 /\ seen'[1] = SFX_MSG_HEADER /\ seen'[2] = answer.length
      /\ seen'[3] = answer.type /\ seen'[4] = rx.byte
  BY <1>1, <1>2, OneMoreSeen
<1>4. expected' = {sfxMessageIdx.data, sfxMessageIdx.keep}
  BY <1>1 DEF HandlingData
<1>5. answer.length \in Nat
  BY <1>2, ByteRange DEF AnswerOK
<1>6. ~IsAnswer(seen, expected)'
  BY <1>3, <1>5 DEF IsAnswer
<1>7. CASE rx.byte \in {sfxMessageIdx.data, sfxMessageIdx.keep}
  <2>1. /\ answer' = [answer EXCEPT !.seq = rx.byte, !.payload = <<>>]
        /\ Continue("payloadRec") /\ verdict' = "none"
    BY <1>7 DEF HandleSequence, Give
  <2>2. <<>> \in Seq(Byte) /\ Len(<<>>) = 0 /\ 0 \in 0 .. AnswerLen
    BY PayloadLenAssumption DEF AnswerLen
  <2>3. /\ AnswerOK(answer') /\ answer'.seq = rx.byte /\ answer'.payload = <<>>
        /\ answer'.length = answer.length /\ answer'.type = answer.type
    BY <1>2, <2>1, <2>2 DEF AnswerOK
  <2>4. Len(answer'.payload) = 0
    BY <2>2, <2>3
  <2>6. Tracks("payloadRec")'
    BY <1>3, <1>4, <1>5, <1>7, <2>1, <2>3, <2>4 DEF Tracks
  <2>7. QED
    BY <1>6, <2>1, <2>6, ContinueInv DEF RefusesOthers
<1>8. CASE rx.byte \notin {sfxMessageIdx.data, sfxMessageIdx.keep}
  <2>1. Continue("nullState") /\ verdict' = "error" /\ answer' = answer
    BY <1>8 DEF HandleSequence, Give
  <2>3. Tracks("nullState")'
    BY DEF Tracks
  <2>4. ~MayBecomeAnswer(seen, expected)'
    BY <1>3, <1>4, <1>8 DEF MayBecomeAnswer
  <2>5. QED
    BY <1>6, <2>1, <2>3, <2>4, ContinueInv DEF RefusesOthers
<1>9. QED
  BY <1>7, <1>8

LEMMA HandleNullInv ==
    ASSUME IInv, TypeOK', ~overrun, ~overrun', HandleNull
    PROVE  IInv'
<1>1. /\ HandlingData("nullState") /\ "nullState" \in FsmStates
      /\ UNCHANGED <<overrun, answer>> /\ verdict' = "none" /\ Stay
      /\ UNCHANGED recFsm
  BY DEF HandleNull, Give, FsmStates
<1>2. TypeOK /\ UNCHANGED <<sendVars, recFsm>> /\ recFsm' = "nullState" /\ AnswerOK(answer)
  BY <1>1, HandlingFacts
<1>3. seen' \in Seq(Byte) /\ expected' \subseteq Sequences \cup {0} /\ Len(seen') = 0
  BY <1>1, <1>2, SeenType
<1>5. Tracks(recFsm)'
  BY <1>2 DEF Tracks
<1>6. ~IsAnswer(seen, expected)'
  BY <1>3 DEF IsAnswer
<1>7. QED
  BY <1>1, <1>5, <1>6, StayInv

LEMMA HandlePayloadInv ==
    ASSUME IInv, TypeOK', ~overrun, ~overrun', HandlePayload
    PROVE  IInv'
<1>1. /\ HandlingData("payloadRec")
      /\ "payloadRec" \in FsmStates \ {"headerRec", "nullState"}
      /\ "crcRec" \in FsmStates /\ "nullState" \in FsmStates
      /\ UNCHANGED recFsm
  BY DEF HandlePayload, FsmStates
<1>2. /\ TypeOK /\ UNCHANGED <<sendVars, recFsm>> /\ recFsm = "payloadRec" /\ AnswerOK(answer)
      /\ rx.byte \in Byte /\ rx.phase = "data" /\ ~overrun
      /\ Len(seen) = 4 + Len(answer.payload) /\ verdict = "none"
      /\ answer.length = 0 \/ Len(answer.payload) < answer.length
      /\ seen[1] = SFX_MSG_HEADER /\ seen[2] = answer.length /\ seen[3] = answer.type
      /\ seen[4] = answer.seq /\ answer.seq \in expected
      /\ \A i \in 1 .. Len(answer.payload) : seen[4 + i] = answer.payload[i]
  BY <1>1, HandlingFacts DEF Tracks
<1>3. /\ seen' \in Seq(Byte) /\ expected' = expected /\ expected' \subseteq Sequences \cup {0}
      /\ Len(seen) \in Nat /\ Len(seen') = Len(seen) + 1 /\ seen'[Len(seen) + 1] = rx.byte
      /\ \A i \in 1 .. Len(seen) : seen'[i] = seen[i]
  BY <1>1, OneMoreSeen
<1>4. answer.payload \in Seq(Byte) /\ Len(answer.payload) \in 0 .. AnswerLen
      /\ Len(answer.payload) \in Nat
  BY <1>2, PayloadLenAssumption DEF AnswerOK
<1>5. Len(answer.payload) < PayloadLen
  BY <1>4, PayloadLenAssumption DEF HandlePayload
<1>6. QED
  <2> DEFINE p == Append(answer.payload, rx.byte)
  <2>1. /\ p \in Seq(Byte) /\ Len(p) = Len(answer.payload) + 1
        /\ p[Len(answer.payload) + 1] = rx.byte
        /\ \A i \in 1 .. Len(answer.payload) : p[i] = answer.payload[i]
    BY <1>2, <1>4, Appended
  <2>2. IF Len(p) = answer.length
        THEN PayloadEnd(p[1], p)
        ELSE /\ answer' = [answer EXCEPT !.payload = p] /\ Stay /\ verdict' = "none"
    BY <1>5 DEF HandlePayload, Give
  <2> HIDE DEF p
  <2>3. Len(p) \in 0 .. AnswerLen /\ Len(p) \in Nat /\ Len(p) >= 1
    <3> SUFFICES ASSUME NEW l, l = Len(answer.payload), Len(p) = l + 1
                 PROVE  l + 1 \in 0 .. AnswerLen /\ l + 1 \in Nat /\ l + 1 >= 1
      BY <2>1
    <3>1. l \in Nat /\ l \in 0 .. AnswerLen /\ l < PayloadLen
      BY <1>4, <1>5
    <3>2. QED
      BY <3>1, PayloadLenAssumption DEF AnswerLen
  <2>4. answer.length \in Nat
    BY <1>2, ByteRange DEF AnswerOK
  <2>5. /\ Len(seen') = 4 + Len(p)
        /\ seen'[1] = SFX_MSG_HEADER /\ seen'[2] = answer.length /\ seen'[3] = answer.type
        /\ seen'[4] = answer.seq
    <3>1. Len(seen') = 4 + Len(p)
      BY <1>2, <1>3, <1>4, <2>1
    <3>2. 1 \in 1 .. Len(seen) /\ 2 \in 1 .. Len(seen) /\ 3 \in 1 .. Len(seen)
          /\ 4 \in 1 .. Len(seen)
      BY <1>2, <1>3, <1>4
    <3>3. QED
      BY <1>2, <1>3, <3>1, <3>2
  <2>6. \A i \in 1 .. Len(p) : seen'[4 + i] = p[i]
    <3> SUFFICES ASSUME NEW i \in 1 .. Len(p) PROVE seen'[4 + i] = p[i]
      OBVIOUS
    <3>1. CASE i = Len(p)
      BY <1>2, <1>3, <1>4, <2>1, <3>1
    <3>2. CASE i # Len(p)
      <4>1. i \in 1 .. Len(answer.payload) /\ 4 + i \in 1 .. Len(seen)
        BY <1>2, <1>4, <2>1, <3>2
      <4>2. QED
        BY <1>2, <1>3, <2>1, <4>1
    <3>3. QED
      BY <3>1, <3>2
  <2>7. answer.length = 0 \/ Len(p) <= answer.length
    BY <1>2, <1>4, <2>1, <2>4
  <2>8. ~IsAnswer(seen, expected)'
    BY <2>3, <2>4, <2>5, <2>7 DEF IsAnswer
  <2>9. CASE Len(p) # answer.length
    <3>1. answer' = [answer EXCEPT !.payload = p] /\ Stay /\ verdict' = "none"
      BY <2>2, <2>9
    <3>2. /\ AnswerOK(answer') /\ answer'.payload = p /\ answer'.length = answer.length
          /\ answer'.type = answer.type /\ answer'.seq = answer.seq
      BY <1>2, <2>1, <2>3, <3>1 DEF AnswerOK
    <3>4. Len(p) < answer.length \/ answer.length = 0
      BY <2>3, <2>4, <2>7, <2>9
    <3>5. Tracks("payloadRec")'
      BY <1>2, <1>3, <2>5, <2>6, <3>1, <3>2, <3>4 DEF Tracks
    <3>6. Tracks(recFsm)'
      BY <1>2, <3>5 DEF Tracks, SumOfAnswer
    <3>7. QED
      BY <2>8, <3>1, <3>6, StayInv
  <2>10. CASE Len(p) = answer.length /\ Confirms(answer.type) /\ p[1] # 0
    <3>1. Continue("nullState") /\ answer' = [answer EXCEPT !.payload = p] /\ verdict' = "error"
      BY <2>2, <2>10 DEF PayloadEnd, Give
    <3>2. AnswerOK(answer')
      BY <1>2, <2>1, <2>3, <3>1 DEF AnswerOK
    <3>4. Tracks("nullState")'
      BY DEF Tracks
    <3>5. Len(seen') >= 5 /\ seen'[5] = p[1]
      BY <2>3, <2>5, <2>6
    <3>6. ~MayBecomeAnswer(seen, expected)'
      BY <2>5, <2>10, <3>5 DEF MayBecomeAnswer
    <3>7. QED
      BY <2>8, <3>1, <3>4, <3>6, ContinueInv DEF RefusesOthers
  <2>11. CASE Len(p) = answer.length /\ (Confirms(answer.type) => p[1] = 0)
    <3>1. /\ Continue("crcRec") /\ answer' = [answer EXCEPT !.payload = p, !.crc = <<>>]
          /\ verdict' = "none"
      BY <2>2, <2>11 DEF PayloadEnd, Give
    <3>2. <<>> \in Seq(Byte) /\ Len(<<>>) = 0 /\ 0 \in 0 .. 2
      OBVIOUS
    <3>3. /\ AnswerOK(answer') /\ answer'.payload = p /\ answer'.length = answer.length
          /\ answer'.type = answer.type /\ answer'.seq = answer.seq /\ answer'.crc = <<>>
      BY <1>2, <2>1, <2>3, <3>1, <3>2 DEF AnswerOK
    <3>5. Len(answer'.crc) = 0
      BY <3>2, <3>3
    <3>6. Tracks("crcRec")'
      BY <1>2, <1>3, <2>3, <2>4, <2>5, <2>6, <2>11, <3>1, <3>3, <3>5, SMTT(40) DEF Tracks
    <3>7. QED
      BY <2>8, <3>1, <3>6, ContinueInv DEF RefusesOthers
  <2>12. QED
    BY <2>9, <2>10, <2>11

\* The payload is found in the history where the reference looks for it.
LEMMA PayloadOfSeen ==
    ASSUME NEW s \in Seq(Byte), NEW p \in Seq(Byte), 4 + Len(p) <= Len(s),
           \A i \in 1 .. Len(p) : s[4 + i] = p[i]
    PROVE  SubSeq(s, 5, 4 + Len(p)) = p
<1> DEFINE q == SubSeq(s, 5, 4 + Len(p))
<1>1. Len(p) \in Nat /\ Len(s) \in Nat
  OBVIOUS
<1>2. q \in Seq(Byte) /\ Len(q) = Len(p) /\ \A i \in 1 .. Len(p) : q[i] = s[4 + i]
  BY <1>1
<1> HIDE DEF q
<1>3. q = p
  BY <1>2, SeqEqual
<1>4. QED
  BY <1>3 DEF q

LEMMA HandleCrcInv ==
    ASSUME IInv, TypeOK', ~overrun, ~overrun', HandleCrc
    PROVE  IInv'
<1> DEFINE n == answer.length
           crc == Append(answer.crc, rx.byte)
<1>1. /\ HandlingData("crcRec") /\ "crcRec" \in FsmStates \ {"headerRec", "nullState"}
      /\ "tailerRec" \in FsmStates /\ "nullState" \in FsmStates
      /\ overrun' = overrun /\ answer' = [answer EXCEPT !.crc = crc]
      /\ IF Len(crc) < 2 THEN Stay /\ verdict' = "none"
         ELSE IF crc[1] + 256 * crc[2] = SumOfAnswer
              THEN Continue("tailerRec") /\ verdict' = "none"
              ELSE Continue("nullState") /\ verdict' = "error"
      /\ UNCHANGED recFsm
  BY DEF HandleCrc, Give, FsmStates, SumOfAnswer
<1>2. /\ TypeOK /\ UNCHANGED <<sendVars, recFsm>> /\ recFsm = "crcRec" /\ AnswerOK(answer)
      /\ rx.byte \in Byte /\ Len(answer.crc) < 2
      /\ n > 0 /\ Len(answer.payload) = n /\ Len(seen) = 4 + n + Len(answer.crc)
      /\ Confirms(answer.type) => answer.payload[1] = 0
      /\ \A i \in 1 .. Len(answer.crc) : seen[4 + n + i] = answer.crc[i]
      /\ seen[1] = SFX_MSG_HEADER /\ seen[2] = n /\ seen[3] = answer.type
      /\ seen[4] = answer.seq /\ answer.seq \in expected
      /\ \A i \in 1 .. Len(answer.payload) : seen[4 + i] = answer.payload[i]
  BY <1>1, HandlingFacts, SMTT(40) DEF Tracks
<1>3. /\ seen' \in Seq(Byte) /\ expected' = expected /\ expected' \subseteq Sequences \cup {0}
      /\ Len(seen) \in Nat /\ Len(seen') = Len(seen) + 1 /\ seen'[Len(seen) + 1] = rx.byte
      /\ \A i \in 1 .. Len(seen) : seen'[i] = seen[i]
  BY <1>1, OneMoreSeen
<1>4. /\ answer.crc \in Seq(Byte) /\ Len(answer.crc) \in Nat
      /\ answer.payload \in Seq(Byte) /\ n \in Byte
  BY <1>2 DEF AnswerOK
<1>5. n \in Nat
  BY <1>4, ByteRange
<1>6. /\ crc \in Seq(Byte) /\ Len(crc) = Len(answer.crc) + 1
      /\ crc[Len(answer.crc) + 1] = rx.byte
      /\ \A i \in 1 .. Len(answer.crc) : crc[i] = answer.crc[i]
  BY <1>2, <1>4, Appended
<1>7. SumOfAnswer \in Nat /\ SumOfAnswer <= 65535
  BY <1>2, CrcIsWord DEF AnswerOK, SumOfAnswer
<1> HIDE DEF crc
<1>8. /\ AnswerOK(answer') /\ answer'.crc = crc /\ answer'.length = n
      /\ answer'.type = answer.type /\ answer'.seq = answer.seq
      /\ answer'.payload = answer.payload
  <2>1. Len(crc) \in 0 .. 2
    BY <1>2, <1>4, <1>6
  <2>2. QED
    BY <1>1, <1>2, <1>6, <2>1, ZenonT(60) DEF AnswerOK
<1>9. SumOfAnswer' = SumOfAnswer
  BY <1>8 DEF SumOfAnswer
<1>10. /\ Len(seen') = 4 + n + Len(crc)
       /\ seen'[1] = SFX_MSG_HEADER /\ seen'[2] = n /\ seen'[3] = answer.type
       /\ seen'[4] = answer.seq
  <2>1. Len(seen') = 4 + n + Len(crc)
    <3>1. /\ Len(seen') = Len(seen) + 1 /\ Len(seen) = 4 + n + Len(answer.crc)
          /\ Len(crc) = Len(answer.crc) + 1
      BY <1>2, <1>3, <1>6
    <3>2. QED
      BY <1>4, <1>5, <3>1, SMTT(40)
  <2>2. 1 \in 1 .. Len(seen) /\ 2 \in 1 .. Len(seen) /\ 3 \in 1 .. Len(seen)
        /\ 4 \in 1 .. Len(seen)
    BY <1>2, <1>3, <1>4, <1>5, SMTT(40)
  <2>3. QED
    BY <1>2, <1>3, <2>1, <2>2
<1>11. \A i \in 1 .. n : seen'[4 + i] = answer.payload[i]
  <2> SUFFICES ASSUME NEW i \in 1 .. n PROVE seen'[4 + i] = answer.payload[i]
    OBVIOUS
  <2>1. 4 + i \in 1 .. Len(seen)
    BY <1>2, <1>4, <1>5
  <2>2. QED
    BY <1>2, <1>3, <2>1
<1>12. \A i \in 1 .. Len(crc) : seen'[4 + n + i] = crc[i]
  <2> SUFFICES ASSUME NEW i \in 1 .. Len(crc) PROVE seen'[4 + n + i] = crc[i]
    OBVIOUS
  <2>1. CASE i = Len(crc)
    <3>1. 4 + n + i = Len(seen) + 1 /\ i = Len(answer.crc) + 1
      <4>1. i = Len(answer.crc) + 1 /\ Len(seen) = 4 + n + Len(answer.crc)
        BY <1>2, <1>6, <2>1
      <4>2. PICK k \in Nat, m \in Nat : k = Len(answer.crc) /\ m = n
        BY <1>4, <1>5
      <4>3. i = k + 1 /\ Len(seen) = 4 + m + k
        BY <4>1, <4>2
      <4>4. 4 + m + i = Len(seen) + 1
        BY <4>3
      <4>5. QED
        BY <4>1, <4>2, <4>4
    <3>2. QED
      BY <1>3, <1>6, <3>1
  <2>2. CASE i # Len(crc)
    <3>1. i \in 1 .. Len(answer.crc) /\ 4 + n + i \in 1 .. Len(seen)
      BY <1>2, <1>4, <1>5, <1>6, <2>2, SMTT(40)
    <3>2. QED
      BY <1>2, <1>3, <1>6, <3>1
  <2>3. QED
    BY <2>1, <2>2
<1>13. ~IsAnswer(seen, expected)'
  BY <1>2, <1>4, <1>5, <1>6, <1>10, SMTT(40) DEF IsAnswer
<1>14. CASE Len(crc) < 2
  <2>1. Stay /\ verdict' = "none"
    BY <1>1, <1>14
  <2>3. Tracks("crcRec")'
    BY <1>2, <1>3, <1>8, <1>10, <1>11, <1>12, <1>14 DEF Tracks
  <2>4. Tracks(recFsm)'
    BY <1>2, <2>3 DEF Tracks, SumOfAnswer
  <2>5. QED
    BY <1>13, <2>1, <2>4, StayInv
<1>15. CASE ~(Len(crc) < 2)
  <2>1. Len(crc) = 2 /\ 1 \in 1 .. Len(crc) /\ 2 \in 1 .. Len(crc)
    BY <1>2, <1>4, <1>6, <1>15
  <2>2. crc[1] \in Byte /\ crc[2] \in Byte
    BY <1>6, <2>1, ByteOfPayload
  <2>3. crc[1] + 256 * crc[2] = SumOfAnswer
            <=> crc[1] = SumOfAnswer % 256 /\ crc[2] = SumOfAnswer \div 256
    BY <1>7, <2>2, WordOfBytes
  <2>4. CASE crc[1] + 256 * crc[2] = SumOfAnswer
    <3>1. Continue("tailerRec") /\ verdict' = "none"
      BY <1>1, <1>15, <2>4
    <3>3. Tracks("tailerRec")'
      BY <1>2, <1>3, <1>8, <1>9, <1>10, <1>11, <1>12, <2>1, <2>3, <2>4 DEF Tracks
    <3>4. QED
      BY <1>13, <3>1, <3>3, ContinueInv DEF RefusesOthers
  <2>5. CASE crc[1] + 256 * crc[2] # SumOfAnswer
    <3>1. Continue("nullState") /\ verdict' = "error"
      BY <1>1, <1>15, <2>5
    <3>3. Tracks("nullState")'
      BY DEF Tracks
    <3>4. SubSeq(seen', 5, 4 + n) = answer.payload
      <4>1. Len(answer.payload) = n /\ 4 + Len(answer.payload) <= Len(seen')
        BY <1>2, <1>5, <1>10, <2>1
      <4>2. QED
        BY <1>3, <1>4, <1>11, <4>1, PayloadOfSeen
    <3>5. calculateCRC(n, seen'[3], seen'[4], SubSeq(seen', 5, 4 + n)) = SumOfAnswer
      BY <1>10, <3>4 DEF SumOfAnswer
    <3>6. Len(seen') >= 2 /\ Len(seen') >= 5 + n /\ Len(seen') >= 6 + n
          /\ 4 + n + 1 = 5 + n /\ 4 + n + 2 = 6 + n
      BY <1>5, <1>10, <2>1
    <3>7. seen'[5 + n] = crc[1] /\ seen'[6 + n] = crc[2]
      BY <1>12, <2>1, <3>6
    <3>8. ~MayBecomeAnswer(seen, expected)'
      BY <1>10, <2>3, <2>5, <3>5, <3>6, <3>7 DEF MayBecomeAnswer
    <3>9. QED
      BY <1>13, <3>1, <3>3, <3>8, ContinueInv DEF RefusesOthers
  <2>6. QED
    BY <2>4, <2>5
<1>16. QED
  BY <1>14, <1>15

LEMMA HandleTailerInv ==
    ASSUME IInv, TypeOK', ~overrun, ~overrun', HandleTailer
    PROVE  IInv'
<1> DEFINE n == answer.length
<1>1. /\ HandlingData("tailerRec") /\ "tailerRec" \in FsmStates \ {"headerRec", "nullState"}
      /\ "headerRec" \in FsmStates /\ overrun' = overrun /\ Continue("headerRec")
      /\ verdict' = (IF rx.byte = SFX_MSG_TAILER THEN "ok" ELSE "none")
      /\ answer' = [answer EXCEPT !.payload = <<>>]
      /\ UNCHANGED recFsm
  BY DEF HandleTailer, Give, FsmStates
<1>2. /\ TypeOK /\ UNCHANGED <<sendVars, recFsm>> /\ AnswerOK(answer) /\ rx.byte \in Byte
      /\ n > 0 /\ Len(answer.payload) = n /\ Len(answer.crc) = 2
      /\ Len(seen) = 4 + n + Len(answer.crc)
      /\ Confirms(answer.type) => answer.payload[1] = 0
      /\ \A i \in 1 .. Len(answer.crc) : seen[4 + n + i] = answer.crc[i]
      /\ answer.crc[1] = SumOfAnswer % 256 /\ answer.crc[2] = SumOfAnswer \div 256
      /\ seen[1] = SFX_MSG_HEADER /\ seen[2] = n /\ seen[3] = answer.type
      /\ seen[4] = answer.seq /\ answer.seq \in expected
      /\ \A i \in 1 .. Len(answer.payload) : seen[4 + i] = answer.payload[i]
  BY <1>1, HandlingFacts, ZenonT(60) DEF Tracks
<1>3. /\ seen' \in Seq(Byte) /\ expected' = expected /\ expected' \subseteq Sequences \cup {0}
      /\ Len(seen) \in Nat /\ Len(seen') = Len(seen) + 1 /\ seen'[Len(seen) + 1] = rx.byte
      /\ \A i \in 1 .. Len(seen) : seen'[i] = seen[i]
  BY <1>1, OneMoreSeen
<1>4. answer.payload \in Seq(Byte) /\ n \in Byte
  BY <1>2 DEF AnswerOK
<1>5. n \in Nat
  BY <1>4, ByteRange
<1>6. AnswerOK(answer')
  <2>1. <<>> \in Seq(Byte) /\ Len(<<>>) = 0 /\ 0 \in 0 .. AnswerLen
    BY PayloadLenAssumption DEF AnswerLen
  <2>2. QED
    BY <1>1, <1>2, <2>1 DEF AnswerOK
<1>8. Tracks("headerRec")'
  BY DEF Tracks
<1>9. /\ Len(seen) = 6 + n /\ Len(seen') = 7 + n /\ seen'[7 + n] = rx.byte
  <2>1. Len(seen) = 4 + n + 2
    BY <1>2
  <2>2. Len(seen) = 6 + n /\ 6 + n + 1 = 7 + n
    BY <1>5, <2>1
  <2>3. QED
    BY <1>3, <2>2
<1>10. /\ seen'[1] = SFX_MSG_HEADER /\ seen'[2] = n /\ seen'[3] = answer.type
       /\ seen'[4] = answer.seq
  <2>1. 1 \in 1 .. Len(seen) /\ 2 \in 1 .. Len(seen) /\ 3 \in 1 .. Len(seen)
        /\ 4 \in 1 .. Len(seen)
    BY <1>5, <1>9
  <2>2. QED
    BY <1>2, <1>3, <2>1, SMTT(40)
<1>11. \A i \in 1 .. n : seen'[4 + i] = answer.payload[i]
  <2> SUFFICES ASSUME NEW i \in 1 .. n PROVE seen'[4 + i] = answer.payload[i]
    OBVIOUS
  <2>1. 4 + i \in 1 .. Len(seen)
    BY <1>5, <1>9
  <2>2. QED
    BY <1>2, <1>3, <2>1
<1>12. seen'[5 + n] = SumOfAnswer % 256 /\ seen'[6 + n] = SumOfAnswer \div 256
  <2>1. 5 + n \in 1 .. Len(seen) /\ 6 + n \in 1 .. Len(seen)
        /\ 4 + n + 1 = 5 + n /\ 4 + n + 2 = 6 + n
    BY <1>5, <1>9
  <2>2. 1 \in 1 .. Len(answer.crc) /\ 2 \in 1 .. Len(answer.crc)
    BY <1>2
  <2>3. seen[4 + n + 1] = answer.crc[1] /\ seen[4 + n + 2] = answer.crc[2]
    BY <1>2, <2>2
  <2>4. seen[5 + n] = answer.crc[1] /\ seen[6 + n] = answer.crc[2]
    BY <2>1, <2>3
  <2>5. QED
    BY <1>2, <1>3, <2>1, <2>4, ZenonT(60)
<1>13. SubSeq(seen', 5, 4 + n) = answer.payload
  <2>1. 4 + Len(answer.payload) <= Len(seen')
    BY <1>2, <1>5, <1>9
  <2>2. QED
    BY <1>2, <1>3, <1>4, <1>11, <2>1, PayloadOfSeen, SMTT(40)
<1>14. calculateCRC(n, seen'[3], seen'[4], SubSeq(seen', 5, 4 + n)) = SumOfAnswer
  BY <1>10, <1>13 DEF SumOfAnswer
<1>15. Confirms(seen'[3]) => seen'[5] = 0
  <2>1. 1 \in 1 .. n
    BY <1>2, <1>5
  <2>2. seen'[4 + 1] = answer.payload[1]
    BY <1>11, <2>1
  <2>3. QED
    BY <1>2, <1>10, <2>2, SMTT(40)
<1>16. Len(seen') >= 2 /\ seen'[2] > 0 /\ Len(seen') >= 7 + n
  <2>1. n > 0 /\ Len(seen') = 7 + n /\ seen'[2] = n
    BY <1>2, <1>9, <1>10
  <2>2. 7 + n >= 2 /\ 7 + n >= 7 + n
    BY <1>5
  <2>3. QED
    BY <2>1, <2>2
<1>17. MayBecomeAnswer(seen, expected)' <=> rx.byte = SFX_MSG_TAILER
  BY <1>2, <1>3, <1>9, <1>10, <1>12, <1>14, <1>15, <1>16, ZenonT(120) DEF MayBecomeAnswer
<1>18. verdict' = "ok" <=> IsAnswer(seen, expected)'
  BY <1>1, <1>9, <1>10, <1>16, <1>17 DEF IsAnswer
<1>19. QED
  BY <1>1, <1>8, <1>18, ContinueInv DEF RefusesOthers

LEMMA StepInv == IInv /\ [Next]_vars => IInv'
<1> SUFFICES ASSUME IInv, [Next]_vars PROVE IInv'
  OBVIOUS
<1>1. CASE \E status \in Statuses : Send(status)
  BY <1>1, SendInv
<1>2. CASE ReceiveByte
  BY <1>2, ReceiveByteInv
<1>3. CASE SelectParser
  BY <1>3, SelectParserInv
<1>4. CASE Handle
  <2>1. TypeOK'
    BY <1>4, HandleTypes DEF IInv
  <2>2. CASE overrun'
    BY <2>1, <2>2 DEF IInv, RefusesOthers
  <2>3. CASE HandleHeader
    BY <2>1, <2>3, HandleHeaderInv
  <2>4. CASE ~overrun' /\ ~HandleHeader
    <3>1. ~overrun
      BY <1>4, <2>4 DEF Handle, HandleLength, HandleType, HandleSequence, HandlePayload,
         HandlePayloadOutside, HandleCrc, HandleCrcOutside, HandleTailer, HandleNull,
         HandleConfByte, HandleConfEnd, StoreOutside
    <3>2. ~HandlePayloadOutside /\ ~HandleCrcOutside
      BY <2>4 DEF HandlePayloadOutside, HandleCrcOutside, StoreOutside
    <3>3. QED
      BY <1>4, <2>1, <2>4, <3>1, <3>2, HandleLengthInv, HandleTypeInv, HandleSequenceInv,
         HandlePayloadInv, HandleCrcInv, HandleTailerInv, HandleNullInv,
         HandleConfByteInv, HandleConfEndInv
      DEF Handle
  <2>5. QED
    BY <2>2, <2>3, <2>4
<1>5. CASE Store
  BY <1>5, StoreInv
<1>6. CASE UNCHANGED vars
  <2>1. UNCHANGED <<sfxStatus, sfxMessageIdx, recFsm, answer, rx, overrun, verdict, seen, expected>>
    BY <1>6 DEF vars, sendVars
  <2>2. TypeOK'
    BY <2>1 DEF IInv, TypeOK
  <2>3. (~overrun => Tracking)'
    BY <2>1 DEF IInv, Tracking, Tracks, SumOfAnswer
  <2>4. (~overrun => AcceptsExpected)' /\ RefusesOthers'
    BY <2>1 DEF IInv, AcceptsExpected, RefusesOthers
  <2>5. QED
    BY <2>2, <2>3, <2>4 DEF IInv
<1>7. QED
  BY <1>1, <1>2, <1>3, <1>4, <1>5, <1>6 DEF Next

LEMMA Invariance == Spec => []IInv
BY InitInv, StepInv, PTL DEF Spec

-----------------------------------------------------------------------------
\* The types of the receiver's state, also while the bytes of an answer that
\* is too long run past it over crc and the state of the FSM.
THEOREM TypeCorrect == Spec => []TypeOK
<1>1. IInv => TypeOK
  BY DEF IInv
<1>2. QED
  BY <1>1, Invariance, PTL

\* handleData accepts exactly the well-formed answers to a data or a keep frame
\* that was sent, and, until one of each kind was, answers numbered 0; for all
\* bytes, sequence numbers, statuses and sizes of the payload, as long as the
\* answer has not run past its payload.
THEOREM Accepts == Spec => []AcceptsAnswers
<1>1. IInv => AcceptsAnswers
  BY AnswerKinds DEF IInv, TypeOK, AcceptsExpected, AcceptsAnswers, AnswersFrame, AnswersNothing
<1>2. QED
  BY <1>1, Invariance, PTL

\* It gives up on none that could still have become such an answer.
THEOREM Refuses == Spec => []RefusesOthers
<1>1. IInv => RefusesOthers
  BY DEF IInv
<1>2. QED
  BY <1>1, Invariance, PTL
===============================================================================
