------------------------------ MODULE SfxReceive ------------------------------
(***************************************************************************)
(* The receiving side of the SigFox link: sigFoxRxTask runs the bytes of   *)
(* the modem's answers through the receive FSM, and gives the verdict that *)
(* sets the LEDs and unlocks the buttons.                                  *)
(*   src/src/sme/Devices/uart/sigFox/sme_sigfox_rx_fsm.c                   *)
(*   src/src/sme/tasks/sme_sigfox_rx_task.c                                *)
(*                                                                         *)
(* The task has the lowest priority: a sender may preempt it between any   *)
(* two of its accesses to sfxStatus and recFsm, and runs undisturbed by it.*)
(* The hand-off buffer of one byte loses, repeats or clears bytes (it is   *)
(* armed again before it is read, and every sender clears it): the bytes   *)
(* handled here are therefore arbitrary ones.                              *)
(***************************************************************************)
EXTENDS Naturals, Sequences

CONSTANTS
    Bytes,       \* bytes the modem may send, apart from correct check sums
    Sequences,   \* sequence numbers of frames
    Statuses,    \* the status a sender may set
    PayloadLen   \* SFX_ANSWER_LEN, room for the payload of an answer

Byte == 0 .. 255

ASSUME BytesAssumption      == Bytes \subseteq Byte
ASSUME SequencesAssumption  == Sequences \subseteq 1 .. 255
ASSUME PayloadLenAssumption == PayloadLen \in 1 .. 250

AnswerLen == PayloadLen + 2 \* payload and crc, the end of sigFoxRxMessage

SFX_MSG_HEADER     == 165
SFX_MSG_TAILER     == 90
SIGFOX_CONFIRM     == 16
SIGFOX_END_MESSAGE == 13

DataStatuses == {"report", "keep"}
ConfStatuses == {"conf"}
ASSUME StatusesAssumption == Statuses \subseteq DataStatuses \cup ConfStatuses

VARIABLES
    sfxStatus,      \* what the last sender has sent
    sfxMessageIdx,  \* the sequence numbers expected in answers
    recFsm,         \* state of the receive FSM
    answer,         \* length, type, sequence, payload up to its pointer, crc
    rx,             \* the receive task: phase, byte, next state of the FSM
    overrun,        \* history: a byte of the answer was stored past the payload
    verdict,        \* given on the last byte handled: "ok", "error", "confirmed"
    seen,           \* history: the bytes of the current data answer
    expected        \* history: the numbers its sequence was compared with

vars == <<sfxStatus, sfxMessageIdx, recFsm, answer, rx, overrun, verdict, seen,
          expected>>
sendVars == <<sfxStatus, sfxMessageIdx>>

FsmStates == {"headerRec", "lenRec", "typeRec", "sequenceRec", "payloadRec",
              "crcRec", "tailerRec", "nullState"}

NoAnswer == [length |-> 0, type |-> 0, seq |-> 0, payload |-> <<>>, crc |-> <<>>]
Idle     == [phase |-> "idle", byte |-> 0, next |-> "nullState"]

SumOf(payload) ==
    LET sum[i \in 0 .. Len(payload)] == IF i = 0 THEN 0 ELSE sum[i - 1] + payload[i]
    IN  sum[Len(payload)]

calculateCRC(length, type, sequence, payload) ==
    (length + type + sequence + SumOf(payload)) % 65536

Confirms(type) == (type \div SIGFOX_CONFIRM) % 2 = 1

\* What crcCounter may have become: nothing, one or both bytes of crc are there.
Counters == {<<>>, <<0>>, <<0, 0>>}

-----------------------------------------------------------------------------
Init ==
    /\ sfxStatus = "conf"
    /\ sfxMessageIdx = [data |-> 0, keep |-> 0]
    /\ recFsm = "headerRec"
    /\ answer = NoAnswer
    /\ rx = Idle
    /\ overrun = FALSE
    /\ verdict = "none"
    /\ seen = <<>>
    /\ expected = {}

\* A sender, of higher priority: setSfxStatus, the number to expect, resetRxFsm.
Send(status) ==
    /\ sfxStatus' = status
    /\ \E n \in Sequences :
          sfxMessageIdx' = CASE status = "report" -> [sfxMessageIdx EXCEPT !.data = n]
                             [] status = "keep"   -> [sfxMessageIdx EXCEPT !.keep = n]
                             [] OTHER             -> sfxMessageIdx
    /\ recFsm' = "headerRec"
    /\ UNCHANGED <<answer, rx, overrun, verdict, seen, expected>>

\* The check sum that is right for the answer so far.
Checksum ==
    LET c == calculateCRC(answer.length, answer.type, answer.seq, answer.payload)
    IN  IF recFsm = "crcRec" THEN {c % 256, c \div 256} ELSE {}

\* sigFoxRxTask has copied a byte out of the hand-off buffer.
ReceiveByte ==
    /\ rx.phase = "idle"
    /\ \E b \in Bytes \cup Checksum : rx' = [rx EXCEPT !.phase = "select", !.byte = b]
    /\ UNCHANGED <<sendVars, recFsm, answer, overrun, verdict, seen, expected>>

\* sfxHandleRx: the status selects the parser.
SelectParser ==
    /\ rx.phase = "select"
    /\ rx' = [rx EXCEPT !.phase = IF sfxStatus \in DataStatuses THEN "data" ELSE "conf"]
    /\ UNCHANGED <<sendVars, recFsm, answer, overrun, verdict, seen, expected>>

-----------------------------------------------------------------------------
(* handleData: one action per state of the FSM. The next state is stored in *)
(* a step of its own, which a sender may come before.                      *)

\* The FSM goes on to state when the store is done.
Continue(state) == rx' = [phase |-> "store", byte |-> 0, next |-> state]

\* The byte leaves the state of the FSM alone.
Stay == rx' = Idle

Handling(parser) ==
    /\ rx.phase = parser
    /\ UNCHANGED sendVars

HandlingData(state) ==
    /\ Handling("data")
    /\ recFsm = state
    /\ seen' = CASE state = "headerRec" -> <<rx.byte>>
                 [] state = "nullState" \/ (overrun /\ state # "headerRec") -> <<>>
                 [] OTHER               -> Append(seen, rx.byte)
    /\ expected' = CASE state = "headerRec"   -> {}
                     [] state = "sequenceRec" ->
                            {sfxMessageIdx.data, sfxMessageIdx.keep}
                     [] OTHER                 -> expected

Give(v) == verdict' = v

\* A byte is stored behind the answer. The linker decides what lies there: the
\* model takes the FSM's own state, declared beside the answer, which may be
\* anything afterwards; variables of other files it leaves alone. crcCounter is
\* set to crc unless the handler sets it itself.
StoreOutside ==
    /\ overrun' = TRUE
    /\ recFsm' \in FsmStates

\* Bytes before a header are dropped; dropping one resets payloadPtr. The other
\* fields of the last answer are set before they are read again, crcCounter by
\* check_msg_error or by a store outside: the model forgets them here.
HandleHeader ==
    /\ HandlingData("headerRec")
    /\ IF rx.byte = SFX_MSG_HEADER
       THEN /\ Continue("lenRec")
            /\ answer' = [NoAnswer EXCEPT !.payload = answer.payload]
       ELSE /\ Stay
            /\ answer' = NoAnswer
    /\ Give("none")
    /\ overrun' = FALSE
    /\ UNCHANGED recFsm

HandleLength ==
    /\ HandlingData("lenRec")
    /\ answer' = [answer EXCEPT !.length = rx.byte]
    /\ Continue("typeRec")
    /\ Give("none")
    /\ UNCHANGED <<recFsm, overrun>>

HandleType ==
    /\ HandlingData("typeRec")
    /\ answer' = [answer EXCEPT !.type = rx.byte]
    /\ Continue("sequenceRec")
    /\ Give("none")
    /\ UNCHANGED <<recFsm, overrun>>

\* checkSequenceConsistence: the number of one of the last frames, or an error.
HandleSequence ==
    /\ HandlingData("sequenceRec")
    /\ IF rx.byte \in {sfxMessageIdx.data, sfxMessageIdx.keep}
       THEN /\ answer' = [answer EXCEPT !.seq = rx.byte, !.payload = <<>>]
            /\ Continue("payloadRec")
            /\ Give("none")
       ELSE /\ Continue("nullState")
            /\ Give("error")
            /\ UNCHANGED answer
    /\ UNCHANGED <<recFsm, overrun>>

PayloadEnd_AnyType(first, payload) ==
    IF first # 0
    THEN /\ answer' = [answer EXCEPT !.payload = payload]
         /\ Continue("nullState")
         /\ Give("error")
    ELSE /\ answer' = [answer EXCEPT !.payload = payload, !.crc = <<>>]
         /\ Continue("crcRec")
         /\ Give("none")

\* check_msg_error: a confirmation that carries an error code ends the answer.
PayloadEnd(first, payload) ==
    IF Confirms(answer.type) /\ first # 0
    THEN /\ answer' = [answer EXCEPT !.payload = payload]
         /\ Continue("nullState")
         /\ Give("error")
    ELSE /\ answer' = [answer EXCEPT !.payload = payload, !.crc = <<>>]
         /\ Continue("crcRec")
         /\ Give("none")

\* The pointer has left the answer and moves on, until it wraps round (it is a
\* uint8_t): from here on the model knows of it only whether it has. The answer
\* ends where pointer and length meet, which for length 0 is after 256 bytes.
HandlePayloadOutside ==
    /\ HandlingData("payloadRec")
    /\ Len(answer.payload) = AnswerLen
    /\ StoreOutside
    /\ \E payload \in {answer.payload, <<>>}, crc \in Counters :
          \/ /\ payload = <<>> => answer.length # 0
             /\ answer' = [answer EXCEPT !.payload = payload, !.crc = crc]
             /\ Stay
             /\ Give("none")
          \/ /\ IF payload = <<>> THEN answer.length = 0 ELSE answer.length > AnswerLen
             /\ PayloadEnd(answer.payload[1], payload)

\* A byte of the payload; one that the payload has no room for lands on crc, where
\* the check sum will overwrite it: its value is not kept.
HandlePayload ==
    /\ HandlingData("payloadRec")
    /\ Len(answer.payload) < AnswerLen
    /\ LET fits    == Len(answer.payload) < PayloadLen
           payload == Append(answer.payload, IF fits THEN rx.byte ELSE 0)
       IN  /\ overrun' = (overrun \/ ~fits)
           /\ IF Len(payload) = answer.length
              THEN PayloadEnd(payload[1], payload)
              ELSE /\ answer' = [answer EXCEPT !.payload = payload]
                   /\ Stay
                   /\ Give("none")
    /\ UNCHANGED recFsm

HandleCrc_OneMore ==
    /\ HandlingData("crcRec")
    /\ LET crc == Append(answer.crc, rx.byte)
           sum == calculateCRC(answer.length, answer.type, answer.seq, answer.payload)
       IN  /\ answer' = [answer EXCEPT !.crc = crc]
           /\ IF Len(crc) < 3 THEN Stay /\ Give("none")
              ELSE IF crc[1] + 256 * crc[2] = sum
                   THEN Continue("tailerRec") /\ Give("none")
                   ELSE Continue("nullState") /\ Give("error")
    /\ UNCHANGED <<recFsm, overrun>>

HandleCrc_LowByteOnly ==
    /\ HandlingData("crcRec")
    /\ Len(answer.crc) < 2
    /\ LET crc == Append(answer.crc, rx.byte)
           sum == calculateCRC(answer.length, answer.type, answer.seq, answer.payload)
       IN  /\ answer' = [answer EXCEPT !.crc = crc]
           /\ IF Len(crc) < 2 THEN Stay /\ Give("none")
              ELSE \E right \in IF overrun THEN BOOLEAN ELSE {crc[1] = sum % 256} :
                     IF right
                     THEN Continue("tailerRec") /\ Give("none")
                     ELSE Continue("nullState") /\ Give("error")
    /\ UNCHANGED <<recFsm, overrun>>

\* crcCheck, once both bytes are there. An overrun answer is summed up over the
\* received check sum, or over the memory behind it: the sum may come out either
\* way, and the bytes of the check sum are not kept.
HandleCrc ==
    /\ HandlingData("crcRec")
    /\ Len(answer.crc) < 2
    /\ LET crc == Append(answer.crc, IF overrun THEN 0 ELSE rx.byte)
           sum == calculateCRC(answer.length, answer.type, answer.seq, answer.payload)
       IN  /\ answer' = [answer EXCEPT !.crc = crc]
           /\ IF Len(crc) < 2 THEN Stay /\ Give("none")
              ELSE \E right \in IF overrun THEN BOOLEAN ELSE {crc[1] + 256 * crc[2] = sum} :
                     IF right
                     THEN Continue("tailerRec") /\ Give("none")
                     ELSE Continue("nullState") /\ Give("error")
    /\ UNCHANGED <<recFsm, overrun>>

\* When crcCounter has been overwritten, the bytes of the check sum go behind the
\* answer too, until the counter, a uint8_t, wraps round.
HandleCrcOutside ==
    /\ HandlingData("crcRec")
    /\ Len(answer.crc) = 2
    /\ StoreOutside
    /\ \E crc \in Counters : answer' = [answer EXCEPT !.crc = crc]
    /\ Stay
    /\ Give("none")

\* A wrong tailer ends the answer without a verdict.
HandleTailer ==
    /\ HandlingData("tailerRec")
    /\ Continue("headerRec")
    /\ Give(IF rx.byte = SFX_MSG_TAILER THEN "ok" ELSE "none")
    /\ answer' = [answer EXCEPT !.payload = <<>>]
    /\ UNCHANGED <<recFsm, overrun>>

\* The rest of an answer with an error is dropped until the next frame is sent.
HandleNull ==
    /\ HandlingData("nullState")
    /\ Stay
    /\ Give("none")
    /\ UNCHANGED <<recFsm, answer, overrun>>

\* recFsm is written, whatever it has become in the meantime.
Store ==
    /\ rx.phase = "store"
    /\ recFsm' = rx.next
    /\ rx' = Idle
    /\ UNCHANGED <<sendVars, answer, overrun, verdict, seen, expected>>

-----------------------------------------------------------------------------
(* handleConf                                                              *)

\* A byte of a conf answer is stored where payloadPtr has been left. Nothing reads
\* it again: its value is not kept.
HandleConfByte ==
    /\ Handling("conf")
    /\ rx.byte # SIGFOX_END_MESSAGE
    /\ IF Len(answer.payload) < AnswerLen
       THEN /\ answer' = [answer EXCEPT !.payload = Append(@, 0)]
            /\ overrun' = (overrun \/ Len(answer.payload) >= PayloadLen)
            /\ UNCHANGED recFsm
       ELSE /\ StoreOutside
            /\ \E payload \in {answer.payload, <<>>}, crc \in Counters :
                  answer' = [answer EXCEPT !.payload = payload, !.crc = crc]
    /\ Give("none")
    /\ Stay
    /\ seen' = <<>>
    /\ UNCHANGED expected

\* The first byte is compared with the address of the string "E": never equal.
HandleConfEnd ==
    /\ Handling("conf")
    /\ rx.byte = SIGFOX_END_MESSAGE
    /\ Give("confirmed")
    /\ answer' = [answer EXCEPT !.payload = <<>>]
    /\ Stay
    /\ seen' = <<>>
    /\ UNCHANGED <<recFsm, overrun, expected>>

Handle ==
    \/ HandleHeader \/ HandleLength \/ HandleType \/ HandleSequence
    \/ HandlePayload \/ HandlePayloadOutside \/ HandleCrc \/ HandleCrcOutside
    \/ HandleTailer \/ HandleNull
    \/ HandleConfByte \/ HandleConfEnd

Next ==
    \/ \E status \in Statuses : Send(status)
    \/ ReceiveByte \/ SelectParser \/ Handle \/ Store

Spec == Init /\ [][Next]_vars

-----------------------------------------------------------------------------
(* The reference: what an answer to a frame is.                            *)

\* s may still become an answer without an error to a frame with one of numbers.
MayBecomeAnswer(s, numbers) ==
    LET n       == s[2]
        payload == SubSeq(s, 5, 4 + n)
        sum     == calculateCRC(n, s[3], s[4], payload)
        Has(i)  == Len(s) >= i
    IN  /\ Has(1) => s[1] = SFX_MSG_HEADER
        /\ Has(4) => s[4] \in numbers
        /\ Has(5) /\ Confirms(s[3]) => s[5] = 0
        /\ Has(2) /\ Has(5 + n) => s[5 + n] = sum % 256
        /\ Has(2) /\ Has(6 + n) => s[6 + n] = sum \div 256
        /\ Has(2) /\ Has(7 + n) => s[7 + n] = SFX_MSG_TAILER

IsAnswer(s, numbers) ==
    /\ Len(s) >= 2
    /\ s[2] > 0
    /\ Len(s) = 7 + s[2]
    /\ MayBecomeAnswer(s, numbers)

-----------------------------------------------------------------------------
(* Properties.                                                             *)

\* Types of the receiver's state.
TypeOK ==
    /\ sfxStatus \in Statuses \cup {"conf"}
    /\ sfxMessageIdx \in [data : Sequences \cup {0}, keep : Sequences \cup {0}]
    /\ recFsm \in FsmStates
    /\ answer \in [length : Byte, type : Byte, seq : Byte,
                   payload : Seq(Byte), crc : Seq(Byte)]
    /\ Len(answer.payload) \in 0 .. AnswerLen
    /\ Len(answer.crc) \in 0 .. 2
    /\ rx \in [phase : {"idle", "select", "data", "conf", "store"}, byte : Byte,
               next : FsmStates]
    /\ overrun \in BOOLEAN
    /\ verdict \in {"none", "ok", "error", "confirmed"}
    /\ seen \in Seq(Byte)
    /\ expected \subseteq Sequences \cup {0}

\* An answer to the last data or the last keep frame: frames have the numbers
\* 1 to 255 (getNewSequenceNumber skips 0).
AnswersFrame == IsAnswer(seen, expected \ {0})

\* The exception: sfxMessageIdx starts with 0, so until a frame of each kind has
\* been sent, an answer that bears the number 0 passes for one as well.
AnswersNothing == 0 \in expected /\ IsAnswer(seen, {0})

\* handleData says "ok" to exactly the well-formed answers to a frame, wherever
\* senders preempt it, and to those of the exception above. Nothing is claimed of
\* an answer with a byte stored past its payload (sme_sigfox_rx_fsm.c:124, 163),
\* but the damage ends with it: the next header finds a sound FSM.
AcceptsAnswers ==
    rx.phase \in {"idle", "store"} /\ ~overrun
        => (verdict = "ok" <=> AnswersFrame \/ AnswersNothing)

\* What it refuses could not have become such an answer any more; again, unless
\* the answer has run past its payload.
RefusesOthers == verdict = "error" /\ ~overrun => ~MayBecomeAnswer(seen, expected)
===============================================================================
