----------------------------- MODULE NmeaReceive ------------------------------
(***************************************************************************)
(* How lines of the GPS receiver become positions: the line buffer rxMsg,  *)
(* its check sum and its parser (sme_sl868v2_rx_fsm.c, sme_gps_rx_task.c,  *)
(* getTalkerType in sme_sl868v2_parse.c), fed by a UART that may lose a    *)
(* byte or hand one over twice.                                            *)
(*                                                                         *)
(* A character is the set of its bits, so that the check sum of the code,  *)
(* an exclusive or printed in hexadecimal, is one here too. A line is      *)
(* shorter than in reality, and the buffer with it: a talker is one        *)
(* character, and the constants say how long the rest is.                  *)
(***************************************************************************)
EXTENDS Naturals, Sequences

CONSTANTS
    SL868V2_MAX_MSG_LEN,  \* size of rxMsg.data (100)
    StdHeader,            \* characters of talker and sentence id (5)
    MtkHeader,            \* characters of a vendor talker and message id (7)
    Sentences,            \* what the receiver may send between $ and *
    MaxFaults,            \* bytes of one line the UART may lose or double (1)
    MaxLine               \* bound of the model: lines the receiver sends

ASSUME SizeAssumption   == SL868V2_MAX_MSG_LEN \in Nat /\ SL868V2_MAX_MSG_LEN > 4
ASSUME HeaderAssumption == StdHeader \in Nat \ {0} /\ MtkHeader \in Nat \ {0}
ASSUME FaultAssumption  == MaxFaults \in Nat
ASSUME LineAssumption   == MaxLine \in Nat \ {0}

Bits  == 0 .. 6
Chars == SUBSET Bits
NUL   == {}
LF    == {1, 3}
CR    == {0, 2, 3}
Dollar == {2, 5}
Star  == {1, 3, 5}
G     == {0, 1, 2, 6}
P     == {4, 6}
B     == {1, 6}

VARIABLES
    data,       \* rxMsg.data up to rxMsg.idx; what follows is zero
    messageType, \* msgPtrT.messageType
    dataLength, \* msgPtrT.nmea_p.std_p.dataLenght and mtk_p.dataLength
    position,   \* gpsRxData, as the sentence it was parsed from
    overread,   \* a search has left the line: undefined behaviour
    from,       \* history: the line each character of data comes from
    accepted,   \* history: the line the last processed sentence comes from
    line,       \* the line being received,
    sentence,   \*   what it says,
    pos,        \*   its next character,
    faults,     \*   the bytes of it that were lost or doubled,
    room        \*   and did its $ find room?

nmeaVars == <<data, messageType, dataLength, position, overread, from, accepted,
          line, sentence, pos, faults, room>>

-----------------------------------------------------------------------------
(* Characters and check sums.                                              *)

xor(a, b) == (a \ b) \cup (b \ a)

Checksum(s) ==
    LET x[i \in 0 .. Len(s)] == IF i = 0 THEN {} ELSE xor(x[i - 1], s[i])
    IN  x[Len(s)]

\* The digit that sprintf("%0X") prints for four bits.
Digit(n) ==
    CASE n = {1, 3}       -> {0, 6}      \* A
      [] n = {0, 1, 3}    -> {1, 6}
      [] n = {2, 3}       -> {0, 1, 6}
      [] n = {0, 2, 3}    -> {2, 6}
      [] n = {1, 2, 3}    -> {0, 2, 6}
      [] n = {0, 1, 2, 3} -> {1, 2, 6}   \* F
      [] OTHER            -> n \cup {4, 5}

High(x) == Digit({i \in 0 .. 3 : i + 4 \in x})
Low(x)  == Digit(x \cap 0 .. 3)

Line(s) == <<Dollar>> \o s \o <<Star, High(Checksum(s)), Low(Checksum(s)), CR, LF>>

\* Below 21, and neither a carriage return nor a line feed.
Ignored(c) ==
    /\ c \notin {LF, CR}
    /\ c \subseteq 0 .. 4
    /\ 4 \in c => 3 \notin c /\ ~(2 \in c /\ c \cap {0, 1} # {})

\* What the characters of a sentence are.
Printable == {c \in Chars \ {LF, CR, Dollar, Star} : ~Ignored(c)}

\* A line leaves room in the buffer (NMEA 0183 stops at 82 characters), and has
\* its talker and its sentence or message id.
ASSUME SentencesAssumption ==
    \A s \in Sentences : /\ s \in Seq(Printable) /\ s # <<>>
                         /\ Len(s) + 8 <= SL868V2_MAX_MSG_LEN
                         /\ s[1] = G => Len(s) >= StdHeader
                         /\ s[1] = P => Len(s) >= MtkHeader

At(d, i) == IF i \in DOMAIN d THEN d[i] ELSE NUL

\* The first * at index i or after it, an index behind d when there is none.
FirstStar(d, i) ==
    CHOOSE k \in i .. Len(d) + i :
        /\ k > Len(d) \/ d[k] = Star
        /\ \A j \in i .. k - 1 : j <= Len(d) /\ d[j] # Star

\* The characters between the first one, whatever it is, and the first *.
Body(d) == SubSeq(d, 2, FirstStar(d, 2) - 1)

crcCheck_StarOnly(d) == FirstStar(d, 2) <= Len(d)

crcCheck_NoStar(d) ==
    LET k == FirstStar(d, 2)
        sum == Checksum(Body(d))
    IN  \/ k > Len(d)
        \/ At(d, k + 1) = High(sum) /\ At(d, k + 2) = Low(sum)

crcCheck(d) ==
    LET k == FirstStar(d, 2)
        sum == Checksum(Body(d))
    IN  /\ k <= Len(d)
        /\ At(d, k + 1) = High(sum)
        /\ At(d, k + 2) = Low(sum)

\* getTalkerType, NULL for a talker it does not know.
TalkerType(d) ==
    CASE At(d, 2) \in {G, B} -> "STD_NMEA"
      [] At(d, 2) = P        -> "MTK_NMEA"
      [] OTHER               -> "NULL"

-----------------------------------------------------------------------------
NmeaInit ==
    /\ data = <<>>
    /\ messageType = "STD_NMEA"
    /\ dataLength = 0
    /\ position = <<>>
    /\ overread = FALSE
    /\ from = <<>>
    /\ accepted = 0
    /\ line = 1
    /\ sentence \in Sentences
    /\ pos = 1
    /\ faults = 0
    /\ room = TRUE

\* sl868v2ParseRx: an unknown talker leaves all of msgPtrT as it was. The two
\* members of its union have their lengths in one place.
ParseRx(d) ==
    LET start == IF TalkerType(d) = "STD_NMEA" THEN StdHeader + 2 ELSE MtkHeader + 2
        star  == FirstStar(d, start)
    IN  /\ messageType' = IF TalkerType(d) = "NULL" THEN messageType ELSE TalkerType(d)
        /\ dataLength' = IF TalkerType(d) # "NULL" /\ star <= Len(d)
                         THEN star - start ELSE dataLength
        /\ overread' = (overread \/ (TalkerType(d) = "MTK_NMEA" /\ star > Len(d)))

\* sl868v2ProcessRx: a sentence of a talker G is parsed into the position,
\* as far as the length that was noted.
ProcessRx(d) ==
    /\ position' = IF messageType' = "STD_NMEA" /\ At(d, 2) = G
                   THEN SubSeq(d, 2, StdHeader + 1 + dataLength')
                   ELSE position
    /\ accepted' = IF FirstStar(d, 2) <= Len(d) THEN from'[FirstStar(d, 2)] ELSE 0

NothingProcessed == UNCHANGED <<messageType, dataLength, position, overread, accepted>>

Full == Len(data) >= SL868V2_MAX_MSG_LEN - 2

HandleRx_NoReset(c) ==
    IF Full \/ Ignored(c)
    THEN /\ data' = IF Full THEN <<>> ELSE data
         /\ from' = IF Full THEN <<>> ELSE from
         /\ NothingProcessed
    ELSE /\ data' = Append(data, c)
         /\ from' = Append(from, line)
         /\ IF c = LF /\ Len(data') > 3 /\ crcCheck(data')
            THEN ParseRx(data') /\ ProcessRx(data') ELSE NothingProcessed

HandleRx_NoBound(c) ==
    IF Ignored(c)
    THEN UNCHANGED <<data, from>> /\ NothingProcessed
    ELSE /\ data' = Append(IF c = Dollar THEN <<>> ELSE data, c)
         /\ from' = Append(IF c = Dollar THEN <<>> ELSE from, line)
         /\ IF c = LF /\ Len(data') > 3 /\ crcCheck(data')
            THEN ParseRx(data') /\ ProcessRx(data') ELSE NothingProcessed

\* sl868v2HandleRx: a full buffer is thrown away together with the character
\* that found it full; a line feed does not empty it, a $ does.
HandleRx(c) ==
    IF Full \/ Ignored(c)
    THEN /\ data' = IF Full THEN <<>> ELSE data
         /\ from' = IF Full THEN <<>> ELSE from
         /\ NothingProcessed
    ELSE /\ data' = Append(IF c = Dollar THEN <<>> ELSE data, c)
         /\ from' = Append(IF c = Dollar THEN <<>> ELSE from, line)
         /\ IF c = LF /\ Len(data') > 3 /\ crcCheck(data')
            THEN ParseRx(data') /\ ProcessRx(data') ELSE NothingProcessed

-----------------------------------------------------------------------------
(* The receiver and the UART.                                              *)

Current == Line(sentence)[pos]
EndOfLine == pos = Len(Line(sentence))

\* On to the next character, or to the next line.
Advance ==
    /\ line < MaxLine \/ ~EndOfLine
    /\ IF EndOfLine
       THEN line' = line + 1 /\ sentence' \in Sentences /\ pos' = 1
       ELSE pos' = pos + 1 /\ UNCHANGED <<line, sentence>>

Deliver ==
    /\ Advance
    /\ HandleRx(Current)
    /\ room' = IF pos = 1 THEN ~Full ELSE room
    /\ faults' = IF EndOfLine THEN 0 ELSE faults

LoseByte ==
    /\ faults < MaxFaults
    /\ Advance
    /\ faults' = IF EndOfLine THEN 0 ELSE faults + 1
    /\ room' = (pos > 1 /\ room)
    /\ UNCHANGED <<data, from>>
    /\ NothingProcessed

DoubleByte ==
    /\ faults < MaxFaults
    /\ HandleRx(Current)
    /\ faults' = faults + 1
    /\ UNCHANGED <<line, sentence, pos, room>>

NmeaNext == Deliver \/ LoseByte \/ DoubleByte

NmeaSpec == NmeaInit /\ [][NmeaNext]_nmeaVars

-----------------------------------------------------------------------------
(* Properties.                                                             *)

\* Types; the buffer has room for the terminator behind its last character.
NmeaTypeOK ==
    /\ data \in Seq(Chars)
    /\ Len(data) <= SL868V2_MAX_MSG_LEN - 2
    /\ messageType \in {"STD_NMEA", "MTK_NMEA"}
    /\ dataLength \in 0 .. SL868V2_MAX_MSG_LEN
    /\ overread \in BOOLEAN
    /\ from \in Seq(1 .. MaxLine)
    /\ Len(from) = Len(data)
    /\ accepted \in 0 .. MaxLine
    /\ line \in 1 .. MaxLine
    /\ sentence \in Sentences
    /\ pos \in 1 .. Len(Line(sentence))
    /\ faults \in 0 .. MaxFaults
    /\ room \in BOOLEAN

\* In a line whose $ got in, and that has suffered one fault at most, a position
\* that is taken over is the one this very line says: a byte that is lost or comes
\* twice makes up no other one that passes the check (crcCheck).
OwnPositionOnly ==
    [][room /\ faults <= 1 => position' \in {position, sentence}]_nmeaVars

\* Nor does the search for the * of a vendor message, which only the check made
\* sure is there, leave the buffer in such a line.
NoOverread == [][room /\ faults <= 1 => overread' = overread]_nmeaVars

\* A line that arrives whole is processed at its line feed, and its position
\* taken over in full, whatever became of the lines before it, as long as its $
\* did not find the buffer full.
WholeLineProcessed ==
    [][Deliver /\ EndOfLine /\ faults = 0 /\ room
        => accepted' = line /\ (sentence[1] = G => position' = sentence)]_nmeaVars
===============================================================================
