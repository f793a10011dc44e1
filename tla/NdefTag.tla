------------------------------- MODULE NdefTag --------------------------------
(***************************************************************************)
(* What main writes on the NFC tag at boot: a text, an address and another *)
(* text as records of one NDEF message (storeInfoUnitOnNFC, nfc.c, ndef.c, *)
(* nfcForum.c, NT3H.c). The tag is read and written in pages; every        *)
(* transfer, with all its attempts, is a step and may fail.                *)
(***************************************************************************)
EXTENDS Naturals

CONSTANTS
    NFC_PAGE_SIZE,  \* bytes of a page (16)
    UserPages,      \* pages from USER_START_REG to USER_END_REG (56)
    Payloads,       \* lengths of the three strings
    Garbage,        \* what header.payloadLength may hold in addRecord
    MaxFaults       \* transfers that may fail

\* The first header and its start bytes fit in a page; a count that has wrapped
\* below 0 is behind the page, as 255 is behind 16.
ASSUME PageAssumption    == NFC_PAGE_SIZE \in 10 .. 128
ASSUME UserAssumption    == UserPages \in Nat \ {0}
\* The strings are short: the count of payload bytes, which goes on in steps of
\* a page, and the length of the message each stay below 256.
ASSUME PayloadAssumption == Payloads \subseteq [1 .. 3 -> 0 .. 256 - NFC_PAGE_SIZE]
ASSUME LengthAssumption  == \A p \in Payloads : p[1] + p[2] + p[3] + 19 <= 255
ASSUME GarbageAssumption == Garbage \subseteq 0 .. 255
ASSUME FaultAssumption   == MaxFaults \in Nat

VARIABLES
    tag,         \* user memory of the tag, by page
    nfcPageBuffer,
    payload,     \* rtdPayloadlength of the three records
    rec,         \* the record being written, or the last one that was
    pc,
    page,        \* addPage.page
    usedBytes,   \* addPage.usedBytes, later payloadPtr
    newRecordPtr, \* length announced so far, and the flags of the first
    mbMe,         \*   record, as addRecord has read them
    addedPayload,
    garbage,     \* header.payloadLength before addRecord adds to it, for 2 and 3
    badReads,    \* transfers that failed
    badWrites,
    safe         \* history: the length announced when the record was begun

vars == <<tag, nfcPageBuffer, payload, rec, pc, page, usedBytes, newRecordPtr, mbMe,
          addedPayload, garbage, badReads, badWrites, safe>>

Pages      == 0 .. NFC_PAGE_SIZE - 1  \* places in a page
UserMemory == 0 .. UserPages - 1

Address(p, x) == p * NFC_PAGE_SIZE + x

-----------------------------------------------------------------------------
(* Bytes, records and the message they make up.                            *)

Kinds == {"start", "end", "zero", "length", "flags", "unknown", "stack", "byte"}
Bytes == Kinds \X (0 .. 255) \X (0 .. 255)

PageOfBytes == [Pages -> Bytes]

Start     == <<"start", 0, 0>>
End       == <<"end", 0, 0>>
Zero      == <<"zero", 0, 0>>
Length(n) == <<"length", n, 0>>
Flags(r, me) == <<"flags", r, me>>  \* MB is set for r = 1 only
Unknown   == <<"unknown", 0, 0>>  \* MB set and ME clear, so never NTAG_ERASED
Stack     == <<"stack", 0, 0>>  \* whatever lies behind addRecord's tmpBuffer
Byte(r, i) == <<"byte", r, i>>

\* composeRtdText and composeRtdUri: the bytes in front of a payload.
HeaderLength(r) == IF r = 2 THEN 5 ELSE 7

\* composeNDEFMBME: only the first and the last record are written with ME.
Ends(r) == IF r \in {1, 3} THEN 1 ELSE 0

\* Byte i of record r, header and payload.
RecordByte(r, i) == IF i = 1 THEN Flags(r, Ends(r)) ELSE Byte(r, i)

Blank == [a \in Pages |-> Zero]

Written(p, b) == [q \in UserMemory |-> IF q = p THEN b ELSE tag[q]]

RecordLength(r) == HeaderLength(r) + payload[r]

Total(k) ==
    CASE k = 0 -> 0
      [] k = 1 -> RecordLength(1)
      [] k = 2 -> RecordLength(1) + RecordLength(2)
      [] k = 3 -> RecordLength(1) + RecordLength(2) + RecordLength(3)

\* Address of the first byte of record r, of the end byte when there is none.
Begin(r) == 2 + Total(r - 1)

\* What a tag with the first k records holds, up to its end byte.
Message(k) ==
    [a \in 0 .. Begin(k + 1) |->
        CASE a = 0            -> Start
          [] a = 1            -> Length(Total(k))
          [] a = Begin(k + 1) -> End
          [] OTHER -> LET r == CHOOSE r \in 1 .. k : a \in Begin(r) .. Begin(r + 1) - 1
                          i == a - Begin(r) + 1
                      IN  IF i = 1 THEN Flags(r, IF r = k THEN Ends(r) ELSE 0) ELSE Byte(r, i)]

-----------------------------------------------------------------------------
Init ==
    /\ payload \in Payloads
    /\ tag \in { [p \in UserMemory |-> Blank],
                 [p \in UserMemory |-> [x \in Pages |->
                     IF Address(p, x) \in DOMAIN Message(3)
                     THEN Message(3)[Address(p, x)] ELSE Zero]] }
    /\ nfcPageBuffer = Blank
    /\ rec = 0
    /\ pc = "idle"
    /\ page = 0
    /\ usedBytes = 0
    /\ newRecordPtr = 0
    /\ mbMe = Unknown
    /\ addedPayload = 0
    /\ garbage \in [2 .. 3 -> Garbage]
    /\ badReads = 0
    /\ badWrites = 0
    /\ safe = 0

Faults == badReads + badWrites

\* readTimeout and NT3HReadUserData: a page is read,
ReadPage(p) ==
    /\ p < UserPages
    /\ nfcPageBuffer' = tag[p]
    /\ UNCHANGED badReads

\* or the read fails, maybe after the page has reached the buffer.
ReadFails(p) ==
    /\ p >= UserPages \/ Faults < MaxFaults
    /\ nfcPageBuffer' \in {nfcPageBuffer} \cup {tag[q] : q \in {p} \cap UserMemory}
    /\ badReads' = badReads + 1

\* writeTimeout and NT3HWriteUserData: a failure may be reported although the
\* last attempt went through.
Write(p, b, Then, Else) ==
    \/ /\ p < UserPages
       /\ tag' = Written(p, b)
       /\ Then
       /\ UNCHANGED badWrites
    \/ /\ p >= UserPages \/ Faults < MaxFaults
       /\ tag' \in {tag, Written(p, b)}
       /\ Else
       /\ badWrites' = badWrites + 1

\* firstRecord: the page is composed in the buffer, whatever the tag holds.
FirstRecord ==
    /\ pc = "idle"
    /\ rec = 0
    /\ rec' = 1
    /\ page' = 0
    /\ usedBytes' = 2 + HeaderLength(1)
    /\ nfcPageBuffer' = [a \in Pages |->
           CASE a = 0 -> Start
             [] a = 1 -> Length(RecordLength(1))
             [] a \in 2 .. 1 + HeaderLength(1) -> RecordByte(1, a - 1)
             [] OTHER -> Zero]
    /\ pc' = "first"
    /\ UNCHANGED <<tag, payload, newRecordPtr, mbMe, addedPayload, garbage,
                   badReads, badWrites, safe>>

\* The length of the message in a page, 0 when it holds none.
Announced(b) == IF b[0] = Start /\ b[1][1] = "length" THEN b[1][2] ELSE 0

UsedBytes_NoHeader(length) ==
    LET n == (length + 1) % NFC_PAGE_SIZE IN IF n = 0 THEN 255 ELSE n - 1

UsedBytes_KeepEnd(length) == (length + 3) % NFC_PAGE_SIZE

\* Where the end byte is that the new record replaces; one less than 0 is 255.
UsedBytes(length) ==
    LET n == (length + 3) % NFC_PAGE_SIZE IN IF n = 0 THEN 255 ELSE n - 1

\* NT3HwriteRecord for the records that are added.
FindEnd ==
    LET Found(length) == /\ page' = (length + 3) \div NFC_PAGE_SIZE
                         /\ usedBytes' = UsedBytes(length)
                         /\ safe' = length
    IN
    /\ pc = "idle"
    /\ rec \in 1 .. 2
    /\ rec' = rec + 1
    /\ \/ ReadPage(0) /\ Found(Announced(tag[0]))
       \/ ReadFails(0) /\ Found(0)
    /\ pc' = "flags"
    /\ UNCHANGED <<tag, payload, newRecordPtr, mbMe, addedPayload, garbage, badWrites>>

\* addRecord reads the header once more, and clears ME of the first record.
ReadFlags ==
    LET first == tag[0]
        Header(length, flags) == newRecordPtr' = length /\ mbMe' = flags
    IN
    /\ pc = "flags"
    /\ \/ /\ ReadPage(0)
          /\ Header(Announced(first), IF first[0] = Start /\ first[2][1] = "flags"
                                      THEN Flags(1, 0) ELSE Unknown)
       \/ ReadFails(0) /\ Header(0, Unknown)
    /\ pc' = "readHeader"
    /\ UNCHANGED <<tag, payload, rec, page, usedBytes, addedPayload, garbage, badWrites, safe>>

\* NT3HWriteHeaderNfc, whose result nobody looks at.
ReadHeader ==
    /\ pc = "readHeader"
    /\ \/ ReadPage(0) /\ pc' = "writeHeader"
       \/ ReadFails(0) /\ pc' = "lastPage"
    /\ UNCHANGED <<tag, payload, rec, page, usedBytes, newRecordPtr, mbMe, addedPayload,
                   garbage, badWrites, safe>>

WriteHeader ==
    LET length == (newRecordPtr + garbage[rec] + RecordLength(rec)) % 256 IN
    /\ pc = "writeHeader"
    /\ nfcPageBuffer' = [nfcPageBuffer EXCEPT ![1] = Length(length), ![2] = mbMe]
    /\ Write(0, nfcPageBuffer', TRUE, TRUE)
    /\ pc' = "lastPage"
    /\ UNCHANGED <<payload, rec, page, usedBytes, newRecordPtr, mbMe, addedPayload,
                   garbage, badReads, safe>>

\* The last page is read back for the header of the new record.
ReadLastPage ==
    /\ pc = "lastPage"
    /\ ReadPage(page) \/ ReadFails(page)
    /\ pc' = "append"
    /\ UNCHANGED <<tag, payload, rec, page, usedBytes, newRecordPtr, mbMe, addedPayload,
                   garbage, badWrites, safe>>

AppendHeader_Equal ==
    /\ pc = "append"
    /\ usedBytes + HeaderLength(rec) <= NFC_PAGE_SIZE
    /\ nfcPageBuffer' = [a \in Pages |->
           IF a \in usedBytes .. usedBytes + HeaderLength(rec) - 1
           THEN RecordByte(rec, a - usedBytes + 1) ELSE nfcPageBuffer[a]]
    /\ usedBytes' = usedBytes + HeaderLength(rec)
    /\ pc' = "first"
    /\ UNCHANGED <<tag, payload, rec, page, newRecordPtr, mbMe, addedPayload, garbage,
                   badReads, badWrites, safe>>

AppendHeader ==
    /\ pc = "append"
    /\ usedBytes + HeaderLength(rec) < NFC_PAGE_SIZE
    /\ nfcPageBuffer' = [a \in Pages |->
           IF a \in usedBytes .. usedBytes + HeaderLength(rec) - 1
           THEN RecordByte(rec, a - usedBytes + 1) ELSE nfcPageBuffer[a]]
    /\ usedBytes' = usedBytes + HeaderLength(rec)
    /\ pc' = "first"
    /\ UNCHANGED <<tag, payload, rec, page, newRecordPtr, mbMe, addedPayload, garbage,
                   badReads, badWrites, safe>>

\* A header that does not fit goes on in the next page; the rest of the buffer
\* keeps what it held.
Split ==
    LET fits == NFC_PAGE_SIZE - usedBytes
        rest == HeaderLength(rec) - fits
        full == [a \in Pages |-> IF a >= usedBytes THEN RecordByte(rec, a - usedBytes + 1)
                                 ELSE nfcPageBuffer[a]]
    IN
    /\ pc = "append"
    /\ usedBytes < NFC_PAGE_SIZE
    /\ usedBytes + HeaderLength(rec) >= NFC_PAGE_SIZE
    /\ Write(page, full, TRUE, TRUE)
    /\ nfcPageBuffer' = [a \in Pages |-> IF a < rest THEN RecordByte(rec, fits + a + 1) ELSE full[a]]
    /\ page' = page + 1
    /\ usedBytes' = rest
    /\ pc' = "first"
    /\ UNCHANGED <<payload, rec, newRecordPtr, mbMe, addedPayload, garbage, badReads, safe>>

\* usedBytes is 255: byteToCopy, 17, and usedBytes, 246 or 244, wrap round. The
\* whole header goes behind nfcPageBuffer, the page is written back as it was read,
\* and the buffer, with the memory behind it, is filled from the stack. What lies
\* behind it the linker decides; the model assumes that the writer, which keeps its
\* state on the stack, and the transfers do not depend on it.
SplitOutside ==
    LET byteToCopy == (256 + NFC_PAGE_SIZE - usedBytes) % 256 IN
    /\ pc = "append"
    /\ usedBytes >= NFC_PAGE_SIZE
    /\ Write(page, nfcPageBuffer, TRUE, TRUE)
    /\ nfcPageBuffer' = [a \in Pages |-> Stack]
    /\ page' = page + 1
    /\ usedBytes' = (256 + HeaderLength(rec) - byteToCopy) % 256
    /\ pc' = "first"
    /\ UNCHANGED <<payload, rec, newRecordPtr, mbMe, addedPayload, garbage, badReads, safe>>

\* n bytes of the payload of rec, from byte k on, at address a of b, and an end
\* byte behind them where there is room for one and they are the last.
WithPayload(b, a, k, n) ==
    [x \in Pages |->
        IF x \in a .. a + n - 1 THEN RecordByte(rec, HeaderLength(rec) + k + x - a + 1)
        ELSE IF x = a + n /\ k + n = payload[rec] THEN End ELSE b[x]]

\* writeUserPayload: the page of the header. Its result is lost in the loop.
FirstPage ==
    LET room == NFC_PAGE_SIZE - usedBytes
        n    == IF payload[rec] > room THEN room ELSE payload[rec]
    IN
    /\ pc = "first"
    /\ usedBytes < NFC_PAGE_SIZE
    /\ nfcPageBuffer' = WithPayload(nfcPageBuffer, usedBytes, 0, n)
    /\ Write(page, nfcPageBuffer', TRUE, TRUE)
    /\ addedPayload' = n
    /\ pc' = IF n = payload[rec] /\ n < room THEN "idle" ELSE "next"
    /\ UNCHANGED <<payload, rec, page, usedBytes, newRecordPtr, mbMe, garbage, badReads, safe>>

\* When the pointer is behind the page, nothing of the payload goes into it.
FirstPageOutside ==
    /\ pc = "first"
    /\ usedBytes >= NFC_PAGE_SIZE
    /\ Write(page, nfcPageBuffer, TRUE, TRUE)
    /\ addedPayload' = 0
    /\ pc' = "next"
    /\ UNCHANGED <<nfcPageBuffer, payload, rec, page, usedBytes, newRecordPtr, mbMe, garbage,
                   badReads, safe>>

\* The loop: a page of payload, or the end byte alone when the payload has
\* filled the page before.
NextPage ==
    LET left == payload[rec] - addedPayload
        n    == IF left > NFC_PAGE_SIZE THEN NFC_PAGE_SIZE ELSE left
    IN
    /\ pc = "next"
    /\ addedPayload <= payload[rec]
    /\ nfcPageBuffer' = WithPayload(Blank, 0, addedPayload, n)
    /\ Write(page + 1, nfcPageBuffer', pc' = IF left = 0 THEN "idle" ELSE "next", pc' = "idle")
    /\ addedPayload' = IF left = 0 THEN addedPayload ELSE (addedPayload + NFC_PAGE_SIZE) % 256
    /\ page' = page + 1
    /\ UNCHANGED <<payload, rec, usedBytes, newRecordPtr, mbMe, garbage, badReads, safe>>

LastPage ==
    /\ pc = "next"
    /\ addedPayload > payload[rec]
    /\ page' = page + 1
    /\ nfcPageBuffer' = Blank
    /\ pc' = "idle"
    /\ UNCHANGED <<tag, payload, rec, usedBytes, newRecordPtr, mbMe, addedPayload, garbage,
                   badReads, badWrites, safe>>

Next ==
    \/ FirstRecord \/ FindEnd \/ ReadFlags \/ ReadHeader \/ WriteHeader
    \/ ReadLastPage \/ AppendHeader \/ Split \/ SplitOutside
    \/ FirstPage \/ FirstPageOutside \/ NextPage \/ LastPage

Spec == Init /\ [][Next]_vars

-----------------------------------------------------------------------------
(* Properties.                                                             *)

\* Types. Page and payload count stay within their bytes; the place where a header
\* or a payload goes is in the page buffer, or has wrapped round to one far behind
\* it (ndef.c:221), but is never the one next to it.
TypeOK ==
    /\ tag \in [UserMemory -> PageOfBytes]
    /\ nfcPageBuffer \in PageOfBytes
    /\ payload \in Payloads
    /\ rec \in 0 .. 3
    /\ pc \in {"idle", "flags", "readHeader", "writeHeader", "lastPage", "append",
               "first", "next"}
    /\ page \in 0 .. 255
    /\ usedBytes \in 0 .. 255
    /\ pc = "append" => usedBytes \in Pages \cup {255}
    /\ pc = "first" => usedBytes \in Pages \/ usedBytes > NFC_PAGE_SIZE
    /\ newRecordPtr \in 0 .. 255
    /\ mbMe \in Bytes
    /\ addedPayload \in 0 .. 255
    /\ garbage \in [2 .. 3 -> Garbage]
    /\ badReads \in Nat /\ badWrites \in Nat
    /\ safe \in 0 .. 255

\* The end byte behind k records is not the last byte of a page.
EndInPage(k) == (Total(k) + 3) % NFC_PAGE_SIZE # 0

Clean ==
    /\ Faults = 0
    /\ \A r \in 2 .. rec : garbage[r] = 0
    /\ \A k \in 1 .. rec - 1 : EndInPage(k)

\* When a record is done, the tag is the message of all records up to it, its
\* length, flags and end byte right, as long as no transfer failed, the stack held
\* a zero where addRecord adds up, and no record was added to a message whose end
\* byte is the last of a page: the header of that one is lost (SplitOutside).
TagIsMessage ==
    pc = "idle" /\ rec > 0 /\ Clean
        => \A a \in 0 .. Begin(rec + 1) :
              tag[a \div NFC_PAGE_SIZE][a % NFC_PAGE_SIZE] = Message(rec)[a]

\* A record that is added leaves alone the bytes announced before it, whatever
\* is written twice, fails, is announced wrongly or goes to a place that has wrapped
\* round, unless a read fails.
AnnouncedKept ==
    [][rec > 1 /\ badReads' = 0
        => \A p \in UserMemory, x \in Pages :
              Address(p, x) \in 3 .. safe + 1 => tag'[p][x] = tag[p][x]]_vars
===============================================================================
