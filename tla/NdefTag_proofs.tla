----------------------------- MODULE NdefTag_proofs -----------------------------
(***************************************************************************)
(* Proofs about NdefTag for every size of a page and of the tag, every     *)
(* three strings that fit in a message, any number of failing transfers    *)
(* and whatever the stack holds.                                           *)
(*                                                                         *)
(* The invariant follows the writer through the pages: which addresses it  *)
(* has left behind, what they hold, and what the page buffer holds of the  *)
(* page it is at. Positions are always a page and a place in it; that a    *)
(* page is a multiple of its size is used in the first section only.       *)
(***************************************************************************)
EXTENDS NdefTag, TLAPS

-----------------------------------------------------------------------------
(* Addresses.                                                              *)

LEMMA PageSize == NFC_PAGE_SIZE \in Nat /\ NFC_PAGE_SIZE >= 10 /\ NFC_PAGE_SIZE <= 128
BY PageAssumption

\* The places of a page follow one another, and so do the pages.
LEMMA AddressSteps ==
    ASSUME NEW p \in Nat, NEW x \in Pages
    PROVE  /\ Address(p, 0) \in Nat
           /\ Address(p, x) = Address(p, 0) + x
           /\ Address(p + 1, 0) = Address(p, 0) + NFC_PAGE_SIZE
           /\ Address(0, x) = x
           /\ x \in Nat /\ x < NFC_PAGE_SIZE
<1>1. NFC_PAGE_SIZE \in Nat /\ x \in Nat /\ x < NFC_PAGE_SIZE
  BY PageSize DEF Pages
<1>2. p * NFC_PAGE_SIZE \in Nat /\ (p + 1) * NFC_PAGE_SIZE = p * NFC_PAGE_SIZE + NFC_PAGE_SIZE
  BY <1>1
<1>3. QED
  BY <1>1, <1>2 DEF Address

\* A later page has later addresses.
LEMMA AddressOrder ==
    ASSUME NEW p \in Nat, NEW q \in Nat, p < q
    PROVE  Address(p, 0) + NFC_PAGE_SIZE <= Address(q, 0)
<1>1. PICK d \in Nat : q = p + 1 + d
  <2>1. q - p - 1 \in Nat /\ q = p + 1 + (q - p - 1)
    OBVIOUS
  <2>2. QED
    BY <2>1
<1>2. d * NFC_PAGE_SIZE \in Nat
  BY PageSize
<1>3. q * NFC_PAGE_SIZE = p * NFC_PAGE_SIZE + NFC_PAGE_SIZE + d * NFC_PAGE_SIZE
  BY <1>1, PageSize
<1>4. QED
  BY <1>2, <1>3, PageSize DEF Address

\* Every address is a place in a page.
LEMMA AddressSplit ==
    ASSUME NEW a \in Nat
    PROVE  /\ a \div NFC_PAGE_SIZE \in Nat
           /\ a % NFC_PAGE_SIZE \in Pages
           /\ a = Address(a \div NFC_PAGE_SIZE, a % NFC_PAGE_SIZE)
<1>1. NFC_PAGE_SIZE \in Nat /\ NFC_PAGE_SIZE > 0
  BY PageSize
<1>2. /\ a \div NFC_PAGE_SIZE \in Nat
      /\ a % NFC_PAGE_SIZE \in 0 .. NFC_PAGE_SIZE - 1
      /\ a = (a \div NFC_PAGE_SIZE) * NFC_PAGE_SIZE + (a % NFC_PAGE_SIZE)
  BY <1>1
<1>3. QED
  BY <1>2 DEF Address, Pages

\* The pages that a message of less than 256 bytes reaches have small numbers.
LEMMA PageFits ==
    ASSUME NEW p \in Nat, Address(p, 0) <= 513 + 2 * NFC_PAGE_SIZE
    PROVE  p \in 0 .. 255
<1>1. SUFFICES ASSUME p > 255 PROVE FALSE
  OBVIOUS
<1>2. Address(255, 0) + NFC_PAGE_SIZE <= Address(p, 0)
  BY <1>1, AddressOrder
<1>3. Address(255, 0) = 255 * NFC_PAGE_SIZE
  BY PageSize DEF Address
<1>4. PICK a \in Nat : a = Address(p, 0)
  BY PageSize DEF Address
<1>5. 255 * NFC_PAGE_SIZE + NFC_PAGE_SIZE <= a /\ a <= 513 + 2 * NFC_PAGE_SIZE
  BY <1>2, <1>3, <1>4
<1>6. QED
  BY <1>5, PageSize

-----------------------------------------------------------------------------
(* Bytes and records.                                                      *)

LEMMA ByteTyped ==
    ASSUME NEW k \in Kinds, NEW m \in 0 .. 255, NEW n \in 0 .. 255
    PROVE  <<k, m, n>> \in Bytes
BY DEF Bytes

LEMMA BytesTyped ==
    /\ Start \in Bytes /\ End \in Bytes /\ Zero \in Bytes /\ Unknown \in Bytes
    /\ Stack \in Bytes
    /\ \A n \in 0 .. 255 : Length(n) \in Bytes
    /\ \A r \in 1 .. 3, i \in 1 .. 255 : RecordByte(r, i) \in Bytes
    /\ \A r \in 1 .. 3, me \in 0 .. 1 : Flags(r, me) \in Bytes
<1>0. /\ "start" \in Kinds /\ "end" \in Kinds /\ "zero" \in Kinds /\ "length" \in Kinds
      /\ "flags" \in Kinds /\ "unknown" \in Kinds /\ "stack" \in Kinds
      /\ "byte" \in Kinds
      /\ 0 \in 0 .. 255 /\ 1 \in 0 .. 255
  BY DEF Kinds
<1>1. /\ Start \in Bytes /\ End \in Bytes /\ Zero \in Bytes /\ Unknown \in Bytes
      /\ Stack \in Bytes
  <2>1. Start \in Bytes
    <3>1. <<"start", 0, 0>> \in Bytes
      BY <1>0, ByteTyped
    <3>2. QED
      BY <3>1 DEF Start
  <2>2. End \in Bytes
    <3>1. <<"end", 0, 0>> \in Bytes
      BY <1>0, ByteTyped
    <3>2. QED
      BY <3>1 DEF End
  <2>3. Zero \in Bytes
    <3>1. <<"zero", 0, 0>> \in Bytes
      BY <1>0, ByteTyped
    <3>2. QED
      BY <3>1 DEF Zero
  <2>4. Unknown \in Bytes
    <3>1. <<"unknown", 0, 0>> \in Bytes
      BY <1>0, ByteTyped
    <3>2. QED
      BY <3>1 DEF Unknown
  <2>5. Stack \in Bytes
    <3>1. <<"stack", 0, 0>> \in Bytes
      BY <1>0, ByteTyped
    <3>2. QED
      BY <3>1 DEF Stack
  <2>6. QED
    BY <2>1, <2>2, <2>3, <2>4, <2>5
<1>2. ASSUME NEW n \in 0 .. 255 PROVE Length(n) \in Bytes
  <2>1. "length" \in Kinds /\ 0 \in 0 .. 255
    BY <1>0
  <2>2. <<"length", n, 0>> \in Bytes
    BY <2>1, ByteTyped
  <2>3. QED
    BY <2>2 DEF Length
<1>3. ASSUME NEW r \in 0 .. 255, NEW me \in 0 .. 1 PROVE Flags(r, me) \in Bytes
  <2>1. me \in 0 .. 255
    OBVIOUS
  <2>2. QED
    BY <1>0, <2>1, ByteTyped DEF Flags
<1>4. ASSUME NEW r \in 0 .. 255, NEW i \in 0 .. 255 PROVE Byte(r, i) \in Bytes
  <2>1. "byte" \in Kinds
    BY <1>0
  <2>2. QED
    BY <2>1, ByteTyped DEF Byte
<1>5. ASSUME NEW r \in 1 .. 3, NEW i \in 1 .. 255 PROVE RecordByte(r, i) \in Bytes
  <2>1. r \in 0 .. 255 /\ i \in 0 .. 255 /\ Ends(r) \in 0 .. 1
    BY DEF Ends
  <2>2. Flags(r, Ends(r)) \in Bytes
    BY <1>3, <2>1
  <2>3. Byte(r, i) \in Bytes
    BY <1>4, <2>1
  <2>4. QED
    BY <2>2, <2>3 DEF RecordByte
<1>6. ASSUME NEW r \in 1 .. 3, NEW me \in 0 .. 1 PROVE Flags(r, me) \in Bytes
  <2>1. r \in 0 .. 255
    OBVIOUS
  <2>2. QED
    BY <1>3, <2>1
<1>7. QED
  BY <1>1, <1>2, <1>5, <1>6

LEMMA BlankTyped == Blank \in PageOfBytes
BY BytesTyped DEF Blank, PageOfBytes

\* The strings and the records made of them are short.
LEMMA RecordsShort ==
    ASSUME payload \in Payloads, NEW r \in 1 .. 3
    PROVE  /\ payload[r] \in Nat
           /\ payload[r] + NFC_PAGE_SIZE <= 256
           /\ HeaderLength(r) \in 5 .. 7
           /\ RecordLength(r) \in 5 .. 253
<1>1. payload[r] \in 0 .. 256 - NFC_PAGE_SIZE
  BY PayloadAssumption
<1>2. HeaderLength(r) \in 5 .. 7
  BY DEF HeaderLength
<1>3. QED
  BY <1>1, <1>2, PageSize DEF RecordLength

\* A page that is written leaves the tag what it is, a row of pages of bytes.
LEMMA WrittenTyped ==
    ASSUME TypeOK, NEW p, NEW b \in PageOfBytes
    PROVE  Written(p, b) \in [UserMemory -> PageOfBytes]
<1>1. tag \in [UserMemory -> PageOfBytes]
  BY DEF TypeOK
<1>2. \A q \in UserMemory : (IF q = p THEN b ELSE tag[q]) \in PageOfBytes
  BY <1>1
<1>3. QED
  BY <1>2 DEF Written

LEMMA AnnouncedTyped ==
    ASSUME NEW b \in PageOfBytes
    PROVE  Announced(b) \in 0 .. 255
<1>1. 0 \in Pages /\ 1 \in Pages
  BY PageSize DEF Pages
<1>2. b[1][2] \in 0 .. 255
  BY <1>1 DEF Bytes, PageOfBytes
<1>3. QED
  BY <1>2 DEF Announced

LEMMA FirstPageExists == 0 \in UserMemory
BY UserAssumption DEF UserMemory

LEMMA ByteModulo ==
    ASSUME NEW n \in Nat
    PROVE  n % 256 \in 0 .. 255 /\ (n <= 255 => n % 256 = n)
OBVIOUS

LEMMA PageModulo ==
    ASSUME NEW n \in Nat
    PROVE  n % NFC_PAGE_SIZE \in Nat /\ n % NFC_PAGE_SIZE < NFC_PAGE_SIZE
BY PageSize

-----------------------------------------------------------------------------
(* Types.                                                                  *)

Finding == {"flags", "readHeader", "writeHeader", "lastPage", "append"}

\* How far main has come, and how far into the tag: the page is bounded by the
\* length announced, and then by the bytes added since.
Progress ==
    /\ pc \in Finding => /\ rec \in 2 .. 3 /\ Address(page, 0) <= 258
                         /\ usedBytes \in Pages \cup {255}
    /\ pc = "first" => rec \in 1 .. 3 /\ Address(page, 0) <= 258 + NFC_PAGE_SIZE
    /\ pc = "next" => rec \in 1 .. 3
                      /\ Address(page, 0) <= 258 + NFC_PAGE_SIZE + addedPayload

TypeInv == TypeOK /\ Progress

\* The end that is looked for is in a page the length can reach, and its place
\* is right; when it is the last byte of the page before, it has wrapped to 255.
LEMMA EndPlace ==
    ASSUME NEW length \in 0 .. 255
    PROVE  /\ (length + 3) \div NFC_PAGE_SIZE \in 0 .. 255
           /\ Address((length + 3) \div NFC_PAGE_SIZE, 0) <= 258
           /\ \/ /\ UsedBytes(length) = 255 /\ (length + 3) % NFC_PAGE_SIZE = 0
                 /\ Address((length + 3) \div NFC_PAGE_SIZE, 0) = length + 3
              \/ /\ UsedBytes(length) \in Pages
                 /\ Address((length + 3) \div NFC_PAGE_SIZE, UsedBytes(length)) = length + 2
<1> DEFINE q == (length + 3) \div NFC_PAGE_SIZE
           n == (length + 3) % NFC_PAGE_SIZE
<1>1. q \in Nat /\ n \in Pages /\ length + 3 = Address(q, n)
  BY AddressSplit
<1>2. n \in Nat /\ n < NFC_PAGE_SIZE /\ NFC_PAGE_SIZE \in Nat
  BY <1>1, PageSize DEF Pages
<1>3. Address(q, 0) \in Nat /\ length + 3 = Address(q, 0) + n
  BY <1>1, AddressSteps
<1> HIDE DEF q, n
<1>4. Address(q, 0) <= 258
  BY <1>2, <1>3
<1>5. q \in 0 .. 255
  BY <1>1, <1>4, <1>3, PageFits, PageSize
<1>6. CASE n = 0
  <2>1. UsedBytes(length) = 255
    BY <1>6 DEF UsedBytes, n
  <2>2. Address(q, 0) = length + 3
    BY <1>3, <1>6
  <2>3. QED
    BY <1>4, <1>5, <1>6, <2>1, <2>2 DEF q, n
<1>7. CASE n # 0
  <2>1. UsedBytes(length) = n - 1
    BY <1>7 DEF UsedBytes, n
  <2>2. n - 1 \in Pages
    BY <1>2, <1>7 DEF Pages
  <2>3. Address(q, n - 1) = Address(q, 0) + (n - 1)
    BY <1>1, <2>2, AddressSteps
  <2>4. Address(q, n - 1) = length + 2
    BY <1>2, <1>3, <2>3
  <2>5. QED
    BY <1>4, <1>5, <2>1, <2>2, <2>4 DEF q
<1>8. QED
  BY <1>6, <1>7

\* A read leaves a page in the buffer; when it does not fail, the page asked for.
LEMMA ReadTyped ==
    ASSUME TypeOK, NEW p \in Nat, ReadPage(p) \/ ReadFails(p)
    PROVE  /\ nfcPageBuffer' \in PageOfBytes
           /\ badReads' \in Nat
           /\ badReads' = 0 => badReads = 0 /\ p \in UserMemory /\ nfcPageBuffer' = tag[p]
<1>1. /\ badReads \in Nat /\ nfcPageBuffer \in PageOfBytes
      /\ tag \in [UserMemory -> PageOfBytes]
  BY DEF TypeOK
<1>2. CASE ReadPage(p)
  <2>1. p \in UserMemory
    BY <1>2, UserAssumption DEF ReadPage, UserMemory
  <2>2. QED
    BY <1>1, <1>2, <2>1 DEF ReadPage
<1>3. CASE ReadFails(p)
  BY <1>1, <1>3 DEF ReadFails
<1>4. QED
  BY <1>2, <1>3

\* Looking for the end finds where some announced length says it is; the length
\* of the tag, when the read does not fail.
LEMMA EndFoundSomewhere ==
    ASSUME TypeInv, FindEnd
    PROVE  \E length \in 0 .. 255 :
              /\ page' = (length + 3) \div NFC_PAGE_SIZE
              /\ usedBytes' = UsedBytes(length)
              /\ safe' = length
              /\ badReads' = 0 => length = Announced(tag[0])
<1>1. Announced(tag[0]) \in 0 .. 255
  BY AnnouncedTyped, FirstPageExists DEF TypeInv, TypeOK
<1>2. CASE ReadPage(0) /\ safe' = Announced(tag[0])
  BY <1>1, <1>2 DEF FindEnd
<1>3. CASE ReadFails(0) /\ safe' = 0
  <2>1. badReads' # 0
    BY <1>3 DEF ReadFails, TypeInv, TypeOK
  <2>2. QED
    BY <1>3, <2>1 DEF FindEnd
<1>4. QED
  BY <1>2, <1>3 DEF FindEnd

-----------------------------------------------------------------------------
(* The layout of a message.                                                *)

\* The records follow one another, and a byte holds the length of all of them.
LEMMA Layout ==
    ASSUME payload \in Payloads
    PROVE  /\ Begin(1) = 2
           /\ Begin(2) = Begin(1) + RecordLength(1)
           /\ Begin(3) = Begin(2) + RecordLength(2)
           /\ Begin(4) = Begin(3) + RecordLength(3)
           /\ \A r \in 1 .. 4 : Begin(r) \in Nat
           /\ \A k \in 0 .. 3 : Total(k) \in 0 .. 255 /\ Begin(k + 1) = Total(k) + 2
<1>1. /\ RecordLength(1) \in Nat /\ RecordLength(2) \in Nat /\ RecordLength(3) \in Nat
      /\ RecordLength(1) + RecordLength(2) + RecordLength(3) <= 255
  <2>1. payload[1] \in Nat /\ payload[2] \in Nat /\ payload[3] \in Nat
    BY RecordsShort
  <2>2. payload[1] + payload[2] + payload[3] + 19 <= 255
    BY LengthAssumption
  <2>3. QED
    BY <2>1, <2>2 DEF RecordLength, HeaderLength
<1>2. /\ Total(0) = 0 /\ Total(1) = RecordLength(1)
      /\ Total(2) = RecordLength(1) + RecordLength(2)
      /\ Total(3) = RecordLength(1) + RecordLength(2) + RecordLength(3)
  <2>1. Total(0) = 0
    BY DEF Total
  <2>2. Total(1) = RecordLength(1)
    BY DEF Total
  <2>3. Total(2) = RecordLength(1) + RecordLength(2)
    BY DEF Total
  <2>4. Total(3) = RecordLength(1) + RecordLength(2) + RecordLength(3)
    BY DEF Total
  <2>5. QED
    BY <2>1, <2>2, <2>3, <2>4
<1>3. \A k \in 0 .. 3 : k = 0 \/ k = 1 \/ k = 2 \/ k = 3
  OBVIOUS
<1>4. \A k \in 0 .. 3 : Total(k) \in 0 .. 255
  <2>1. \A a, b, c \in Nat : a + b + c <= 255 =>
           a \in 0 .. 255 /\ a + b \in 0 .. 255 /\ a + b + c \in 0 .. 255
    OBVIOUS
  <2>2. /\ RecordLength(1) \in 0 .. 255
        /\ RecordLength(1) + RecordLength(2) \in 0 .. 255
        /\ RecordLength(1) + RecordLength(2) + RecordLength(3) \in 0 .. 255
    <3>1. PICK a, b, c \in Nat :
             a = RecordLength(1) /\ b = RecordLength(2) /\ c = RecordLength(3)
      BY <1>1
    <3>2. a + b + c <= 255
      BY <1>1, <3>1
    <3>3. a \in 0 .. 255 /\ a + b \in 0 .. 255 /\ a + b + c \in 0 .. 255
      BY <2>1, <3>2
    <3>4. QED
      BY <3>1, <3>3
  <2>3. 0 \in 0 .. 255
    OBVIOUS
  <2>4. QED
    BY <1>2, <1>3, <2>2, <2>3
<1>5. \A k \in 0 .. 3 : Begin(k + 1) = Total(k) + 2
  BY <1>4 DEF Begin
<1>6. /\ Begin(1) = Total(0) + 2 /\ Begin(2) = Total(1) + 2
      /\ Begin(3) = Total(2) + 2 /\ Begin(4) = Total(3) + 2
  <2>1. 0 + 1 = 1 /\ 1 + 1 = 2 /\ 2 + 1 = 3 /\ 3 + 1 = 4
    OBVIOUS
  <2>2. Begin(0 + 1) = Total(0) + 2 /\ Begin(1 + 1) = Total(1) + 2
    BY <1>5
  <2>3. Begin(2 + 1) = Total(2) + 2 /\ Begin(3 + 1) = Total(3) + 2
    BY <1>5
  <2>4. QED
    BY <2>1, <2>2, <2>3
<1>7. /\ Begin(1) = 2 /\ Begin(2) = Begin(1) + RecordLength(1)
      /\ Begin(3) = Begin(2) + RecordLength(2) /\ Begin(4) = Begin(3) + RecordLength(3)
  BY <1>1, <1>2, <1>6
<1>8. \A r \in 1 .. 4 : Begin(r) \in Nat
  <2>1. \A r \in 1 .. 4 : r = 1 \/ r = 2 \/ r = 3 \/ r = 4
    OBVIOUS
  <2>2. QED
    BY <1>1, <1>7, <2>1
<1>9. QED
  BY <1>4, <1>5, <1>7, <1>8

\* An address in front of the end byte is that of one byte of one record.
LEMMA SomeRecord ==
    ASSUME payload \in Payloads, NEW k \in 1 .. 3, NEW a \in Nat,
           a >= 2, a < Begin(k + 1)
    PROVE  \E r \in 1 .. k : a \in Begin(r) .. Begin(r + 1) - 1
<1>1. k = 1 \/ k = 2 \/ k = 3
  OBVIOUS
<1>2. CASE k = 1
  BY <1>2, Layout
<1>3. CASE k = 2
  BY <1>3, Layout
<1>4. CASE k = 3
  BY <1>4, Layout
<1>5. QED
  BY <1>1, <1>2, <1>3, <1>4

LEMMA OneRecord ==
    ASSUME payload \in Payloads, NEW r \in 1 .. 3, NEW s \in 1 .. 3, NEW a \in Nat,
           a \in Begin(r) .. Begin(r + 1) - 1, a \in Begin(s) .. Begin(s + 1) - 1
    PROVE  r = s
<1>1. /\ RecordLength(1) \in Nat /\ RecordLength(2) \in Nat /\ RecordLength(3) \in Nat
  BY RecordsShort
<1>2. Begin(r + 1) <= Begin(s) \/ r >= s
  BY <1>1, Layout
<1>3. Begin(s + 1) <= Begin(r) \/ s >= r
  BY <1>1, Layout
<1>4. QED
  BY <1>2, <1>3, Layout

\* What the message says of byte a of record r.
LEMMA RecordInMessage ==
    ASSUME payload \in Payloads, NEW k \in 1 .. 3, NEW r \in 1 .. k, NEW a \in Nat,
           a \in Begin(r) .. Begin(r + 1) - 1
    PROVE  /\ a >= 2 /\ a < Begin(k + 1)
           /\ Message(k)[a] = IF a = Begin(r) THEN Flags(r, IF r = k THEN Ends(r) ELSE 0)
                              ELSE Byte(r, a - Begin(r) + 1)
<1>0. r \in 1 .. 3 /\ RecordLength(1) \in Nat /\ RecordLength(2) \in Nat /\ RecordLength(3) \in Nat
  BY RecordsShort
<1>1. a >= 2 /\ a < Begin(k + 1)
  BY <1>0, Layout
<1> DEFINE s == CHOOSE s \in 1 .. k : a \in Begin(s) .. Begin(s + 1) - 1
<1>2. s = r
  <2>1. s \in 1 .. k /\ a \in Begin(s) .. Begin(s + 1) - 1
    OBVIOUS
  <2>2. QED
    BY <1>0, <2>1, OneRecord
<1>3. Begin(k + 1) \in Nat /\ Begin(r) \in Nat
  BY <1>0, Layout
<1>4. a \in 0 .. Begin(k + 1) /\ a # 0 /\ a # 1 /\ a # Begin(k + 1)
  BY <1>1, <1>3
<1>5. Message(k)[a] = LET i == a - Begin(s) + 1
                      IN  IF i = 1 THEN Flags(s, IF s = k THEN Ends(s) ELSE 0) ELSE Byte(s, i)
  BY <1>4 DEF Message
<1>6. a - Begin(r) + 1 = 1 <=> a = Begin(r)
  BY <1>3
<1>7. QED
  BY <1>1, <1>2, <1>5, <1>6

\* The start bytes and the end byte.
LEMMA MessageEnds ==
    ASSUME payload \in Payloads, NEW k \in 1 .. 3
    PROVE  /\ Begin(k + 1) \in Nat /\ Begin(k + 1) >= 9
           /\ DOMAIN Message(k) = 0 .. Begin(k + 1)
           /\ Message(k)[0] = Start
           /\ Message(k)[1] = Length(Total(k))
           /\ Message(k)[Begin(k + 1)] = End
<1>1. RecordLength(1) \in Nat /\ RecordLength(2) \in Nat /\ RecordLength(3) \in Nat
      /\ RecordLength(1) >= 7
  BY RecordsShort DEF RecordLength, HeaderLength
<1>2. Begin(k + 1) \in Nat /\ Begin(k + 1) >= 9
  BY <1>1, Layout
<1>3. QED
  BY <1>2 DEF Message

LEMMA MessageTyped ==
    ASSUME payload \in Payloads
    PROVE  \A a \in DOMAIN Message(3) : Message(3)[a] \in Bytes
<1>0. 3 + 1 = 4 /\ 3 \in 1 .. 3
  OBVIOUS
<1>1. SUFFICES ASSUME NEW a \in 0 .. Begin(4)
               PROVE  Message(3)[a] \in Bytes
  BY <1>0, MessageEnds
<1>2. CASE a = 0 \/ a = 1 \/ a = Begin(4)
  <2>1. Total(3) \in 0 .. 255
    BY Layout
  <2>2. QED
    <3>1. Length(Total(3)) \in Bytes /\ Start \in Bytes /\ End \in Bytes
      BY <2>1, BytesTyped
    <3>2. QED
      BY <1>0, <1>2, <3>1, MessageEnds
<1>3. CASE a # 0 /\ a # 1 /\ a # Begin(4)
  <2>1. a \in Nat /\ a >= 2 /\ a < Begin(4)
    BY <1>0, <1>1, <1>3, MessageEnds
  <2>2. PICK r \in 1 .. 3 : a \in Begin(r) .. Begin(r + 1) - 1
    BY <1>0, <2>1, SomeRecord
  <2>3. a - Begin(r) + 1 \in 1 .. 255
    <3>1. RecordLength(r) \in 5 .. 253 /\ Begin(r) \in Nat
          /\ Begin(r + 1) = Begin(r) + RecordLength(r)
      BY RecordsShort, Layout
    <3>2. QED
      BY <2>1, <2>2, <3>1
  <2>4. \A me \in 0 .. 1 : Flags(r, me) \in Bytes
    BY BytesTyped
  <2>5. (IF r = 3 THEN Ends(r) ELSE 0) \in 0 .. 1
    BY DEF Ends
  <2>6. a - Begin(r) + 1 # 1 => Byte(r, a - Begin(r) + 1) \in Bytes
    BY <2>3, BytesTyped DEF RecordByte
  <2>7. a # Begin(r) => a - Begin(r) + 1 # 1
    BY <2>1, Layout
  <2>8. QED
    BY <1>0, <2>1, <2>2, <2>4, <2>5, <2>6, <2>7, RecordInMessage
<1>4. QED
  BY <1>2, <1>3

\* One record, seen from its number.
LEMMA LayoutStep ==
    ASSUME payload \in Payloads, NEW k \in 1 .. 3
    PROVE  /\ Begin(k) \in Nat /\ Begin(k) >= 2 /\ (k > 1 => Begin(k) >= 9)
           /\ RecordLength(k) \in Nat /\ payload[k] \in Nat /\ HeaderLength(k) \in 5 .. 7
           /\ RecordLength(k) = HeaderLength(k) + payload[k]
           /\ Begin(k + 1) = Begin(k) + RecordLength(k)
           /\ Begin(k) = Total(k - 1) + 2
           /\ Total(k) = Total(k - 1) + RecordLength(k)
           /\ Total(k) \in 0 .. 255 /\ Total(k - 1) \in 0 .. 255
<1>1. /\ payload[k] \in Nat /\ HeaderLength(k) \in 5 .. 7
      /\ RecordLength(k) = HeaderLength(k) + payload[k]
  BY RecordsShort DEF RecordLength
<1>2. /\ RecordLength(1) \in Nat /\ RecordLength(2) \in Nat /\ RecordLength(3) \in Nat
      /\ RecordLength(1) >= 7
  BY RecordsShort DEF RecordLength, HeaderLength
<1>3. /\ Begin(k) \in Nat /\ Begin(k) >= 2 /\ (k > 1 => Begin(k) >= 9)
      /\ Begin(k + 1) = Begin(k) + RecordLength(k)
  BY <1>2, Layout
<1>4. /\ Total(k) \in 0 .. 255 /\ Begin(k + 1) = Total(k) + 2
  BY Layout
<1>5. /\ Total(k - 1) \in 0 .. 255 /\ Begin(k) = Total(k - 1) + 2
  <2>1. k - 1 \in 0 .. 3 /\ (k - 1) + 1 = k
    OBVIOUS
  <2>2. Total(k - 1) \in 0 .. 255 /\ Begin((k - 1) + 1) = Total(k - 1) + 2
    BY <2>1, Layout
  <2>3. QED
    BY <2>1, <2>2
<1>6. RecordLength(k) \in Nat
  BY <1>1
<1>7. Total(k) = Total(k - 1) + RecordLength(k)
  <2>1. PICK t \in Nat : t = Total(k)
    BY <1>4
  <2>2. PICK s \in Nat : s = Total(k - 1)
    BY <1>5
  <2>3. PICK l \in Nat : l = RecordLength(k)
    BY <1>6
  <2>4. t + 2 = s + 2 + l
    BY <1>3, <1>4, <1>5, <2>1, <2>2, <2>3
  <2>5. t = s + l
    BY <2>4
  <2>6. QED
    BY <2>1, <2>2, <2>3, <2>5
<1>8. QED
  BY <1>1, <1>3, <1>4, <1>5, <1>6, <1>7

\* The last record is in the message byte for byte as it is written.
LEMMA OwnByte ==
    ASSUME payload \in Payloads, NEW k \in 1 .. 3, NEW i \in Nat,
           i >= 1, i <= RecordLength(k)
    PROVE  Message(k)[Begin(k) + i - 1] = RecordByte(k, i)
<1> DEFINE a == Begin(k) + i - 1
<1>1. Begin(k) \in Nat /\ RecordLength(k) \in Nat /\ Begin(k + 1) = Begin(k) + RecordLength(k)
  BY LayoutStep
<1>2. /\ a \in Nat /\ a \in Begin(k) .. Begin(k + 1) - 1 /\ a - Begin(k) + 1 = i
      /\ (a = Begin(k) <=> i = 1)
  BY <1>1
<1> HIDE DEF a
<1>3. k \in 1 .. k
  OBVIOUS
<1>4. Message(k)[a] = IF a = Begin(k) THEN Flags(k, IF k = k THEN Ends(k) ELSE 0)
                      ELSE Byte(k, a - Begin(k) + 1)
  BY <1>2, <1>3, RecordInMessage
<1>5. QED
  BY <1>2, <1>4 DEF RecordByte, a

\* A record that is added changes nothing between the flags of the first record
\* and the end byte it replaces.
LEMMA MessageGrows ==
    ASSUME payload \in Payloads, NEW j \in 1 .. 2, NEW a \in Nat, a >= 3, a < Begin(j + 1)
    PROVE  Message(j + 1)[a] = Message(j)[a]
<1>1. j \in 1 .. 3 /\ j + 1 \in 1 .. 3
  OBVIOUS
<1>2. PICK r \in 1 .. j : a \in Begin(r) .. Begin(r + 1) - 1
  BY <1>1, SomeRecord
<1>3. r \in 1 .. j + 1 /\ r # j + 1 /\ r \in {1, 2}
  OBVIOUS
<1>4. Message(j + 1)[a] = IF a = Begin(r) THEN Flags(r, IF r = j + 1 THEN Ends(r) ELSE 0)
                          ELSE Byte(r, a - Begin(r) + 1)
  BY <1>1, <1>2, <1>3, RecordInMessage
<1>5. Message(j)[a] = IF a = Begin(r) THEN Flags(r, IF r = j THEN Ends(r) ELSE 0)
                      ELSE Byte(r, a - Begin(r) + 1)
  BY <1>1, <1>2, RecordInMessage
<1>6. a = Begin(r) => Ends(r) = 0
  <2>1. r = 1 => a # Begin(r)
    BY Layout
  <2>2. QED
    BY <1>3, <2>1 DEF Ends
<1>7. QED
  BY <1>3, <1>4, <1>5, <1>6

\* Its first three bytes: start, length, and the flags without ME.
LEMMA MessageHead ==
    ASSUME payload \in Payloads, NEW k \in 1 .. 3
    PROVE  /\ Message(k)[0] = Start /\ Message(k)[1] = Length(Total(k))
           /\ Message(k)[2] = Flags(1, IF k = 1 THEN 1 ELSE 0)
<1>1. 1 \in 1 .. k /\ 2 \in Nat
  OBVIOUS
<1>2. Begin(1) = 2 /\ Begin(1 + 1) >= 9 /\ Begin(1 + 1) \in Nat
  BY Layout, MessageEnds
<1>3. 2 \in Begin(1) .. Begin(1 + 1) - 1
  BY <1>2
<1>4. Message(k)[2] = IF 2 = Begin(1) THEN Flags(1, IF 1 = k THEN Ends(1) ELSE 0)
                      ELSE Byte(1, 2 - Begin(1) + 1)
  BY <1>1, <1>3, RecordInMessage
<1>5. Message(k)[2] = Flags(1, IF 1 = k THEN Ends(1) ELSE 0)
  BY <1>2, <1>4
<1>6. Ends(1) = 1
  BY DEF Ends
<1>7. QED
  BY <1>5, <1>6, MessageEnds

-----------------------------------------------------------------------------
LEMMA InitTyped == Init => TypeInv
<1> SUFFICES ASSUME Init PROVE TypeInv
  OBVIOUS
<1>1. tag \in [UserMemory -> PageOfBytes]
  <2>1. \A a \in DOMAIN Message(3) : Message(3)[a] \in Bytes
    BY MessageTyped DEF Init
  <2>2. [p \in UserMemory |-> Blank] \in [UserMemory -> PageOfBytes]
    BY BlankTyped
  <2>3. \A p \in UserMemory : [x \in Pages |->
           IF Address(p, x) \in DOMAIN Message(3) THEN Message(3)[Address(p, x)] ELSE Zero]
           \in PageOfBytes
    BY <2>1, BytesTyped DEF PageOfBytes
  <2>4. QED
    BY <2>2, <2>3 DEF Init
<1>2. 0 \in Pages /\ 0 \in 0 .. 255 /\ 0 \in 0 .. 3
  BY PageSize DEF Pages
<1>3. QED
  BY <1>1, <1>2, BlankTyped, BytesTyped DEF Init, TypeInv, TypeOK, Progress, Finding

LEMMA FirstRecordTyped == ASSUME TypeInv, FirstRecord PROVE TypeInv'
<1>1. nfcPageBuffer' \in PageOfBytes
  <2>1. Length(RecordLength(1)) \in Bytes
    BY RecordsShort, BytesTyped DEF TypeInv, TypeOK
  <2>2. \A a \in 2 .. 1 + HeaderLength(1) : RecordByte(1, a - 1) \in Bytes
    <3>1. \A a \in 2 .. 1 + HeaderLength(1) : a - 1 \in 1 .. 255
      BY DEF HeaderLength
    <3>2. QED
      BY <3>1, BytesTyped
  <2>3. QED
    BY <2>1, <2>2, BytesTyped DEF FirstRecord, PageOfBytes
<1>2. usedBytes' \in Pages /\ usedBytes' \in 0 .. 255
  BY PageSize DEF FirstRecord, HeaderLength, Pages
<1>3. Address(0, 0) = 0
  BY PageSize DEF Address
<1>4. QED
  BY <1>1, <1>2, <1>3, PageSize DEF FirstRecord, TypeInv, TypeOK, Progress, Finding

LEMMA FindEndTyped == ASSUME TypeInv, FindEnd PROVE TypeInv'
<1>1. PICK length \in 0 .. 255 :
         /\ page' = (length + 3) \div NFC_PAGE_SIZE
         /\ usedBytes' = UsedBytes(length)
         /\ safe' = length
         /\ badReads' = 0 => length = Announced(tag[0])
  BY EndFoundSomewhere
<1>2. /\ page' \in 0 .. 255 /\ Address(page', 0) <= 258
      /\ usedBytes' \in Pages \cup {255} /\ usedBytes' \in 0 .. 255
  <2>1. \A u \in Pages \cup {255} : u \in 0 .. 255
    BY PageSize DEF Pages
  <2>2. QED
    BY <1>1, <2>1, EndPlace, ZenonT(60)
<1>3. nfcPageBuffer' \in PageOfBytes /\ badReads' \in Nat
  BY ReadTyped DEF FindEnd, TypeInv
<1>4. QED
  BY <1>1, <1>2, <1>3 DEF FindEnd, TypeInv, TypeOK, Progress, Finding

LEMMA ReadFlagsTyped == ASSUME TypeInv, ReadFlags PROVE TypeInv'
<1>1. nfcPageBuffer' \in PageOfBytes /\ badReads' \in Nat
  BY ReadTyped DEF ReadFlags, TypeInv
<1>2. newRecordPtr' \in {Announced(tag[0]), 0} /\ mbMe' \in {Flags(1, 0), Unknown}
  BY DEF ReadFlags
<1>3. Announced(tag[0]) \in 0 .. 255
  BY AnnouncedTyped, FirstPageExists DEF TypeInv, TypeOK
<1>4. newRecordPtr' \in 0 .. 255 /\ mbMe' \in Bytes
  <2>1. Flags(1, 0) \in Bytes /\ Unknown \in Bytes
    BY BytesTyped
  <2>2. QED
    BY <1>2, <1>3, <2>1
<1>5. QED
  BY <1>1, <1>4 DEF ReadFlags, TypeInv, TypeOK, Progress, Finding

LEMMA ReadHeaderTyped == ASSUME TypeInv, ReadHeader PROVE TypeInv'
<1>1. nfcPageBuffer' \in PageOfBytes /\ badReads' \in Nat
  BY ReadTyped DEF ReadHeader, TypeInv
<1>2. QED
  BY <1>1 DEF ReadHeader, TypeInv, TypeOK, Progress, Finding

LEMMA ReadLastPageTyped == ASSUME TypeInv, ReadLastPage PROVE TypeInv'
<1>1. nfcPageBuffer' \in PageOfBytes /\ badReads' \in Nat
  <2>1. page \in Nat
    BY DEF TypeInv, TypeOK
  <2>2. QED
    BY <2>1, ReadTyped DEF ReadLastPage, TypeInv
<1>2. QED
  BY <1>1 DEF ReadLastPage, TypeInv, TypeOK, Progress, Finding

\* What a step may do to the tag: write a page, or lose it.
LEMMA TagWritten ==
    ASSUME TypeOK, NEW p, NEW b \in PageOfBytes,
           tag' \in {tag, Written(p, b)} \/ tag' = Written(p, b)
    PROVE  tag' \in [UserMemory -> PageOfBytes]
<1>1. tag \in [UserMemory -> PageOfBytes] /\ Written(p, b) \in [UserMemory -> PageOfBytes]
  BY WrittenTyped DEF TypeOK
<1>2. QED
  BY <1>1

LEMMA WriteHeaderTyped == ASSUME TypeInv, WriteHeader PROVE TypeInv'
<1> DEFINE sum == newRecordPtr + garbage[rec] + RecordLength(rec)
<1>1. sum \in Nat
  <2> HIDE DEF sum
  <2>1. rec \in 2 .. 3 /\ newRecordPtr \in Nat
    BY DEF WriteHeader, TypeInv, TypeOK, Progress, Finding
  <2>2. garbage[rec] \in Nat
    <3>1. garbage \in [2 .. 3 -> Garbage]
      BY DEF TypeInv, TypeOK
    <3>2. garbage[rec] \in Garbage
      BY <2>1, <3>1
    <3>3. \A g \in Garbage : g \in Nat
      BY GarbageAssumption
    <3>4. QED
      BY <3>2, <3>3
  <2>3. RecordLength(rec) \in Nat
    BY <2>1, RecordsShort DEF TypeInv, TypeOK
  <2>4. QED
    BY <2>1, <2>2, <2>3 DEF sum
<1>2. Length(sum % 256) \in Bytes
  <2> HIDE DEF sum
  <2>1. sum % 256 \in 0 .. 255
    BY <1>1, ByteModulo
  <2>2. QED
    BY <2>1, BytesTyped
<1>3. nfcPageBuffer' \in PageOfBytes
  <2>1. nfcPageBuffer' = [nfcPageBuffer EXCEPT ![1] = Length(sum % 256), ![2] = mbMe]
    BY DEF WriteHeader
  <2> HIDE DEF sum
  <2>2. nfcPageBuffer \in [Pages -> Bytes] /\ mbMe \in Bytes
    BY DEF TypeInv, TypeOK, PageOfBytes
  <2>3. QED
    BY <1>2, <2>1, <2>2 DEF PageOfBytes
<1>4. tag' \in [UserMemory -> PageOfBytes]
  <2>1. tag' \in {tag, Written(0, nfcPageBuffer')} \/ tag' = Written(0, nfcPageBuffer')
    BY DEF WriteHeader, Write
  <2>2. QED
    BY <1>3, <2>1, TagWritten DEF TypeInv
<1>5. badWrites' \in Nat
  BY DEF WriteHeader, Write, TypeInv, TypeOK
<1>6. QED
  BY <1>3, <1>4, <1>5 DEF WriteHeader, TypeInv, TypeOK, Progress, Finding

LEMMA AppendHeaderTyped == ASSUME TypeInv, AppendHeader PROVE TypeInv'
<1>1. rec \in 2 .. 3 /\ usedBytes \in Nat /\ HeaderLength(rec) \in 5 .. 7
  BY PageSize DEF AppendHeader, TypeInv, TypeOK, Progress, Finding, Pages, HeaderLength
<1>2. nfcPageBuffer' \in PageOfBytes
  <2>1. \A a \in Pages : a \in usedBytes .. usedBytes + HeaderLength(rec) - 1 =>
           a - usedBytes + 1 \in 1 .. 255
    BY <1>1 DEF Pages
  <2>2. \A a \in Pages : a \in usedBytes .. usedBytes + HeaderLength(rec) - 1 =>
           RecordByte(rec, a - usedBytes + 1) \in Bytes
    BY <1>1, <2>1, BytesTyped
  <2>3. nfcPageBuffer \in [Pages -> Bytes]
    BY DEF TypeInv, TypeOK, PageOfBytes
  <2>4. QED
    BY <2>2, <2>3 DEF AppendHeader, PageOfBytes
<1>3. usedBytes' \in Pages /\ usedBytes' \in 0 .. 255
  <2>1. PICK h \in 5 .. 7 : h = HeaderLength(rec)
    BY <1>1
  <2>2. usedBytes' = usedBytes + h /\ usedBytes + h < NFC_PAGE_SIZE
    BY <2>1 DEF AppendHeader
  <2>3. QED
    BY <1>1, <2>2, PageSize DEF Pages
<1>4. Address(page, 0) <= 258 + NFC_PAGE_SIZE
  <2>1. Address(page, 0) <= 258 /\ page \in Nat
    BY DEF AppendHeader, TypeInv, TypeOK, Progress, Finding
  <2>2. Address(page, 0) \in Nat
    BY <2>1, AddressSteps, PageSize DEF Pages
  <2>3. QED
    BY <2>1, <2>2, PageSize
<1>5. QED
  BY <1>1, <1>2, <1>3, <1>4 DEF AppendHeader, TypeInv, TypeOK, Progress, Finding

\* The bytes of a payload are bytes of its record.
LEMMA WithPayloadTyped ==
    ASSUME TypeOK, rec \in 1 .. 3, NEW b \in PageOfBytes, NEW a \in Nat,
           NEW k \in Nat, NEW n \in Nat, k + n <= payload[rec]
    PROVE  WithPayload(b, a, k, n) \in PageOfBytes
<1>1. HeaderLength(rec) \in 5 .. 7 /\ payload[rec] \in Nat /\ payload[rec] <= 246
  <2>1. payload[rec] \in Nat /\ payload[rec] + NFC_PAGE_SIZE <= 256 /\ HeaderLength(rec) \in 5 .. 7
    BY RecordsShort DEF TypeOK
  <2>2. QED
    BY <2>1, PageSize
<1>2. \A x \in Pages : x \in a .. a + n - 1 =>
         HeaderLength(rec) + k + x - a + 1 \in 1 .. 255
  <2>1. SUFFICES ASSUME NEW x \in Nat, x \in a .. a + n - 1
                 PROVE  HeaderLength(rec) + k + x - a + 1 \in 1 .. 255
    BY PageSize DEF Pages
  <2>2. PICK h \in 5 .. 7 : h = HeaderLength(rec)
    BY <1>1
  <2>3. k + n <= 246
    BY <1>1
  <2>4. h + k + x - a + 1 \in 1 .. 255
    BY <2>1, <2>3
  <2>5. QED
    BY <2>2, <2>4
<1>3. \A x \in Pages : x \in a .. a + n - 1 =>
         RecordByte(rec, HeaderLength(rec) + k + x - a + 1) \in Bytes
  BY <1>2, BytesTyped
<1>4. b \in [Pages -> Bytes] /\ End \in Bytes
  BY BytesTyped DEF PageOfBytes
<1>5. QED
  BY <1>3, <1>4 DEF WithPayload, PageOfBytes

LEMMA SplitTyped == ASSUME TypeInv, Split PROVE TypeInv'
<1> DEFINE fits == NFC_PAGE_SIZE - usedBytes
           rest == HeaderLength(rec) - fits
           full == [a \in Pages |-> IF a >= usedBytes
                                    THEN RecordByte(rec, a - usedBytes + 1)
                                    ELSE nfcPageBuffer[a]]
<1>1. /\ rec \in 2 .. 3 /\ usedBytes \in Nat /\ usedBytes < NFC_PAGE_SIZE
      /\ HeaderLength(rec) \in 5 .. 7 /\ page \in Nat /\ Address(page, 0) <= 258
      /\ usedBytes + HeaderLength(rec) >= NFC_PAGE_SIZE
  BY PageSize DEF Split, TypeInv, TypeOK, Progress, Finding, Pages, HeaderLength
<1>2. /\ fits \in 1 .. 7 /\ rest \in Nat /\ rest < HeaderLength(rec) /\ rest \in Pages
      /\ rest \in 0 .. 255
  BY <1>1, PageSize DEF Pages
<1>3. full \in PageOfBytes
  <2>1. \A a \in Pages : a >= usedBytes => a - usedBytes + 1 \in 1 .. 255
    BY <1>1, PageSize DEF Pages
  <2>2. \A a \in Pages : a >= usedBytes => RecordByte(rec, a - usedBytes + 1) \in Bytes
    BY <1>1, <2>1, BytesTyped
  <2>3. nfcPageBuffer \in [Pages -> Bytes]
    BY DEF TypeInv, TypeOK, PageOfBytes
  <2>4. QED
    BY <2>2, <2>3 DEF PageOfBytes
<1>4. /\ Write(page, full, TRUE, TRUE)
      /\ nfcPageBuffer' = [a \in Pages |-> IF a < rest THEN RecordByte(rec, fits + a + 1)
                                           ELSE full[a]]
      /\ page' = page + 1 /\ usedBytes' = rest
  BY DEF Split
<1> HIDE DEF fits, rest, full
<1>5. nfcPageBuffer' \in PageOfBytes
  <2>1. \A a \in Pages : a < rest => fits + a + 1 \in 1 .. 255
    BY <1>1, <1>2, PageSize DEF Pages
  <2>2. \A a \in Pages : a < rest => RecordByte(rec, fits + a + 1) \in Bytes
    BY <1>1, <2>1, BytesTyped
  <2>3. full \in [Pages -> Bytes]
    BY <1>3 DEF PageOfBytes
  <2>4. QED
    BY <1>4, <2>2, <2>3 DEF PageOfBytes
<1>6. tag' \in [UserMemory -> PageOfBytes] /\ badWrites' \in Nat
  <2>1. tag' \in {tag, Written(page, full)} \/ tag' = Written(page, full)
    BY <1>4 DEF Write
  <2>2. badWrites' \in {badWrites, badWrites + 1} /\ badWrites \in Nat
    BY <1>4 DEF Write, TypeInv, TypeOK
  <2>3. QED
    BY <1>3, <2>1, <2>2, TagWritten DEF TypeInv
<1>7. page' \in 0 .. 255 /\ Address(page', 0) <= 258 + NFC_PAGE_SIZE
  <2>1. Address(page + 1, 0) = Address(page, 0) + NFC_PAGE_SIZE /\ Address(page, 0) \in Nat
    BY <1>1, AddressSteps, PageSize DEF Pages
  <2>2. page + 1 \in Nat
    BY <1>1
  <2>3. Address(page + 1, 0) <= 513 + 2 * NFC_PAGE_SIZE
    BY <1>1, <2>1, PageSize
  <2>4. QED
    BY <1>1, <1>4, <2>1, <2>2, <2>3, PageFits, PageSize
<1>8. QED
  BY <1>1, <1>2, <1>4, <1>5, <1>6, <1>7 DEF Split, TypeInv, TypeOK, Progress, Finding

\* A place that has wrapped: 255 becomes one that is still far behind the page.
LEMMA WrappedPlace ==
    ASSUME TypeInv, SplitOutside
    PROVE  /\ rec \in 2 .. 3 /\ usedBytes = 255
           /\ usedBytes' \in 0 .. 255 /\ usedBytes' > NFC_PAGE_SIZE /\ usedBytes' \notin Pages
<1>1. rec \in 2 .. 3 /\ usedBytes \in Pages \cup {255}
  BY DEF SplitOutside, TypeInv, Progress, Finding
<1>2. usedBytes = 255
  <2>1. usedBytes >= NFC_PAGE_SIZE
    BY DEF SplitOutside
  <2>2. QED
    BY <1>1, <2>1, PageSize DEF Pages
<1>3. PICK h \in 5 .. 7 : h = HeaderLength(rec)
  BY <1>1 DEF HeaderLength
<1>4. (256 + NFC_PAGE_SIZE - 255) % 256 = NFC_PAGE_SIZE + 1
  <2>1. 256 + NFC_PAGE_SIZE - 255 = NFC_PAGE_SIZE + 1 /\ NFC_PAGE_SIZE + 1 \in 0 .. 255
    BY PageSize
  <2>2. QED
    BY <2>1, ByteModulo
<1>5. usedBytes' = (256 + h - (NFC_PAGE_SIZE + 1)) % 256
  BY <1>2, <1>3, <1>4 DEF SplitOutside
<1>6. usedBytes' = 255 + h - NFC_PAGE_SIZE
  <2>1. /\ 256 + h - (NFC_PAGE_SIZE + 1) = 255 + h - NFC_PAGE_SIZE
        /\ 255 + h - NFC_PAGE_SIZE \in 0 .. 255
    BY PageSize
  <2>2. QED
    BY <1>5, <2>1, ByteModulo
<1>7. QED
  BY <1>1, <1>2, <1>6, PageSize DEF Pages

LEMMA SplitOutsideTyped == ASSUME TypeInv, SplitOutside PROVE TypeInv'
<1>1. /\ rec \in 2 .. 3 /\ page \in Nat /\ Address(page, 0) <= 258
      /\ nfcPageBuffer \in PageOfBytes
  BY DEF SplitOutside, TypeInv, TypeOK, Progress, Finding
<1>2. usedBytes' \in 0 .. 255 /\ usedBytes' > NFC_PAGE_SIZE
  BY WrappedPlace
<1>3. /\ Write(page, nfcPageBuffer, TRUE, TRUE)
      /\ nfcPageBuffer' = [a \in Pages |-> Stack] /\ page' = page + 1 /\ pc' = "first"
      /\ UNCHANGED <<payload, rec, newRecordPtr, mbMe, addedPayload, garbage, badReads, safe>>
  BY DEF SplitOutside
<1>4. nfcPageBuffer' \in PageOfBytes
  BY <1>3, BytesTyped DEF PageOfBytes
<1>5. tag' \in [UserMemory -> PageOfBytes] /\ badWrites' \in Nat
  <2>1. tag' \in {tag, Written(page, nfcPageBuffer)} \/ tag' = Written(page, nfcPageBuffer)
    BY <1>3 DEF Write
  <2>2. badWrites' \in {badWrites, badWrites + 1} /\ badWrites \in Nat
    BY <1>3 DEF Write, TypeInv, TypeOK
  <2>3. QED
    BY <1>1, <2>1, <2>2, TagWritten DEF TypeInv
<1>6. page' \in 0 .. 255 /\ Address(page', 0) <= 258 + NFC_PAGE_SIZE
  <2>1. Address(page + 1, 0) = Address(page, 0) + NFC_PAGE_SIZE /\ Address(page, 0) \in Nat
    BY <1>1, AddressSteps, PageSize DEF Pages
  <2>2. page + 1 \in Nat
    BY <1>1
  <2>3. Address(page + 1, 0) <= 513 + 2 * NFC_PAGE_SIZE
    BY <1>1, <2>1, PageSize
  <2>4. QED
    BY <1>1, <1>3, <2>1, <2>2, <2>3, PageFits, PageSize
<1>7. QED
  BY <1>1, <1>2, <1>3, <1>4, <1>5, <1>6 DEF TypeInv, TypeOK, Progress, Finding

LEMMA FirstPageTyped == ASSUME TypeInv, FirstPage PROVE TypeInv'
<1> DEFINE room == NFC_PAGE_SIZE - usedBytes
           n == IF payload[rec] > room THEN room ELSE payload[rec]
<1>1. /\ rec \in 1 .. 3 /\ usedBytes \in Nat /\ usedBytes < NFC_PAGE_SIZE /\ page \in Nat
      /\ Address(page, 0) <= 258 + NFC_PAGE_SIZE
  BY PageSize DEF FirstPage, TypeInv, TypeOK, Progress, Finding, Pages
<1>2. payload[rec] \in 0 .. 255
  <2>1. payload \in Payloads
    BY DEF TypeInv, TypeOK
  <2>2. payload[rec] \in Nat /\ payload[rec] + NFC_PAGE_SIZE <= 256
    BY <1>1, <2>1, RecordsShort
  <2>3. QED
    BY <2>2, PageSize
<1>3. n \in 0 .. 255 /\ n <= payload[rec]
  BY <1>1, <1>2, PageSize
<1>4. /\ nfcPageBuffer' = WithPayload(nfcPageBuffer, usedBytes, 0, n)
      /\ Write(page, nfcPageBuffer', TRUE, TRUE)
      /\ addedPayload' = n
      /\ pc' \in {"idle", "next"}
  BY DEF FirstPage
<1> HIDE DEF room, n
<1>5. nfcPageBuffer' \in PageOfBytes
  <2>1. TypeOK /\ nfcPageBuffer \in PageOfBytes
    BY DEF TypeInv, TypeOK
  <2>2. 0 \in Nat /\ n \in Nat /\ 0 + n <= payload[rec]
    BY <1>2, <1>3
  <2>3. WithPayload(nfcPageBuffer, usedBytes, 0, n) \in PageOfBytes
    BY <1>1, <2>1, <2>2, WithPayloadTyped
  <2>4. QED
    BY <1>4, <2>3
<1>6. tag' \in [UserMemory -> PageOfBytes] /\ badWrites' \in Nat
  <2>1. tag' \in {tag, Written(page, nfcPageBuffer')} \/ tag' = Written(page, nfcPageBuffer')
    BY <1>4 DEF Write
  <2>2. badWrites' \in {badWrites, badWrites + 1} /\ badWrites \in Nat
    BY <1>4 DEF Write, TypeInv, TypeOK
  <2>3. QED
    BY <1>5, <2>1, <2>2, TagWritten DEF TypeInv
<1>7. Address(page, 0) <= 258 + NFC_PAGE_SIZE + addedPayload'
  <2>1. Address(page, 0) \in Nat
    BY <1>1, AddressSteps, PageSize DEF Pages
  <2>2. QED
    BY <1>1, <1>3, <1>4, <2>1, PageSize
<1>8. QED
  BY <1>1, <1>3, <1>4, <1>5, <1>6, <1>7 DEF FirstPage, TypeInv, TypeOK, Progress, Finding

LEMMA FirstPageOutsideTyped == ASSUME TypeInv, FirstPageOutside PROVE TypeInv'
<1>1. /\ rec \in 1 .. 3 /\ page \in Nat /\ nfcPageBuffer \in PageOfBytes
      /\ Address(page, 0) <= 258 + NFC_PAGE_SIZE
  BY DEF FirstPageOutside, TypeInv, TypeOK, Progress, Finding
<1>2. /\ Write(page, nfcPageBuffer, TRUE, TRUE) /\ addedPayload' = 0 /\ pc' = "next"
      /\ UNCHANGED <<nfcPageBuffer, payload, rec, page, usedBytes, newRecordPtr, mbMe,
                     garbage, badReads, safe>>
  BY DEF FirstPageOutside
<1>3. tag' \in [UserMemory -> PageOfBytes] /\ badWrites' \in Nat
  <2>1. tag' \in {tag, Written(page, nfcPageBuffer)} \/ tag' = Written(page, nfcPageBuffer)
    BY <1>2 DEF Write
  <2>2. badWrites' \in {badWrites, badWrites + 1} /\ badWrites \in Nat
    BY <1>2 DEF Write, TypeInv, TypeOK
  <2>3. QED
    BY <1>1, <2>1, <2>2, TagWritten DEF TypeInv
<1>4. Address(page, 0) <= 258 + NFC_PAGE_SIZE + addedPayload'
  <2>1. Address(page, 0) \in Nat
    BY <1>1, AddressSteps, PageSize DEF Pages
  <2>2. QED
    BY <1>1, <1>2, <2>1, PageSize
<1>5. QED
  BY <1>1, <1>2, <1>3, <1>4 DEF TypeInv, TypeOK, Progress, Finding

LEMMA NextPageTyped == ASSUME TypeInv, NextPage PROVE TypeInv'
<1> DEFINE left == payload[rec] - addedPayload
           n == IF left > NFC_PAGE_SIZE THEN NFC_PAGE_SIZE ELSE left
<1>1. /\ rec \in 1 .. 3 /\ page \in Nat /\ addedPayload \in 0 .. 255
      /\ Address(page, 0) <= 258 + NFC_PAGE_SIZE + addedPayload
      /\ addedPayload <= payload[rec]
  BY DEF NextPage, TypeInv, TypeOK, Progress, Finding
<1>2. payload[rec] \in Nat /\ payload[rec] + NFC_PAGE_SIZE <= 256
  BY <1>1, RecordsShort DEF TypeInv, TypeOK
<1>3. left \in Nat /\ n \in Nat /\ addedPayload + n <= payload[rec]
  BY <1>1, <1>2, PageSize
<1>4. /\ nfcPageBuffer' = WithPayload(Blank, 0, addedPayload, n)
      /\ addedPayload' = IF left = 0 THEN addedPayload ELSE (addedPayload + NFC_PAGE_SIZE) % 256
      /\ tag' \in {tag, Written(page + 1, nfcPageBuffer')}
         \/ tag' = Written(page + 1, nfcPageBuffer')
      /\ badWrites' \in {badWrites, badWrites + 1}
      /\ pc' = "idle" \/ (pc' = "next" /\ left # 0)
      /\ page' = page + 1
  BY DEF NextPage, Write
<1>5. left # 0 => /\ addedPayload' = addedPayload + NFC_PAGE_SIZE
                  /\ addedPayload + NFC_PAGE_SIZE \in 0 .. 255
  <2>1. left # 0 => addedPayload + NFC_PAGE_SIZE \in 0 .. 255
    BY <1>1, <1>2, PageSize
  <2>2. left # 0 => (addedPayload + NFC_PAGE_SIZE) % 256 = addedPayload + NFC_PAGE_SIZE
    BY <2>1, ByteModulo
  <2>3. QED
    BY <1>4, <2>1, <2>2
<1> HIDE DEF left, n
<1>6. nfcPageBuffer' \in PageOfBytes
  <2>1. TypeOK /\ 0 \in Nat /\ addedPayload \in Nat
    BY <1>1 DEF TypeInv
  <2>2. WithPayload(Blank, 0, addedPayload, n) \in PageOfBytes
    BY <1>1, <1>3, <2>1, WithPayloadTyped, BlankTyped
  <2>3. QED
    BY <1>4, <2>2
<1>7. tag' \in [UserMemory -> PageOfBytes] /\ badWrites' \in Nat
  BY <1>4, <1>6, TagWritten DEF TypeInv, TypeOK
<1>8. /\ page' \in 0 .. 255
      /\ left # 0 => Address(page', 0) <= 258 + NFC_PAGE_SIZE + addedPayload'
  <2>1. Address(page + 1, 0) = Address(page, 0) + NFC_PAGE_SIZE /\ Address(page, 0) \in Nat
    BY <1>1, AddressSteps, PageSize DEF Pages
  <2>2. page + 1 \in Nat
    BY <1>1
  <2>3. Address(page + 1, 0) <= 513 + 2 * NFC_PAGE_SIZE
    BY <1>1, <2>1, PageSize
  <2>4. page + 1 \in 0 .. 255
    BY <2>2, <2>3, PageFits
  <2>5. left # 0 => Address(page + 1, 0) <= 258 + NFC_PAGE_SIZE + (addedPayload + NFC_PAGE_SIZE)
    BY <1>1, <2>1, PageSize
  <2>6. QED
    BY <1>4, <1>5, <2>4, <2>5
<1>9. addedPayload' \in 0 .. 255
  BY <1>1, <1>4, <1>5
<1>10. QED
  BY <1>1, <1>4, <1>6, <1>7, <1>8, <1>9, SMTT(40) DEF NextPage, TypeInv, TypeOK, Progress, Finding

LEMMA LastPageTyped == ASSUME TypeInv, LastPage PROVE TypeInv'
<1>1. page \in Nat /\ addedPayload \in 0 .. 255
      /\ Address(page, 0) <= 258 + NFC_PAGE_SIZE + addedPayload
  BY DEF LastPage, TypeInv, TypeOK, Progress
<1>2. Address(page + 1, 0) = Address(page, 0) + NFC_PAGE_SIZE /\ Address(page, 0) \in Nat
  BY <1>1, AddressSteps, PageSize DEF Pages
<1>3. Address(page + 1, 0) <= 513 + 2 * NFC_PAGE_SIZE /\ page + 1 \in Nat
  BY <1>1, <1>2, PageSize
<1>4. page + 1 \in 0 .. 255
  BY <1>3, PageFits
<1>5. QED
  BY <1>4, BlankTyped DEF LastPage, TypeInv, TypeOK, Progress, Finding

LEMMA NextTyped == TypeInv /\ [Next]_vars => TypeInv'
<1> SUFFICES ASSUME TypeInv, [Next]_vars PROVE TypeInv'
  OBVIOUS
<1>1. CASE UNCHANGED vars
  BY <1>1 DEF vars, TypeInv, TypeOK, Progress, Finding
<1>2. CASE Next
  BY <1>2, FirstRecordTyped, FindEndTyped, ReadFlagsTyped, ReadHeaderTyped,
      WriteHeaderTyped, ReadLastPageTyped, AppendHeaderTyped, SplitTyped,
      SplitOutsideTyped, FirstPageTyped, FirstPageOutsideTyped, NextPageTyped,
      LastPageTyped DEF Next
<1>3. QED
  BY <1>1, <1>2

LEMMA TypeInvariance == Spec => []TypeInv
BY InitTyped, NextTyped, PTL DEF Spec

\* Numbers of pages and counts of payload bytes stay below 256, and the place
\* where a header or a payload goes is in the page buffer or, when it has wrapped
\* round, far behind it, never the one next to it: for every page size and every
\* three strings that make up a short message.
THEOREM TypeCorrect == Spec => []TypeOK
<1>1. TypeInv => TypeOK
  BY DEF TypeInv
<1>2. QED
  BY <1>1, TypeInvariance, PTL
-----------------------------------------------------------------------------
(* What a new record leaves behind.                                        *)

\* The new record goes where the end byte is; 255 when it ends the page before.
EndFound ==
    \/ usedBytes = 255 /\ Address(page, 0) = safe + 3
    \/ usedBytes \in Pages /\ Address(page, usedBytes) = safe + 2

\* Writing b on page p leaves alone what was announced.
Keeps(p, b) ==
    p \in UserMemory =>
        \A x \in Pages : Address(p, x) \in 3 .. safe + 1 => b[x] = tag[p][x]

\* While no read has failed, the page buffer holds the page it is written back
\* to, and the writer is at the end byte or behind it.
Behind ==
    badReads = 0 /\ rec > 1 =>
        /\ pc \in Finding => EndFound
        /\ pc = "writeHeader" => nfcPageBuffer = tag[0]
        /\ pc = "append" => page \in UserMemory /\ nfcPageBuffer = tag[page]
        /\ pc = "first" => /\ usedBytes \in Pages => Address(page, usedBytes) >= safe + 2
                           /\ usedBytes \notin Pages => Address(page, 0) >= safe + 2
                           /\ Keeps(page, nfcPageBuffer)
        /\ pc = "next" => Address(page + 1, 0) >= safe + 2

\* The step that AnnouncedKept allows.
KeptStep ==
    rec > 1 /\ badReads' = 0 =>
        \A p \in UserMemory, x \in Pages :
            Address(p, x) \in 3 .. safe + 1 => tag'[p][x] = tag[p][x]

\* A page that keeps what was announced may be written, or lost.
LEMMA KeepingPage ==
    ASSUME NEW p, NEW b, Keeps(p, b),
           tag' \in {tag, Written(p, b)} \/ tag' = Written(p, b)
    PROVE  \A q \in UserMemory, x \in Pages :
              Address(q, x) \in 3 .. safe + 1 => tag'[q][x] = tag[q][x]
<1>1. CASE tag' = tag
  BY <1>1
<1>2. CASE tag' = Written(p, b)
  <2>1. ASSUME NEW q \in UserMemory, NEW x \in Pages, Address(q, x) \in 3 .. safe + 1
        PROVE  tag'[q][x] = tag[q][x]
    <3>1. tag'[q] = IF q = p THEN b ELSE tag[q]
      BY <1>2 DEF Written
    <3>2. CASE q = p
      BY <2>1, <3>1, <3>2 DEF Keeps
    <3>3. QED
      BY <3>1, <3>2
  <2>2. QED
    BY <2>1
<1>3. QED
  BY <1>1, <1>2

\* A page behind the end byte keeps everything, whatever is written there.
LEMMA PageBehind ==
    ASSUME TypeOK, NEW p \in Nat, NEW b, Address(p, 0) >= safe + 2
    PROVE  Keeps(p, b)
<1>1. safe \in Nat
  BY DEF TypeOK
<1>2. \A x \in Pages : Address(p, x) \in Nat /\ Address(p, x) >= Address(p, 0)
  <2>1. ASSUME NEW x \in Pages PROVE Address(p, x) \in Nat /\ Address(p, x) >= Address(p, 0)
    BY AddressSteps
  <2>2. QED
    BY <2>1
<1>3. Address(p, 0) \in Nat
  BY PageSize, AddressSteps DEF Pages
<1>4. \A x \in Pages : ~(Address(p, x) \in 3 .. safe + 1)
  BY <1>1, <1>2, <1>3
<1>5. QED
  BY <1>4 DEF Keeps

\* A buffer that differs from one that keeps what was announced from the end
\* byte on keeps it too.
LEMMA BufferBehind ==
    ASSUME TypeOK, NEW b, NEW c, Keeps(page, b), usedBytes \in Pages,
           Address(page, usedBytes) >= safe + 2,
           \A x \in Pages : x < usedBytes => c[x] = b[x]
    PROVE  Keeps(page, c)
<1>1. safe \in Nat /\ page \in Nat /\ usedBytes \in Nat
  BY PageSize DEF TypeOK, Pages
<1>2. Address(page, 0) \in Nat /\ Address(page, usedBytes) = Address(page, 0) + usedBytes
  BY <1>1, AddressSteps
<1>3. ASSUME NEW x \in Pages, Address(page, x) \in 3 .. safe + 1
      PROVE  x < usedBytes
  <2>1. x \in Nat /\ Address(page, x) = Address(page, 0) + x
    BY <1>1, AddressSteps
  <2>2. QED
    BY <1>1, <1>2, <1>3, <2>1
<1>4. QED
  BY <1>3 DEF Keeps

\* Failed reads are never forgotten.
LEMMA ReadsCounted ==
    ASSUME TypeInv, Next, badReads' = 0
    PROVE  badReads = 0
<1>1. badReads \in Nat
  BY DEF TypeInv, TypeOK
<1>2. ASSUME NEW p, ReadPage(p) \/ ReadFails(p) PROVE badReads = 0
  BY <1>1, <1>2 DEF ReadPage, ReadFails
<1>3. CASE FindEnd
  BY <1>2, <1>3 DEF FindEnd
<1>4. CASE ReadFlags
  BY <1>2, <1>4 DEF ReadFlags
<1>5. CASE ReadHeader
  BY <1>2, <1>5 DEF ReadHeader
<1>6. CASE ReadLastPage
  BY <1>2, <1>6 DEF ReadLastPage
<1>7. CASE \/ FirstRecord \/ WriteHeader \/ AppendHeader \/ Split \/ SplitOutside
           \/ FirstPage \/ FirstPageOutside \/ NextPage \/ LastPage
  BY <1>7 DEF FirstRecord, WriteHeader, AppendHeader, Split, SplitOutside, FirstPage,
     FirstPageOutside, NextPage, LastPage
<1>8. QED
  BY <1>3, <1>4, <1>5, <1>6, <1>7 DEF Next

LEMMA FindEndBehind == ASSUME TypeInv, Behind, FindEnd PROVE Behind' /\ KeptStep
<1>1. PICK length \in 0 .. 255 :
         /\ page' = (length + 3) \div NFC_PAGE_SIZE
         /\ usedBytes' = UsedBytes(length)
         /\ safe' = length
  BY EndFoundSomewhere
<1>2. EndFound'
  BY <1>1, EndPlace, ZenonT(60) DEF EndFound
<1>3. pc' = "flags" /\ tag' = tag
  BY DEF FindEnd
<1>4. QED
  BY <1>2, <1>3 DEF Behind, KeptStep

LEMMA ReadFlagsBehind == ASSUME TypeInv, Behind, ReadFlags PROVE Behind' /\ KeptStep
<1>1. pc = "flags" /\ pc' = "readHeader" /\ UNCHANGED <<tag, rec, page, usedBytes, safe>>
  BY DEF ReadFlags
<1>2. badReads' = 0 => badReads = 0
  BY ReadsCounted DEF Next
<1>3. QED
  BY <1>1, <1>2 DEF Behind, KeptStep, EndFound, Finding

LEMMA ReadHeaderBehind == ASSUME TypeInv, Behind, ReadHeader PROVE Behind' /\ KeptStep
<1>1. /\ pc = "readHeader" /\ pc' \in {"writeHeader", "lastPage"}
      /\ UNCHANGED <<tag, rec, page, usedBytes, safe>>
  BY DEF ReadHeader
<1>2. badReads' = 0 => badReads = 0
  BY ReadsCounted DEF Next
<1>3. badReads' = 0 => nfcPageBuffer' = tag[0]
  BY ReadTyped DEF ReadHeader, TypeInv
<1>4. QED
  BY <1>1, <1>2, <1>3 DEF Behind, KeptStep, EndFound, Finding

LEMMA ReadLastPageBehind == ASSUME TypeInv, Behind, ReadLastPage PROVE Behind' /\ KeptStep
<1>1. /\ pc = "lastPage" /\ pc' = "append"
      /\ UNCHANGED <<tag, rec, page, usedBytes, safe>>
  BY DEF ReadLastPage
<1>2. badReads' = 0 => badReads = 0
  BY ReadsCounted DEF Next
<1>3. badReads' = 0 => page \in UserMemory /\ nfcPageBuffer' = tag[page]
  <2>1. page \in Nat
    BY DEF TypeInv, TypeOK
  <2>2. QED
    BY <2>1, ReadTyped DEF ReadLastPage, TypeInv
<1>4. QED
  BY <1>1, <1>2, <1>3 DEF Behind, KeptStep, EndFound, Finding

\* The header page is written back with only its bytes 1 and 2 changed.
LEMMA WriteHeaderBehind == ASSUME TypeInv, Behind, WriteHeader PROVE Behind' /\ KeptStep
<1>1. /\ pc = "writeHeader" /\ pc' = "lastPage"
      /\ UNCHANGED <<rec, page, usedBytes, safe, badReads>>
  BY DEF WriteHeader
<1>2. ASSUME rec > 1, badReads = 0 PROVE Keeps(0, nfcPageBuffer')
  <2>1. nfcPageBuffer = tag[0]
    BY <1>1, <1>2 DEF Behind
  <2>2. \A x \in Pages : x # 1 /\ x # 2 => nfcPageBuffer'[x] = nfcPageBuffer[x]
    <3>1. nfcPageBuffer \in [Pages -> Bytes]
      BY DEF TypeInv, TypeOK, PageOfBytes
    <3>2. QED
      BY <3>1 DEF WriteHeader
  <2>3. \A x \in Pages : Address(0, x) = x
    <3>1. ASSUME NEW x \in Pages PROVE Address(0, x) = x
      BY AddressSteps
    <3>2. QED
      BY <3>1
  <2>4. \A x \in Pages : Address(0, x) \in 3 .. safe + 1 => x # 1 /\ x # 2
    BY <2>3 DEF TypeInv, TypeOK
  <2>5. QED
    BY <2>1, <2>2, <2>4 DEF Keeps
<1>3. tag' \in {tag, Written(0, nfcPageBuffer')} \/ tag' = Written(0, nfcPageBuffer')
  BY DEF WriteHeader, Write
<1>4. KeptStep
  BY <1>1, <1>2, <1>3, KeepingPage DEF KeptStep
<1>5. QED
  BY <1>1, <1>4 DEF Behind, EndFound, Finding

\* A header that goes on in the page buffer or splits starts in it.
LEMMA HeaderInPage ==
    ASSUME TypeInv, AppendHeader \/ Split
    PROVE  usedBytes \in Pages
<1>1. usedBytes \in Nat
  BY DEF TypeInv, TypeOK
<1>2. PICK h \in Nat : h = HeaderLength(rec)
  BY DEF HeaderLength
<1>3. usedBytes < NFC_PAGE_SIZE
  <2>1. CASE AppendHeader
    <3>1. usedBytes + h < NFC_PAGE_SIZE
      BY <1>2, <2>1 DEF AppendHeader
    <3>2. QED
      BY <1>1, <1>2, <3>1, PageSize
  <2>2. CASE Split
    BY <2>2 DEF Split
  <2>3. QED
    BY <2>1, <2>2
<1>4. QED
  BY <1>1, <1>3, PageSize DEF Pages

LEMMA AppendHeaderBehind == ASSUME TypeInv, Behind, AppendHeader PROVE Behind' /\ KeptStep
<1>1. /\ pc = "append" /\ pc' = "first" /\ usedBytes \in Pages
      /\ UNCHANGED <<tag, rec, page, safe, badReads>>
  BY HeaderInPage DEF AppendHeader
<1>2. ASSUME rec > 1, badReads = 0
      PROVE  /\ usedBytes' \in Pages /\ Address(page, usedBytes') >= safe + 2
             /\ Keeps(page, nfcPageBuffer')
  <2>1. /\ page \in UserMemory /\ nfcPageBuffer = tag[page]
        /\ Address(page, usedBytes) = safe + 2
    <3>1. EndFound /\ page \in UserMemory /\ nfcPageBuffer = tag[page]
      BY <1>1, <1>2 DEF Behind, Finding
    <3>2. usedBytes # 255
      BY <1>1, PageSize DEF Pages
    <3>3. QED
      BY <3>1, <3>2 DEF EndFound
  <2>2. /\ page \in Nat /\ usedBytes \in Nat /\ safe \in Nat /\ rec \in 2 .. 3
    BY <1>1, PageSize DEF TypeInv, TypeOK, Pages, Progress, Finding
  <2>3. PICK h \in Nat : h = HeaderLength(rec)
    BY DEF HeaderLength
  <2>4. usedBytes' = usedBytes + h /\ usedBytes' \in Pages
    BY <1>1, <2>2, <2>3, PageSize DEF AppendHeader, Pages
  <2>5. Address(page, usedBytes') >= safe + 2
    <3>1. Address(page, usedBytes') = Address(page, 0) + usedBytes'
          /\ Address(page, usedBytes) = Address(page, 0) + usedBytes
          /\ Address(page, 0) \in Nat
      BY <1>1, <2>2, <2>4, AddressSteps
    <3>2. QED
      BY <2>1, <2>2, <2>3, <2>4, <3>1
  <2>6. Keeps(page, nfcPageBuffer)
    BY <2>1 DEF Keeps
  <2>7. \A x \in Pages : x < usedBytes => nfcPageBuffer'[x] = nfcPageBuffer[x]
    <3>1. \A x \in Pages : x < usedBytes => ~(x \in usedBytes .. usedBytes + h - 1)
      BY <2>2, PageSize DEF Pages
    <3>2. QED
      BY <2>3, <3>1 DEF AppendHeader
  <2>8. Address(page, usedBytes) >= safe + 2
    BY <2>1, <2>2
  <2>9. Keeps(page, nfcPageBuffer')
    BY <1>1, <2>6, <2>7, <2>8, BufferBehind DEF TypeInv
  <2>10. QED
    BY <2>4, <2>5, <2>9
<1>3. QED
  BY <1>1, <1>2 DEF Behind, KeptStep, Keeps, Finding

LEMMA SplitBehind == ASSUME TypeInv, Behind, Split PROVE Behind' /\ KeptStep
<1> DEFINE fits == NFC_PAGE_SIZE - usedBytes
           rest == HeaderLength(rec) - fits
           full == [a \in Pages |-> IF a >= usedBytes
                                    THEN RecordByte(rec, a - usedBytes + 1)
                                    ELSE nfcPageBuffer[a]]
<1>1. /\ pc = "append" /\ pc' = "first" /\ usedBytes \in Pages /\ page' = page + 1
      /\ usedBytes' = rest
      /\ Write(page, full, TRUE, TRUE)
      /\ UNCHANGED <<rec, safe, badReads>>
  BY HeaderInPage DEF Split
<1>2. rest \in Pages
  <2>1. rec \in 2 .. 3 /\ usedBytes \in Nat /\ usedBytes < NFC_PAGE_SIZE
        /\ usedBytes + HeaderLength(rec) >= NFC_PAGE_SIZE
    BY PageSize DEF Split, TypeInv, TypeOK, Progress, Finding, Pages
  <2>2. HeaderLength(rec) \in 5 .. 7
    BY <2>1 DEF HeaderLength
  <2>3. QED
    BY <2>1, <2>2, PageSize DEF Pages
<1>3. \A x \in Pages : x < usedBytes => full[x] = nfcPageBuffer[x]
  BY <1>1, PageSize DEF Pages
<1>4. tag' \in {tag, Written(page, full)} \/ tag' = Written(page, full)
  BY <1>1 DEF Write
<1> HIDE DEF fits, rest, full
<1>5. ASSUME rec > 1, badReads = 0
      PROVE  /\ Keeps(page, full)
             /\ Address(page + 1, 0) >= safe + 2
             /\ Address(page + 1, rest) >= safe + 2
  <2>1. /\ page \in UserMemory /\ nfcPageBuffer = tag[page]
        /\ Address(page, usedBytes) = safe + 2
    <3>1. EndFound /\ page \in UserMemory /\ nfcPageBuffer = tag[page]
      BY <1>1, <1>5 DEF Behind, Finding
    <3>2. usedBytes # 255
      BY <1>1, PageSize DEF Pages
    <3>3. QED
      BY <3>1, <3>2 DEF EndFound
  <2>2. page \in Nat /\ page + 1 \in Nat /\ usedBytes \in Nat /\ safe \in Nat
        /\ rest \in Nat /\ usedBytes < NFC_PAGE_SIZE
    BY <1>1, <1>2, PageSize DEF TypeInv, TypeOK, Pages
  <2>3. Keeps(page, nfcPageBuffer)
    BY <2>1 DEF Keeps
  <2>4. Address(page, usedBytes) >= safe + 2
    BY <2>1, <2>2
  <2>5. Keeps(page, full)
    BY <1>1, <1>3, <2>3, <2>4, BufferBehind DEF TypeInv
  <2>6. /\ Address(page, usedBytes) = Address(page, 0) + usedBytes
        /\ Address(page + 1, 0) = Address(page, 0) + NFC_PAGE_SIZE
        /\ Address(page + 1, rest) = Address(page + 1, 0) + rest
        /\ Address(page, 0) \in Nat
    BY <1>1, <1>2, <2>2, AddressSteps
  <2>7. QED
    BY <2>1, <2>2, <2>5, <2>6, PageSize
<1>6. KeptStep
  BY <1>1, <1>4, <1>5, KeepingPage DEF KeptStep
<1>7. ASSUME rec > 1, badReads = 0
      PROVE  Keeps(page, nfcPageBuffer)'
  <2>1. page + 1 \in Nat /\ safe \in Nat /\ Address(page + 1, 0) \in Nat
    <3>1. page \in Nat /\ page + 1 \in Nat /\ safe \in Nat
      BY DEF TypeInv, TypeOK
    <3>2. QED
      BY <3>1, PageSize, AddressSteps DEF Pages
  <2>2. \A x \in Pages : ~(Address(page + 1, x) \in 3 .. safe + 1)
    <3>1. ASSUME NEW x \in Pages PROVE ~(Address(page + 1, x) \in 3 .. safe + 1)
      <4>1. x \in Nat /\ Address(page + 1, x) = Address(page + 1, 0) + x
        BY <2>1, AddressSteps
      <4>2. QED
        BY <1>5, <1>7, <2>1, <4>1
    <3>2. QED
      BY <3>1
  <2>3. QED
    BY <1>1, <2>2 DEF Keeps
<1>8. QED
  BY <1>1, <1>5, <1>6, <1>7 DEF Behind, Finding

LEMMA SplitOutsideBehind == ASSUME TypeInv, Behind, SplitOutside PROVE Behind' /\ KeptStep
<1>1. /\ pc = "append" /\ pc' = "first" /\ page' = page + 1
      /\ UNCHANGED <<rec, safe, badReads>>
      /\ tag' \in {tag, Written(page, nfcPageBuffer)} \/ tag' = Written(page, nfcPageBuffer)
  BY DEF SplitOutside, Write
<1>2. usedBytes = 255 /\ usedBytes' \notin Pages
  BY WrappedPlace
<1>3. page \in Nat /\ page + 1 \in Nat /\ safe \in Nat
  BY DEF TypeInv, TypeOK
<1>4. ASSUME rec > 1, badReads = 0
      PROVE  Keeps(page, nfcPageBuffer) /\ Address(page + 1, 0) >= safe + 2
  <2>1. EndFound /\ nfcPageBuffer = tag[page]
    BY <1>1, <1>4 DEF Behind, Finding
  <2>2. Address(page, 0) = safe + 3
    BY <1>2, <2>1, PageSize DEF EndFound, Pages
  <2>3. Keeps(page, nfcPageBuffer)
    BY <2>1 DEF Keeps
  <2>4. Address(page + 1, 0) = Address(page, 0) + NFC_PAGE_SIZE
    BY <1>3, AddressSteps, PageSize DEF Pages
  <2>5. QED
    BY <1>3, <2>2, <2>3, <2>4, PageSize
<1>5. KeptStep
  BY <1>1, <1>4, KeepingPage DEF KeptStep
<1>6. ASSUME rec > 1, badReads = 0
      PROVE  Keeps(page, nfcPageBuffer)'
  <2>1. Address(page + 1, 0) \in Nat
    BY <1>3, PageSize, AddressSteps DEF Pages
  <2>2. \A x \in Pages : ~(Address(page + 1, x) \in 3 .. safe + 1)
    <3>1. ASSUME NEW x \in Pages PROVE ~(Address(page + 1, x) \in 3 .. safe + 1)
      <4>1. x \in Nat /\ Address(page + 1, x) = Address(page + 1, 0) + x
        BY <1>3, AddressSteps
      <4>2. QED
        BY <1>3, <1>4, <1>6, <2>1, <4>1
    <3>2. QED
      BY <3>1
  <2>3. QED
    BY <1>1, <2>2 DEF Keeps
<1>7. QED
  BY <1>1, <1>2, <1>4, <1>5, <1>6 DEF Behind, Finding

LEMMA FirstPageBehind == ASSUME TypeInv, Behind, FirstPage PROVE Behind' /\ KeptStep
<1>1. /\ pc = "first" /\ pc' \in {"idle", "next"} /\ usedBytes \in Pages
      /\ UNCHANGED <<rec, page, usedBytes, safe, badReads>>
      /\ tag' \in {tag, Written(page, nfcPageBuffer')} \/ tag' = Written(page, nfcPageBuffer')
  <2>1. usedBytes \in Pages
    BY PageSize DEF FirstPage, TypeInv, TypeOK, Pages
  <2>2. QED
    BY <2>1 DEF FirstPage, Write
<1>2. PICK n \in Nat : nfcPageBuffer' = WithPayload(nfcPageBuffer, usedBytes, 0, n)
  <2>1. rec \in 1 .. 3 /\ payload \in Payloads
    BY <1>1 DEF TypeInv, TypeOK, Progress
  <2>2. payload[rec] \in Nat
    BY <2>1, RecordsShort
  <2>3. NFC_PAGE_SIZE - usedBytes \in Nat
    BY <1>1, PageSize DEF Pages
  <2>4. QED
    BY <2>2, <2>3 DEF FirstPage
<1>3. ASSUME rec > 1, badReads = 0
      PROVE  Keeps(page, nfcPageBuffer') /\ Address(page + 1, 0) >= safe + 2
  <2>1. Address(page, usedBytes) >= safe + 2 /\ Keeps(page, nfcPageBuffer)
    BY <1>1, <1>3 DEF Behind
  <2>2. usedBytes \in Nat /\ usedBytes < NFC_PAGE_SIZE /\ safe \in Nat /\ page \in Nat
    BY <1>1, PageSize DEF TypeInv, TypeOK, Pages
  <2>3. \A x \in Pages : x < usedBytes => nfcPageBuffer'[x] = nfcPageBuffer[x]
    <3>1. \A x \in Pages : x < usedBytes => ~(x \in usedBytes .. usedBytes + n - 1)
                                            /\ ~(x = usedBytes + n)
      BY <2>2, PageSize DEF Pages
    <3>2. QED
      BY <1>2, <3>1 DEF WithPayload
  <2>4. Keeps(page, nfcPageBuffer')
    BY <1>1, <2>1, <2>3, BufferBehind DEF TypeInv
  <2>5. /\ Address(page, usedBytes) = Address(page, 0) + usedBytes
        /\ Address(page + 1, 0) = Address(page, 0) + NFC_PAGE_SIZE
        /\ Address(page, 0) \in Nat
    BY <1>1, <2>2, AddressSteps
  <2>6. QED
    BY <2>1, <2>2, <2>4, <2>5, PageSize
<1>4. KeptStep
  BY <1>1, <1>3, KeepingPage DEF KeptStep
<1>5. QED
  BY <1>1, <1>3, <1>4 DEF Behind, Finding

LEMMA FirstPageOutsideBehind ==
    ASSUME TypeInv, Behind, FirstPageOutside
    PROVE  Behind' /\ KeptStep
<1>1. /\ pc = "first" /\ pc' = "next" /\ UNCHANGED <<rec, page, safe, badReads>>
      /\ tag' \in {tag, Written(page, nfcPageBuffer)} \/ tag' = Written(page, nfcPageBuffer)
  BY DEF FirstPageOutside, Write
<1>2. usedBytes \notin Pages /\ page \in Nat /\ safe \in Nat
  BY PageSize DEF FirstPageOutside, TypeInv, TypeOK, Pages
<1>3. ASSUME rec > 1, badReads = 0
      PROVE  Keeps(page, nfcPageBuffer) /\ Address(page + 1, 0) >= safe + 2
  <2>1. Address(page, 0) >= safe + 2 /\ Keeps(page, nfcPageBuffer)
    BY <1>1, <1>2, <1>3 DEF Behind
  <2>2. Address(page + 1, 0) = Address(page, 0) + NFC_PAGE_SIZE /\ Address(page, 0) \in Nat
    BY <1>2, AddressSteps, PageSize DEF Pages
  <2>3. QED
    BY <1>2, <2>1, <2>2, PageSize
<1>4. KeptStep
  BY <1>1, <1>3, KeepingPage DEF KeptStep
<1>5. QED
  BY <1>1, <1>3, <1>4 DEF Behind, Finding

LEMMA NextPageBehind == ASSUME TypeInv, Behind, NextPage PROVE Behind' /\ KeptStep
<1>1. /\ pc = "next" /\ pc' \in {"idle", "next"} /\ page' = page + 1
      /\ UNCHANGED <<rec, safe, badReads>>
      /\ \/ tag' \in {tag, Written(page + 1, nfcPageBuffer')}
         \/ tag' = Written(page + 1, nfcPageBuffer')
  BY DEF NextPage, Write
<1>2. page \in Nat /\ page + 1 \in Nat /\ safe \in Nat
  BY DEF TypeInv, TypeOK
<1>3. ASSUME rec > 1, badReads = 0
      PROVE  /\ Keeps(page + 1, nfcPageBuffer')
             /\ Address(page + 1 + 1, 0) >= safe + 2
  <2>1. Address(page + 1, 0) >= safe + 2
    BY <1>1, <1>3 DEF Behind
  <2>2. Keeps(page + 1, nfcPageBuffer')
    BY <1>2, <2>1, PageBehind DEF TypeInv
  <2>3. /\ Address(page + 1 + 1, 0) = Address(page + 1, 0) + NFC_PAGE_SIZE
        /\ Address(page + 1, 0) \in Nat
    BY <1>2, AddressSteps, PageSize DEF Pages
  <2>4. QED
    BY <1>2, <2>1, <2>2, <2>3, PageSize
<1>4. KeptStep
  BY <1>1, <1>3, KeepingPage DEF KeptStep
<1>5. QED
  BY <1>1, <1>3, <1>4 DEF Behind, Finding

LEMMA BehindInductive == TypeInv /\ Behind /\ [Next]_vars => Behind' /\ (KeptStep \/ UNCHANGED vars)
<1> SUFFICES ASSUME TypeInv, Behind, [Next]_vars
             PROVE  Behind' /\ (KeptStep \/ UNCHANGED vars)
  OBVIOUS
<1>1. CASE UNCHANGED vars
  BY <1>1 DEF vars, Behind, EndFound, Keeps, Written
<1>2. CASE FirstRecord
  <2>1. rec' = 1 /\ rec = 0
    BY <1>2 DEF FirstRecord
  <2>2. QED
    BY <2>1 DEF Behind, KeptStep
<1>3. CASE LastPage
  <2>1. pc' = "idle" /\ tag' = tag
    BY <1>3 DEF LastPage
  <2>2. QED
    BY <2>1 DEF Behind, KeptStep, Finding
<1>4. QED
  BY <1>1, <1>2, <1>3, FindEndBehind, ReadFlagsBehind, ReadHeaderBehind, ReadLastPageBehind,
     WriteHeaderBehind, AppendHeaderBehind, SplitBehind, SplitOutsideBehind, FirstPageBehind,
     FirstPageOutsideBehind, NextPageBehind
  DEF Next

LEMMA BehindInvariance == Spec => []Behind
<1>1. Init => Behind
  BY DEF Init, Behind
<1>2. QED
  BY <1>1, BehindInductive, TypeInvariance, PTL DEF Spec

\* A record that is added writes over no byte that was announced before it, for
\* every page size, any strings and any transfers that fail to write, also when its
\* place has wrapped round, as long as the reads that tell where the end is worked.
THEOREM AnnouncedStays == Spec => AnnouncedKept
<1>1. TypeInv /\ Behind /\ [Next]_vars =>
         [rec > 1 /\ badReads' = 0
            => \A p \in UserMemory, x \in Pages :
                  Address(p, x) \in 3 .. safe + 1 => tag'[p][x] = tag[p][x]]_vars
  BY BehindInductive DEF KeptStep
<1>2. QED
  BY <1>1, TypeInvariance, BehindInvariance, PTL DEF Spec, AnnouncedKept
-----------------------------------------------------------------------------
(* The message grows.                                                      *)

\* The pages t hold the message of k records up to address m, which is not
\* included; all of it, up to the end byte.
Upto(t, k, m) ==
    \A p \in UserMemory, x \in Pages :
        Address(p, x) < m => t[p][x] = Message(k)[Address(p, x)]

Whole(t, k) ==
    /\ Begin(k + 1) < Address(UserPages, 0)
    /\ Upto(t, k, Begin(k + 1) + 1)

\* The buffer b holds what the message has on page p, up to place u.
Held(b, p, u, k) == \A x \in Pages : x < u => b[x] = Message(k)[Address(p, x)]

\* The header of record k ends in front of place u of page p, in the buffer b.
HeaderDone(t, b, p, u, k) ==
    /\ Address(p, u) = Begin(k) + HeaderLength(k)
    /\ Upto(t, k, Address(p, 0))
    /\ Held(b, p, u, k)

\* n bytes of the payload are in front of page p; the end byte is when n is more.
PayloadDone(t, p, n, k) ==
    \/ /\ n <= payload[k]
       /\ Address(p, 0) = Begin(k) + HeaderLength(k) + n
       /\ Upto(t, k, Address(p, 0))
    \/ n > payload[k] /\ Whole(t, k)

\* While record k is being written, and when it is done.
Grown(k) ==
    /\ pc = "idle" => Whole(tag, k)
    /\ pc \in {"flags", "readHeader", "writeHeader"} => Whole(tag, k - 1)
    /\ pc \in {"readHeader", "writeHeader"} =>
           newRecordPtr = Total(k - 1) /\ mbMe = Flags(1, 0)
    /\ pc \in {"lastPage", "append"} => Upto(tag, k, Begin(k))
    /\ pc \in Finding => safe = Total(k - 1) /\ usedBytes # 255
    /\ pc = "first" => usedBytes \in Pages /\ HeaderDone(tag, nfcPageBuffer, page, usedBytes, k)
    /\ pc = "next" => PayloadDone(tag, page + 1, addedPayload, k)

Growing == Clean => \A k \in 1 .. 3 : rec = k => Grown(k)

\* The strings do not change, so the message they make up does not either.
LEMMA SameMessage ==
    ASSUME payload' = payload, NEW k
    PROVE  /\ Total(k)' = Total(k) /\ Begin(k)' = Begin(k) /\ Message(k)' = Message(k)
<1>1. Total(k)' = Total(k)
  BY DEF Total, RecordLength
<1>2. ASSUME NEW r PROVE Begin(r)' = Begin(r)
  BY DEF Begin, Total, RecordLength
<1>3. Message(k)' = Message(k)
  BY DEF Message, Begin, Total, RecordLength
<1>4. QED
  BY <1>1, <1>2, <1>3

LEMMA SameGrown ==
    ASSUME payload' = payload, NEW k,
           pc' = "idle" => Whole(tag', k),
           pc' \in {"flags", "readHeader", "writeHeader"} => Whole(tag', k - 1),
           pc' \in {"readHeader", "writeHeader"} =>
               newRecordPtr' = Total(k - 1) /\ mbMe' = Flags(1, 0),
           pc' \in {"lastPage", "append"} => Upto(tag', k, Begin(k)),
           pc' \in Finding => safe' = Total(k - 1) /\ usedBytes' # 255,
           pc' = "first" => usedBytes' \in Pages /\ HeaderDone(tag', nfcPageBuffer', page', usedBytes', k),
           pc' = "next" => PayloadDone(tag', page' + 1, addedPayload', k)
    PROVE  Grown(k)'
<1>1. ASSUME NEW j PROVE /\ Total(j)' = Total(j) /\ Begin(j)' = Begin(j)
                         /\ Message(j)' = Message(j)
  BY SameMessage
<1>2. ASSUME NEW j, Whole(tag', j) PROVE Whole(tag, j)'
  BY <1>1, <1>2 DEF Whole, Upto
<1>3. Upto(tag', k, Begin(k)) => Upto(tag, k, Begin(k))'
  BY <1>1 DEF Upto
<1>4. HeaderDone(tag', nfcPageBuffer', page', usedBytes', k)
         => HeaderDone(tag, nfcPageBuffer, page, usedBytes, k)'
  BY <1>1 DEF HeaderDone, Held, Upto
<1>5. PayloadDone(tag', page' + 1, addedPayload', k)
         => PayloadDone(tag, page + 1, addedPayload, k)'
  <2>1. Whole(tag', k) => Whole(tag, k)'
    BY <1>2
  <2>2. QED
    BY <1>1, <2>1 DEF PayloadDone, Upto
<1>6. QED
  BY <1>1, <1>2, <1>3, <1>4, <1>5 DEF Grown, Finding

\* Nothing that has gone wrong is forgotten.
LEMMA StaysClean ==
    ASSUME TypeInv, Next, Clean'
    PROVE  /\ Clean /\ badReads = 0 /\ badReads' = 0 /\ badWrites = 0 /\ badWrites' = 0
           /\ payload' = payload /\ \A j \in 1 .. rec' - 1 : EndInPage(j)
<1>1. /\ badReads \in Nat /\ badWrites \in Nat /\ rec \in 0 .. 3
  BY DEF TypeInv, TypeOK
<1>2. badReads' \in {badReads, badReads + 1} /\ badWrites' \in {badWrites, badWrites + 1}
  BY DEF Next, FirstRecord, FindEnd, ReadFlags, ReadHeader, WriteHeader, ReadLastPage,
         AppendHeader, Split, SplitOutside, FirstPage, FirstPageOutside, NextPage, LastPage,
         ReadPage, ReadFails, Write
<1>3. badReads' = 0 /\ badWrites' = 0 /\ badReads = 0 /\ badWrites = 0
  <2>1. badReads' + badWrites' = 0
    BY DEF Clean, Faults
  <2>2. badReads' \in Nat /\ badWrites' \in Nat
    BY <1>1, <1>2
  <2>3. badReads' = 0 /\ badWrites' = 0
    <3>1. \A a, b \in Nat : a + b = 0 => a = 0 /\ b = 0
      OBVIOUS
    <3>2. QED
      BY <2>1, <2>2, <3>1
  <2>4. QED
    BY <1>1, <1>2, <2>3
<1>4. /\ rec' \in {rec, rec + 1}
      /\ UNCHANGED <<payload, garbage>>
  <2>1. CASE FirstRecord
    BY <2>1 DEF FirstRecord
  <2>2. QED
    BY <2>1 DEF Next, FindEnd, ReadFlags, ReadHeader, WriteHeader, ReadLastPage,
         AppendHeader, Split, SplitOutside, FirstPage, FirstPageOutside, NextPage, LastPage
<1>5. \A j \in 1 .. rec' - 1 : EndInPage(j)
  <2>1. ASSUME NEW j \in 1 .. rec' - 1 PROVE EndInPage(j)
    <3>1. EndInPage(j)'
      BY DEF Clean
    <3>2. QED
      BY <1>4, <3>1, SameMessage DEF EndInPage
  <2>2. QED
    BY <2>1
<1>6. Clean
  <2>1. \A r \in 2 .. rec : r \in 2 .. rec'
    BY <1>1, <1>4
  <2>2. \A r \in 2 .. rec' : garbage[r] = 0
    BY <1>4 DEF Clean
  <2>3. \A j \in 1 .. rec - 1 : EndInPage(j)
    <3>1. \A j \in 1 .. rec - 1 : j \in 1 .. rec' - 1
      <4>1. PICK m \in Nat : m = rec
        BY <1>1
      <4>2. CASE rec' = m
        BY <4>1, <4>2
      <4>3. CASE rec' = m + 1
        BY <4>1, <4>3
      <4>4. rec' = m \/ rec' = m + 1
        BY <1>4, <4>1
      <4>5. QED
        BY <4>2, <4>3, <4>4
    <3>2. \A j \in 1 .. rec' - 1 : EndInPage(j)
      BY <1>5
    <3>3. QED
      BY <3>1, <3>2
  <2>4. QED
    BY <1>3, <2>1, <2>2, <2>3 DEF Clean, Faults
<1>7. QED
  BY <1>3, <1>4, <1>5, <1>6

\* A smaller part of a message.
LEMMA UptoLess ==
    ASSUME NEW t, NEW k, NEW m \in Nat, NEW n \in Nat, n <= m, Upto(t, k, m)
    PROVE  Upto(t, k, n)
<1>1. \A p \in UserMemory, x \in Pages : Address(p, x) \in Nat
  <2>1. ASSUME NEW p \in UserMemory, NEW x \in Pages PROVE Address(p, x) \in Nat
    <3>1. p \in Nat
      BY UserAssumption DEF UserMemory
    <3>2. QED
      BY <3>1, AddressSteps
  <2>2. QED
    BY <2>1
<1>2. QED
  BY <1>1 DEF Upto

\* A page that is the next one of the message, up to m.
LEMMA UptoPage ==
    ASSUME NEW k, NEW p \in UserMemory, NEW b, NEW m \in Nat,
           Upto(tag, k, Address(p, 0)), m <= Address(p + 1, 0),
           \A x \in Pages : Address(p, x) < m => b[x] = Message(k)[Address(p, x)]
    PROVE  Upto(Written(p, b), k, m)
<1>0. p \in Nat
  BY UserAssumption DEF UserMemory
<1> SUFFICES ASSUME NEW q \in UserMemory, NEW x \in Pages, Address(q, x) < m
             PROVE  Written(p, b)[q][x] = Message(k)[Address(q, x)]
  BY DEF Upto
<1>1. q \in Nat /\ Written(p, b)[q] = IF q = p THEN b ELSE tag[q]
  BY UserAssumption DEF UserMemory, Written
<1>2. /\ Address(q, x) = Address(q, 0) + x /\ x \in Nat /\ x < NFC_PAGE_SIZE
      /\ Address(q, 0) \in Nat
  BY <1>1, AddressSteps
<1>3. Address(p, 0) \in Nat /\ Address(p + 1, 0) = Address(p, 0) + NFC_PAGE_SIZE
  BY <1>0, AddressSteps, PageSize DEF Pages
<1>4. CASE q = p
  BY <1>1, <1>4
<1>5. CASE q < p
  <2>1. Address(q, 0) + NFC_PAGE_SIZE <= Address(p, 0)
    BY <1>0, <1>1, <1>5, AddressOrder
  <2>2. Address(q, x) < Address(p, 0)
    BY <1>2, <1>3, <2>1, PageSize
  <2>3. tag[q][x] = Message(k)[Address(q, x)]
    BY <2>2 DEF Upto
  <2>4. QED
    BY <1>0, <1>1, <1>5, <2>3
<1>6. CASE q > p
  <2>1. Address(p, 0) + NFC_PAGE_SIZE <= Address(q, 0)
    BY <1>0, <1>1, <1>6, AddressOrder
  <2>2. QED
    BY <1>2, <1>3, <2>1, PageSize
<1>7. QED
  BY <1>0, <1>1, <1>4, <1>5, <1>6

\* n bytes of the payload from byte j on are where the message has them, and so
\* is the end byte when they are the last.
LEMMA PayloadBytes ==
    ASSUME payload \in Payloads, NEW k \in 1 .. 3, rec = k, NEW p \in Nat, NEW u \in Pages,
           NEW j \in Nat, NEW n \in Nat, j + n <= payload[k], NEW b,
           Address(p, u) = Begin(k) + HeaderLength(k) + j,
           Held(b, p, u, k),
           NEW x \in Pages, x < u + n \/ (x = u + n /\ j + n = payload[k])
    PROVE  WithPayload(b, u, j, n)[x] = Message(k)[Address(p, x)]
<1>1. /\ x \in Nat /\ u \in Nat
      /\ Address(p, x) = Address(p, 0) + x /\ Address(p, u) = Address(p, 0) + u
      /\ Address(p, 0) \in Nat
  BY AddressSteps
<1>2. PICK h \in Nat : h = HeaderLength(k)
  BY LayoutStep
<1>3. /\ Begin(k) \in Nat /\ payload[k] \in Nat
      /\ RecordLength(k) = h + payload[k] /\ Begin(k + 1) = Begin(k) + (h + payload[k])
  BY <1>2, LayoutStep
<1>4. WithPayload(b, u, j, n)[x] =
         IF x \in u .. u + n - 1 THEN RecordByte(k, h + j + x - u + 1)
         ELSE IF x = u + n /\ j + n = payload[k] THEN End ELSE b[x]
  BY <1>2 DEF WithPayload
<1>5. CASE x < u
  BY <1>1, <1>4, <1>5 DEF Held
<1>6. CASE x >= u /\ x < u + n
  <2> DEFINE i == h + j + x - u + 1
  <2>1. i \in Nat /\ i >= 1 /\ i <= RecordLength(k)
    BY <1>1, <1>2, <1>3, <1>6
  <2>2. Address(p, x) = Begin(k) + i - 1
    BY <1>1, <1>2, <1>3
  <2> HIDE DEF i
  <2>3. Message(k)[Address(p, x)] = RecordByte(k, i)
    BY <2>1, <2>2, OwnByte
  <2>4. x \in u .. u + n - 1
    BY <1>1, <1>6
  <2>5. QED
    BY <1>4, <2>3, <2>4 DEF i
<1>7. CASE x = u + n /\ j + n = payload[k]
  <2>1. Address(p, x) = Begin(k + 1)
    BY <1>1, <1>2, <1>3, <1>7
  <2>2. ~(x \in u .. u + n - 1)
    BY <1>1, <1>7
  <2>3. QED
    BY <1>4, <1>7, <2>1, <2>2, MessageEnds
<1>8. QED
  BY <1>1, <1>5, <1>6, <1>7

\* A whole message tells its length and its first flags.
LEMMA HeadOfWhole ==
    ASSUME TypeInv, NEW k \in 1 .. 3, Whole(tag, k)
    PROVE  /\ tag[0][0] = Start /\ Announced(tag[0]) = Total(k)
           /\ tag[0][2] = Flags(1, IF k = 1 THEN 1 ELSE 0)
<1>1. payload \in Payloads
  BY DEF TypeInv, TypeOK
<1>2. 0 \in UserMemory /\ 0 \in Pages /\ 1 \in Pages /\ 2 \in Pages
  BY PageSize, FirstPageExists DEF Pages
<1>3. \A x \in Pages : Address(0, x) = x
  <2>1. ASSUME NEW x \in Pages PROVE Address(0, x) = x
    BY AddressSteps
  <2>2. QED
    BY <2>1
<1>4. Begin(k + 1) \in Nat /\ Begin(k + 1) >= 9
  BY <1>1, MessageEnds
<1>5. tag[0][0] = Message(k)[0] /\ tag[0][1] = Message(k)[1] /\ tag[0][2] = Message(k)[2]
  BY <1>2, <1>3, <1>4 DEF Whole, Upto
<1>6. tag[0][0] = Start /\ tag[0][1] = Length(Total(k))
      /\ tag[0][2] = Flags(1, IF k = 1 THEN 1 ELSE 0)
  BY <1>1, <1>5, MessageHead
<1>7. Announced(tag[0]) = Total(k)
  <2>1. tag[0][1][1] = "length" /\ tag[0][1][2] = Total(k)
    BY <1>6 DEF Length
  <2>2. QED
    BY <1>6, <2>1 DEF Announced
<1>8. QED
  BY <1>6, <1>7

LEMMA FirstRecordGrows ==
    ASSUME TypeInv, FirstRecord, Clean', NEW k \in 1 .. 3, rec' = k
    PROVE  Grown(k)'
<1>1. /\ k = 1 /\ payload' = payload /\ pc' = "first" /\ page' = 0 /\ usedBytes' = 9
      /\ usedBytes' \in Pages /\ tag' = tag
  BY PageSize DEF FirstRecord, HeaderLength, Pages
<1>2. payload \in Payloads /\ 0 \in Nat
  BY DEF TypeInv, TypeOK
<1>3. /\ Begin(1) = 2 /\ HeaderLength(1) = 7 /\ Total(1) = RecordLength(1)
      /\ RecordLength(1) \in Nat /\ RecordLength(1) >= 7
  BY <1>2, Layout, RecordsShort DEF HeaderLength, RecordLength, Total
<1>4. \A x \in Pages : x \in Nat /\ Address(0, x) = x
  <2>1. ASSUME NEW x \in Pages PROVE x \in Nat /\ Address(0, x) = x
    BY AddressSteps
  <2>2. QED
    BY <2>1
<1>5. Address(0, 9) = Begin(1) + HeaderLength(1)
  BY <1>3, PageSize DEF Address
<1>6. Upto(tag', 1, Address(0, 0))
  <2>1. ASSUME NEW p \in UserMemory, NEW x \in Pages PROVE ~(Address(p, x) < Address(0, 0))
    <3>1. p \in Nat
      BY UserAssumption DEF UserMemory
    <3>2. Address(p, x) \in Nat
      BY <3>1, AddressSteps
    <3>3. Address(0, 0) = 0
      BY PageSize DEF Address
    <3>4. QED
      BY <3>2, <3>3
  <2>2. QED
    BY <2>1 DEF Upto
<1>7. ASSUME NEW x \in Pages, x < 9 PROVE nfcPageBuffer'[x] = Message(1)[Address(0, x)]
  <2>1. nfcPageBuffer'[x] = CASE x = 0 -> Start
                              [] x = 1 -> Length(RecordLength(1))
                              [] x \in 2 .. 8 -> RecordByte(1, x - 1)
                              [] OTHER -> Zero
    BY <1>3 DEF FirstRecord
  <2>2. CASE x = 0 \/ x = 1
    BY <1>2, <1>3, <1>4, <2>1, <2>2, MessageHead
  <2>3. CASE x >= 2
    <3>1. x - 1 \in Nat /\ x - 1 >= 1 /\ x - 1 <= RecordLength(1)
      BY <1>3, <1>4, <1>7, <2>3
    <3>2. Message(1)[Begin(1) + (x - 1) - 1] = RecordByte(1, x - 1)
      BY <1>2, <3>1, OwnByte
    <3>3. Begin(1) + (x - 1) - 1 = x
      BY <1>3, <1>4
    <3>4. nfcPageBuffer'[x] = RecordByte(1, x - 1)
      BY <1>4, <1>7, <2>1, <2>3
    <3>5. QED
      BY <1>4, <3>2, <3>3, <3>4
  <2>4. QED
    BY <1>4, <2>2, <2>3
<1>8. HeaderDone(tag', nfcPageBuffer', page', usedBytes', k)
  BY <1>1, <1>5, <1>6, <1>7 DEF HeaderDone, Held
<1>9. QED
  BY <1>1, <1>8, SameGrown DEF Finding

LEMMA FindEndGrows ==
    ASSUME TypeInv, Growing, FindEnd, Clean', NEW k \in 1 .. 3, rec' = k
    PROVE  Grown(k)'
<1>1. /\ Clean /\ badReads' = 0 /\ payload' = payload
  BY StaysClean DEF Next
<1>2. /\ pc = "idle" /\ pc' = "flags" /\ tag' = tag /\ rec = k - 1 /\ k - 1 \in 1 .. 3
  BY DEF FindEnd
<1>3. Whole(tag, k - 1)
  BY <1>1, <1>2 DEF Growing, Grown
<1>4. safe' = Announced(tag[0]) /\ usedBytes' = UsedBytes(Announced(tag[0]))
  BY <1>1, EndFoundSomewhere
<1>5. Announced(tag[0]) = Total(k - 1)
  BY <1>2, <1>3, HeadOfWhole
<1>6. usedBytes' # 255
  <2>1. k - 1 \in 1 .. rec' - 1
    BY <1>2
  <2>2. (Total(k - 1) + 3) % NFC_PAGE_SIZE # 0
    BY <2>1, StaysClean DEF Next, EndInPage
  <2>3. Total(k - 1) \in 0 .. 255
    BY LayoutStep DEF TypeInv, TypeOK
  <2>4. UsedBytes(Total(k - 1)) \in Pages
    BY <2>2, <2>3, EndPlace
  <2>5. QED
    BY <1>4, <1>5, <2>4, PageSize DEF Pages
<1>7. QED
  BY <1>1, <1>2, <1>3, <1>4, <1>5, <1>6, SameGrown DEF Finding

LEMMA ReadFlagsGrows ==
    ASSUME TypeInv, Growing, ReadFlags, Clean', NEW k \in 1 .. 3, rec' = k
    PROVE  Grown(k)'
<1>1. /\ Clean /\ badReads = 0 /\ badReads' = 0 /\ payload' = payload
  BY StaysClean DEF Next
<1>2. /\ pc = "flags" /\ pc' = "readHeader" /\ UNCHANGED <<tag, safe, usedBytes>> /\ rec = k
      /\ k - 1 \in 1 .. 3
  BY DEF ReadFlags, TypeInv, Progress, Finding
<1>3. Whole(tag, k - 1) /\ safe = Total(k - 1) /\ usedBytes # 255
  BY <1>1, <1>2 DEF Growing, Grown, Finding
<1>4. /\ tag[0][0] = Start /\ Announced(tag[0]) = Total(k - 1)
      /\ tag[0][2][1] = "flags"
  BY <1>2, <1>3, HeadOfWhole DEF Flags
<1>5. newRecordPtr' = Total(k - 1) /\ mbMe' = Flags(1, 0)
  <2>1. ~ReadFails(0)
    BY <1>1 DEF ReadFails
  <2>2. QED
    BY <1>4, <2>1 DEF ReadFlags
<1>6. QED
  BY <1>1, <1>2, <1>3, <1>5, SameGrown DEF Finding

LEMMA ReadHeaderGrows ==
    ASSUME TypeInv, Growing, ReadHeader, Clean', NEW k \in 1 .. 3, rec' = k
    PROVE  Grown(k)'
<1>1. /\ Clean /\ badReads = 0 /\ badReads' = 0 /\ payload' = payload
  BY StaysClean DEF Next
<1>2. /\ pc = "readHeader" /\ UNCHANGED <<tag, safe, usedBytes, newRecordPtr, mbMe>>
      /\ rec = k
  BY DEF ReadHeader
<1>3. pc' = "writeHeader"
  <2>1. ~ReadFails(0)
    BY <1>1 DEF ReadFails
  <2>2. QED
    BY <2>1 DEF ReadHeader
<1>4. /\ Whole(tag, k - 1) /\ safe = Total(k - 1) /\ usedBytes # 255
      /\ newRecordPtr = Total(k - 1) /\ mbMe = Flags(1, 0)
  BY <1>1, <1>2 DEF Growing, Grown, Finding
<1>5. QED
  BY <1>1, <1>2, <1>3, <1>4, SameGrown DEF Finding

LEMMA ReadLastPageGrows ==
    ASSUME TypeInv, Growing, ReadLastPage, Clean', NEW k \in 1 .. 3, rec' = k
    PROVE  Grown(k)'
<1>1. /\ Clean /\ payload' = payload
  BY StaysClean DEF Next
<1>2. pc = "lastPage" /\ pc' = "append" /\ UNCHANGED <<tag, safe, usedBytes>> /\ rec = k
  BY DEF ReadLastPage
<1>3. Upto(tag, k, Begin(k)) /\ safe = Total(k - 1) /\ usedBytes # 255
  BY <1>1, <1>2 DEF Growing, Grown, Finding
<1>4. QED
  BY <1>1, <1>2, <1>3, SameGrown DEF Finding

\* The header gets the length with the new record, and the flags without ME.
LEMMA WriteHeaderGrows ==
    ASSUME TypeInv, Behind, Growing, WriteHeader, Clean', NEW k \in 1 .. 3, rec' = k
    PROVE  Grown(k)'
<1>1. /\ Clean /\ badReads = 0 /\ badWrites = 0 /\ badWrites' = 0 /\ payload' = payload
  BY StaysClean DEF Next
<1>2. /\ pc = "writeHeader" /\ pc' = "lastPage" /\ UNCHANGED <<safe, usedBytes>> /\ rec = k
      /\ k \in 2 .. 3 /\ payload \in Payloads
  BY DEF WriteHeader, TypeInv, TypeOK, Progress, Finding
<1>3. /\ Whole(tag, k - 1) /\ safe = Total(k - 1) /\ usedBytes # 255
      /\ newRecordPtr = Total(k - 1) /\ mbMe = Flags(1, 0)
  BY <1>1, <1>2 DEF Growing, Grown, Finding
<1>4. nfcPageBuffer = tag[0]
  BY <1>1, <1>2 DEF Behind
<1>5. tag' = Written(0, nfcPageBuffer')
  BY <1>1 DEF WriteHeader, Write
<1>6. nfcPageBuffer' = [nfcPageBuffer EXCEPT ![1] = Length(Total(k)), ![2] = Flags(1, 0)]
  <2>1. garbage[k] = 0
    BY <1>1, <1>2 DEF Clean
  <2>2. /\ Total(k - 1) \in Nat /\ RecordLength(k) \in Nat /\ Total(k) \in 0 .. 255
        /\ Total(k) = Total(k - 1) + RecordLength(k)
    BY <1>2, LayoutStep
  <2>3. newRecordPtr + garbage[rec] + RecordLength(rec) = Total(k)
    <3>1. Total(k - 1) + 0 + RecordLength(k) = Total(k - 1) + RecordLength(k)
      BY <2>2
    <3>2. QED
      BY <1>2, <1>3, <2>1, <2>2, <3>1
  <2>4. Total(k) % 256 = Total(k)
    BY <2>2, ByteModulo
  <2>5. QED
    BY <1>3, <2>3, <2>4 DEF WriteHeader
<1>7. Upto(tag', k, Begin(k))
  <2> SUFFICES ASSUME NEW p \in UserMemory, NEW x \in Pages, Address(p, x) < Begin(k)
               PROVE  tag'[p][x] = Message(k)[Address(p, x)]
    BY DEF Upto
  <2>0. p \in Nat
    BY UserAssumption DEF UserMemory
  <2>1. /\ Address(p, x) \in Nat /\ x \in Nat /\ Address(0, x) = x
        /\ Address(p, x) = Address(p, 0) + x /\ Address(p, 0) \in Nat
    BY <2>0, AddressSteps
  <2>2. Begin(k) \in Nat /\ k - 1 \in 1 .. 2 /\ (k - 1) + 1 = k
    BY <1>2, LayoutStep
  <2>3. tag'[p] = IF p = 0 THEN nfcPageBuffer' ELSE tag[p]
    BY <1>5 DEF Written
  <2>4. \A y \in Pages : nfcPageBuffer'[y] = IF y = 2 THEN Flags(1, 0)
                                             ELSE IF y = 1 THEN Length(Total(k)) ELSE tag[0][y]
    <3>1. nfcPageBuffer \in [Pages -> Bytes]
      BY DEF TypeInv, TypeOK, PageOfBytes
    <3>2. QED
      BY <1>4, <1>6, <3>1
  <2>5. tag[p][x] = Message(k - 1)[Address(p, x)]
    <3>1. Address(p, x) < Begin((k - 1) + 1) + 1
      BY <2>1, <2>2
    <3>2. QED
      BY <1>3, <3>1 DEF Whole, Upto
  <2>6. CASE p = 0 /\ x = 1
    BY <1>2, <2>1, <2>3, <2>4, <2>6, MessageHead
  <2>7. CASE p = 0 /\ x = 2
    BY <1>2, <2>1, <2>3, <2>4, <2>7, MessageHead
  <2>8. CASE p = 0 /\ x = 0
    <3>1. tag'[p][x] = tag[p][x] /\ Address(p, x) = 0
      BY <2>1, <2>3, <2>4, <2>8
    <3>2. QED
      BY <1>2, <2>2, <2>5, <3>1, MessageHead
  <2>9. CASE Address(p, x) >= 3
    <3>1. tag'[p][x] = tag[p][x]
      BY <2>1, <2>3, <2>4, <2>9
    <3>2. Message((k - 1) + 1)[Address(p, x)] = Message(k - 1)[Address(p, x)]
      BY <1>2, <2>1, <2>2, <2>9, MessageGrows
    <3>3. QED
      BY <2>2, <2>5, <3>1, <3>2
  <2>10. p # 0 => Address(p, x) >= 3
    <3>1. p # 0 => Address(0, 0) + NFC_PAGE_SIZE <= Address(p, 0)
      BY <2>0, AddressOrder
    <3>2. Address(0, 0) = 0
      BY PageSize DEF Address
    <3>3. QED
      BY <2>1, <3>1, <3>2, PageSize
  <2>11. QED
    BY <2>1, <2>6, <2>7, <2>8, <2>9, <2>10
<1>8. QED
  BY <1>1, <1>2, <1>3, <1>7, SameGrown DEF Finding

\* Where the header of an added record goes: behind what the message holds up
\* to the end byte of the records before it.
LEMMA AtTheEnd ==
    ASSUME TypeInv, Behind, Growing, Clean, badReads = 0, pc = "append",
           NEW k \in 1 .. 3, rec = k
    PROVE  /\ page \in UserMemory /\ page \in Nat /\ nfcPageBuffer = tag[page]
           /\ usedBytes \in Pages /\ usedBytes \in Nat /\ usedBytes < NFC_PAGE_SIZE
           /\ Begin(k) \in Nat /\ Address(page, 0) \in Nat
           /\ Address(page, 0) + usedBytes = Begin(k)
           /\ Address(page + 1, 0) = Address(page, 0) + NFC_PAGE_SIZE
           /\ Upto(tag, k, Begin(k)) /\ Upto(tag, k, Address(page, 0))
           /\ \A x \in Pages : x < usedBytes => nfcPageBuffer[x] = Message(k)[Address(page, x)]
<1>1. /\ payload \in Payloads /\ usedBytes \in Pages /\ rec > 1 /\ page \in Nat
  <2>1. usedBytes # 255
    BY DEF Growing, Grown, Finding
  <2>2. QED
    BY <2>1 DEF TypeInv, TypeOK, Progress, Finding
<1>2. EndFound /\ page \in UserMemory /\ nfcPageBuffer = tag[page]
  BY <1>1 DEF Behind, Finding
<1>3. Upto(tag, k, Begin(k)) /\ safe = Total(k - 1)
  BY DEF Growing, Grown, Finding
<1>4. usedBytes \in Nat /\ usedBytes < NFC_PAGE_SIZE /\ usedBytes # 255
  BY <1>1, PageSize DEF Pages
<1>5. Address(page, usedBytes) = safe + 2
  BY <1>2, <1>4 DEF EndFound
<1>6. Begin(k) \in Nat /\ Address(page, usedBytes) = Begin(k)
  <2>1. Begin(k) \in Nat /\ Begin(k) = Total(k - 1) + 2
    BY <1>1, LayoutStep
  <2>2. QED
    BY <1>3, <1>5, <2>1
<1>7. /\ Address(page, 0) \in Nat /\ Address(page, usedBytes) = Address(page, 0) + usedBytes
      /\ Address(page + 1, 0) = Address(page, 0) + NFC_PAGE_SIZE
  BY <1>1, AddressSteps
<1>8. Upto(tag, k, Address(page, 0))
  <2>1. Address(page, 0) <= Begin(k)
    BY <1>4, <1>6, <1>7
  <2>2. QED
    BY <1>3, <1>6, <1>7, <2>1, UptoLess
<1>9. ASSUME NEW x \in Pages, x < usedBytes
      PROVE  nfcPageBuffer[x] = Message(k)[Address(page, x)]
  <2>1. x \in Nat /\ Address(page, x) = Address(page, 0) + x
    BY <1>1, AddressSteps
  <2>2. Address(page, x) < Begin(k)
    BY <1>4, <1>6, <1>7, <1>9, <2>1
  <2>3. QED
    BY <1>2, <1>3, <2>2 DEF Upto
<1>10. QED
  BY <1>1, <1>2, <1>3, <1>4, <1>6, <1>7, <1>8, <1>9

LEMMA AppendHeaderGrows ==
    ASSUME TypeInv, Behind, Growing, AppendHeader, Clean', NEW k \in 1 .. 3, rec' = k
    PROVE  Grown(k)'
<1>1. /\ Clean /\ badReads = 0 /\ payload' = payload
  BY StaysClean DEF Next
<1>2. /\ pc = "append" /\ pc' = "first" /\ UNCHANGED <<tag, page>> /\ rec = k
      /\ payload \in Payloads
  BY DEF AppendHeader, TypeInv, TypeOK
<1>3. /\ page \in UserMemory /\ page \in Nat
      /\ usedBytes \in Pages /\ usedBytes \in Nat
      /\ Begin(k) \in Nat /\ Address(page, 0) \in Nat
      /\ Address(page, 0) + usedBytes = Begin(k)
      /\ Upto(tag, k, Address(page, 0))
      /\ \A x \in Pages : x < usedBytes => nfcPageBuffer[x] = Message(k)[Address(page, x)]
  BY <1>1, <1>2, AtTheEnd
<1>4. PICK h \in 5 .. 7 : h = HeaderLength(k)
  BY <1>2, LayoutStep
<1>5. /\ usedBytes' = usedBytes + h /\ usedBytes' \in Pages /\ usedBytes + h < NFC_PAGE_SIZE
      /\ nfcPageBuffer' = [a \in Pages |->
             IF a \in usedBytes .. usedBytes + h - 1
             THEN RecordByte(k, a - usedBytes + 1) ELSE nfcPageBuffer[a]]
  <2>1. /\ usedBytes' = usedBytes + h
        /\ nfcPageBuffer' = [a \in Pages |->
               IF a \in usedBytes .. usedBytes + h - 1
               THEN RecordByte(k, a - usedBytes + 1) ELSE nfcPageBuffer[a]]
    BY <1>2, <1>4 DEF AppendHeader
  <2>2. usedBytes + h < NFC_PAGE_SIZE
    BY <1>2, <1>4 DEF AppendHeader
  <2>3. usedBytes + h \in Pages
    BY <1>3, <1>4, <2>2, PageSize DEF Pages
  <2>4. QED
    BY <2>1, <2>2, <2>3
<1>6. Address(page, usedBytes + h) = Begin(k) + HeaderLength(k)
  <2>1. Address(page, usedBytes + h) = Address(page, 0) + (usedBytes + h)
    BY <1>3, <1>5, AddressSteps
  <2>2. QED
    BY <1>3, <1>4, <2>1
<1>7. ASSUME NEW x \in Pages, x < usedBytes + h
      PROVE  nfcPageBuffer'[x] = Message(k)[Address(page, x)]
  <2>1. x \in Nat /\ Address(page, x) = Address(page, 0) + x
    BY <1>3, AddressSteps
  <2>2. CASE x < usedBytes
    BY <1>3, <1>5, <2>1, <2>2
  <2>3. CASE x >= usedBytes
    <3>1. PICK i \in Nat : i = x - usedBytes + 1
      BY <1>3, <2>1, <2>3
    <3>2. i >= 1 /\ i <= h /\ Begin(k) + i - 1 = Address(page, x)
      BY <1>3, <1>7, <2>1, <2>3, <3>1
    <3>3. h <= RecordLength(k)
      BY <1>2, <1>4, LayoutStep
    <3>4. i <= RecordLength(k)
      BY <1>2, <3>2, <3>3, LayoutStep
    <3>5. Message(k)[Address(page, x)] = RecordByte(k, i)
      BY <1>2, <3>2, <3>4, OwnByte
    <3>6. x \in usedBytes .. usedBytes + h - 1
      BY <1>3, <1>7, <2>1, <2>3
    <3>7. QED
      BY <1>5, <3>1, <3>5, <3>6
  <2>4. QED
    BY <1>3, <2>1, <2>2, <2>3
<1>8. HeaderDone(tag', nfcPageBuffer', page', usedBytes', k)
  BY <1>2, <1>3, <1>5, <1>6, <1>7 DEF HeaderDone, Held
<1>9. QED
  BY <1>1, <1>2, <1>5, <1>8, SameGrown DEF Finding

\* Nothing is split outside the page buffer, nothing written behind it.
LEMMA OutsideGrows ==
    ASSUME TypeInv, Growing, SplitOutside \/ FirstPageOutside, Clean', NEW k \in 1 .. 3, rec' = k
    PROVE  FALSE
<1>1. Clean
  BY StaysClean DEF Next
<1>2. rec = k
  BY DEF SplitOutside, FirstPageOutside
<1>3. CASE SplitOutside
  BY <1>1, <1>2, <1>3, WrappedPlace DEF SplitOutside, Growing, Grown, Finding
<1>4. CASE FirstPageOutside
  <2>1. usedBytes \in Pages
    BY <1>1, <1>2, <1>4 DEF FirstPageOutside, Growing, Grown
  <2>2. QED
    BY <1>4, <2>1, PageSize DEF FirstPageOutside, Pages
<1>5. QED
  BY <1>3, <1>4

LEMMA SplitGrows ==
    ASSUME TypeInv, Behind, Growing, Split, Clean', NEW k \in 1 .. 3, rec' = k
    PROVE  Grown(k)'
<1> DEFINE fits == NFC_PAGE_SIZE - usedBytes
           rest == HeaderLength(rec) - fits
           full == [a \in Pages |-> IF a >= usedBytes
                                    THEN RecordByte(rec, a - usedBytes + 1)
                                    ELSE nfcPageBuffer[a]]
<1>1. /\ Clean /\ badReads = 0 /\ badWrites = 0 /\ badWrites' = 0 /\ payload' = payload
  BY StaysClean DEF Next
<1>2. /\ pc = "append" /\ pc' = "first" /\ rec = k /\ page' = page + 1 /\ usedBytes' = rest
      /\ usedBytes + HeaderLength(rec) >= NFC_PAGE_SIZE
      /\ tag' = Written(page, full)
      /\ nfcPageBuffer' = [a \in Pages |-> IF a < rest THEN RecordByte(rec, fits + a + 1)
                                           ELSE full[a]]
      /\ payload \in Payloads
  BY <1>1 DEF Split, Write, TypeInv, TypeOK
<1>3. /\ page \in UserMemory /\ page \in Nat
      /\ usedBytes \in Pages /\ usedBytes \in Nat /\ usedBytes < NFC_PAGE_SIZE
      /\ Begin(k) \in Nat /\ Address(page, 0) \in Nat
      /\ Address(page, 0) + usedBytes = Begin(k)
      /\ Address(page + 1, 0) = Address(page, 0) + NFC_PAGE_SIZE
      /\ Upto(tag, k, Address(page, 0))
      /\ \A x \in Pages : x < usedBytes => nfcPageBuffer[x] = Message(k)[Address(page, x)]
  BY <1>1, <1>2, AtTheEnd
<1>4. PICK h \in 5 .. 7 : h = HeaderLength(k)
  BY <1>2, LayoutStep
<1>5. h <= RecordLength(k) /\ RecordLength(k) \in Nat
  BY <1>2, <1>4, LayoutStep
<1>6. PICK f \in Nat : f = NFC_PAGE_SIZE - usedBytes
  BY <1>3, PageSize
<1>7. f <= h /\ f >= 1 /\ h < NFC_PAGE_SIZE /\ usedBytes + f = NFC_PAGE_SIZE
  BY <1>2, <1>3, <1>4, <1>6, PageSize
<1>8. PICK r \in Nat : r = h - f
  BY <1>7
<1>9. fits = f /\ rest = r /\ r \in Pages /\ f + r = h
  BY <1>2, <1>4, <1>6, <1>7, <1>8, PageSize DEF Pages
<1>10. /\ full = [a \in Pages |-> IF a >= usedBytes THEN RecordByte(k, a - usedBytes + 1)
                                  ELSE nfcPageBuffer[a]]
       /\ nfcPageBuffer' = [a \in Pages |-> IF a < r THEN RecordByte(k, f + a + 1) ELSE full[a]]
  BY <1>2, <1>9
<1> HIDE DEF fits, rest, full
<1>11. ASSUME NEW x \in Pages PROVE full[x] = Message(k)[Address(page, x)]
  <2>1. x \in Nat /\ x < NFC_PAGE_SIZE /\ Address(page, x) = Address(page, 0) + x
    BY <1>3, AddressSteps
  <2>2. CASE x < usedBytes
    BY <1>3, <1>10, <2>1, <2>2
  <2>3. CASE x >= usedBytes
    <3>1. PICK i \in Nat : i = x - usedBytes + 1
      BY <1>3, <2>1, <2>3
    <3>2. i >= 1 /\ i <= h /\ Begin(k) + i - 1 = Address(page, x)
      BY <1>3, <1>7, <2>1, <2>3, <3>1, PageSize
    <3>3. i <= RecordLength(k)
      BY <1>5, <3>2
    <3>4. Message(k)[Address(page, x)] = RecordByte(k, i)
      BY <1>2, <3>2, <3>3, OwnByte
    <3>5. QED
      BY <1>10, <2>3, <3>1, <3>4
  <2>4. QED
    BY <1>3, <2>1, <2>2, <2>3
<1>12. Upto(tag', k, Address(page + 1, 0))
  <2>1. Address(page + 1, 0) \in Nat /\ Address(page + 1, 0) <= Address(page + 1, 0)
    BY <1>3, PageSize
  <2>2. QED
    BY <1>2, <1>3, <1>11, <2>1, UptoPage
<1>13. /\ page + 1 \in Nat
       /\ \A x \in Pages : x \in Nat /\ Address(page + 1, x) = Address(page + 1, 0) + x
  <2>1. page + 1 \in Nat
    BY <1>3
  <2>2. ASSUME NEW x \in Pages PROVE x \in Nat /\ Address(page + 1, x) = Address(page + 1, 0) + x
    BY <2>1, AddressSteps
  <2>3. QED
    BY <2>1, <2>2
<1>14. Address(page + 1, r) = Begin(k) + HeaderLength(k)
  <2>1. Address(page + 1, r) = Address(page, 0) + NFC_PAGE_SIZE + r
    BY <1>3, <1>9, <1>13
  <2>2. QED
    BY <1>3, <1>4, <1>7, <1>9, <2>1, PageSize
<1>15. ASSUME NEW x \in Pages, x < r PROVE nfcPageBuffer'[x] = Message(k)[Address(page + 1, x)]
  <2>1. PICK i \in Nat : i = f + x + 1
    BY <1>13
  <2>2. i >= 1 /\ i <= h /\ Begin(k) + i - 1 = Address(page + 1, x)
    BY <1>3, <1>7, <1>9, <1>13, <1>15, <2>1, PageSize
  <2>3. i <= RecordLength(k)
    BY <1>5, <2>2
  <2>4. Message(k)[Address(page + 1, x)] = RecordByte(k, i)
    BY <1>2, <2>2, <2>3, OwnByte
  <2>5. QED
    BY <1>10, <1>15, <2>1, <2>4
<1>16. HeaderDone(tag', nfcPageBuffer', page', usedBytes', k)
  BY <1>2, <1>9, <1>12, <1>14, <1>15 DEF HeaderDone, Held
<1>17. QED
  BY <1>1, <1>2, <1>9, <1>16, SameGrown DEF Finding

\* The page of the end byte exists, and the message is whole.
LEMMA EndWritten ==
    ASSUME payload \in Payloads, NEW k \in 1 .. 3, NEW p \in UserMemory, NEW u \in Pages,
           NEW b, Begin(k + 1) = Address(p, u), Upto(tag, k, Address(p, 0)),
           \A x \in Pages : x <= u => b[x] = Message(k)[Address(p, x)]
    PROVE  Whole(Written(p, b), k)
<1>1. p \in Nat /\ UserPages \in Nat /\ p < UserPages
  BY UserAssumption DEF UserMemory
<1>2. \A x \in Pages : x \in Nat /\ x < NFC_PAGE_SIZE /\ Address(p, x) = Address(p, 0) + x
  <2>1. ASSUME NEW x \in Pages
        PROVE  x \in Nat /\ x < NFC_PAGE_SIZE /\ Address(p, x) = Address(p, 0) + x
    BY <1>1, AddressSteps
  <2>2. QED
    BY <2>1
<1>3. /\ Address(p, 0) \in Nat /\ Address(p + 1, 0) = Address(p, 0) + NFC_PAGE_SIZE
      /\ Begin(k + 1) = Address(p, 0) + u
  BY <1>1, <1>2, AddressSteps
<1>4. Begin(k + 1) < Address(UserPages, 0)
  <2>1. Address(p, 0) + NFC_PAGE_SIZE <= Address(UserPages, 0) /\ Address(UserPages, 0) \in Nat
    BY <1>1, AddressOrder, AddressSteps, PageSize DEF Pages
  <2>2. QED
    BY <1>2, <1>3, <2>1, PageSize
<1>5. Upto(Written(p, b), k, Begin(k + 1) + 1)
  <2>1. Begin(k + 1) + 1 \in Nat /\ Begin(k + 1) + 1 <= Address(p + 1, 0)
    BY <1>2, <1>3, PageSize
  <2>2. \A x \in Pages : Address(p, x) < Begin(k + 1) + 1 => x <= u
    BY <1>2, <1>3
  <2>3. \A x \in Pages : Address(p, x) < Begin(k + 1) + 1 => b[x] = Message(k)[Address(p, x)]
    BY <2>2
  <2>4. QED
    BY <2>1, <2>3, UptoPage
<1>6. QED
  BY <1>4, <1>5 DEF Whole

LEMMA FirstPageGrows ==
    ASSUME TypeInv, Growing, FirstPage, Clean', NEW k \in 1 .. 3, rec' = k
    PROVE  Grown(k)'
<1> DEFINE room == NFC_PAGE_SIZE - usedBytes
           n    == IF payload[rec] > room THEN room ELSE payload[rec]
<1>1. /\ Clean /\ badWrites = 0 /\ badWrites' = 0 /\ payload' = payload
  BY StaysClean DEF Next
<1>2. /\ pc = "first" /\ rec = k /\ page' = page /\ usedBytes \in Pages /\ page \in Nat
      /\ payload \in Payloads
      /\ nfcPageBuffer' = WithPayload(nfcPageBuffer, usedBytes, 0, n)
      /\ tag' = Written(page, nfcPageBuffer') /\ page < UserPages
      /\ addedPayload' = n
      /\ pc' = IF n = payload[rec] /\ n < room THEN "idle" ELSE "next"
  <2>1. usedBytes \in Pages
    BY PageSize DEF FirstPage, TypeInv, TypeOK, Pages
  <2>2. QED
    BY <1>1, <2>1 DEF FirstPage, Write, TypeInv, TypeOK
<1>3. HeaderDone(tag, nfcPageBuffer, page, usedBytes, k)
  BY <1>1, <1>2 DEF Growing, Grown
<1>4. page \in UserMemory
  BY <1>2, UserAssumption DEF UserMemory
<1>5. PICK l \in Nat : l = payload[k]
  BY <1>2, LayoutStep
<1>6. PICK r \in Nat : r = NFC_PAGE_SIZE - usedBytes
  BY <1>2, PageSize DEF Pages
<1>7. PICK m \in Nat : m = n
  BY <1>2, <1>5, <1>6
<1>8. /\ m <= l /\ m <= r /\ (m = l \/ m = r)
      /\ pc' = IF m = l /\ m < r THEN "idle" ELSE "next"
  BY <1>2, <1>5, <1>6, <1>7
<1> HIDE DEF room, n
<1>9. /\ usedBytes \in Nat /\ usedBytes + r = NFC_PAGE_SIZE
      /\ Address(page, 0) \in Nat /\ Address(page, usedBytes) = Address(page, 0) + usedBytes
      /\ Address(page + 1, 0) = Address(page, 0) + NFC_PAGE_SIZE
  BY <1>2, <1>6, AddressSteps, PageSize
<1>10. PICK h \in Nat : h = HeaderLength(k)
  BY <1>2, LayoutStep
<1>11. /\ Begin(k) \in Nat /\ Begin(k + 1) = Begin(k) + (h + l)
       /\ Address(page, 0) + usedBytes = Begin(k) + h
  BY <1>2, <1>3, <1>5, <1>9, <1>10, LayoutStep DEF HeaderDone
<1>12. ASSUME NEW x \in Pages, x < usedBytes + m \/ (x = usedBytes + m /\ m = l)
       PROVE  nfcPageBuffer'[x] = Message(k)[Address(page, x)]
  <2>1. /\ 0 \in Nat /\ 0 + m <= payload[k]
        /\ Address(page, usedBytes) = Begin(k) + HeaderLength(k) + 0
    BY <1>5, <1>8, <1>9, <1>10, <1>11
  <2>2. Held(nfcPageBuffer, page, usedBytes, k)
    BY <1>3 DEF HeaderDone
  <2>3. x < usedBytes + m \/ (x = usedBytes + m /\ 0 + m = payload[k])
    BY <1>5, <1>12
  <2>4. WithPayload(nfcPageBuffer, usedBytes, 0, m)[x] = Message(k)[Address(page, x)]
    BY <1>2, <2>1, <2>2, <2>3, PayloadBytes
  <2>5. QED
    BY <1>2, <1>7, <2>4
<1>13. Upto(tag, k, Address(page, 0))
  BY <1>3 DEF HeaderDone
<1>14. CASE m = l /\ m < r
  <2>1. PICK u \in Pages : u = usedBytes + m
    BY <1>9, <1>14, PageSize DEF Pages
  <2>2. Begin(k + 1) = Address(page, u)
    <3>1. Address(page, u) = Address(page, 0) + u
      BY <1>2, AddressSteps
    <3>2. QED
      BY <1>9, <1>11, <1>14, <2>1, <3>1
  <2>3. \A x \in Pages : x <= u => nfcPageBuffer'[x] = Message(k)[Address(page, x)]
    <3>1. \A x \in Pages : x <= u => x < usedBytes + m \/ (x = usedBytes + m /\ m = l)
      BY <1>9, <1>14, <2>1, PageSize DEF Pages
    <3>2. QED
      BY <1>12, <3>1
  <2>4. Whole(tag', k)
    BY <1>2, <1>4, <1>13, <2>2, <2>3, EndWritten
  <2>5. pc' = "idle"
    BY <1>8, <1>14
  <2>6. QED
    BY <1>1, <2>4, <2>5, SameGrown DEF Finding
<1>15. CASE ~(m = l /\ m < r)
  <2>1. m = r /\ m <= l /\ pc' = "next" /\ addedPayload' = m
    BY <1>2, <1>7, <1>8, <1>15
  <2>2. Address(page + 1, 0) = Begin(k) + HeaderLength(k) + m
    BY <1>9, <1>10, <1>11, <2>1, PageSize
  <2>3. \A x \in Pages : nfcPageBuffer'[x] = Message(k)[Address(page, x)]
    <3>1. \A x \in Pages : x < usedBytes + m
      BY <1>9, <2>1, PageSize DEF Pages
    <3>2. QED
      BY <1>12, <3>1
  <2>4. Upto(tag', k, Address(page + 1, 0))
    <3>1. Address(page + 1, 0) \in Nat /\ Address(page + 1, 0) <= Address(page + 1, 0)
      BY <1>9, PageSize
    <3>2. QED
      BY <1>2, <1>4, <1>13, <2>3, <3>1, UptoPage
  <2>5. PayloadDone(tag', page' + 1, addedPayload', k)
    BY <1>2, <1>5, <2>1, <2>2, <2>4 DEF PayloadDone
  <2>6. QED
    BY <1>1, <2>1, <2>5, SameGrown DEF Finding
<1>16. QED
  BY <1>14, <1>15

LEMMA NextPageGrows ==
    ASSUME TypeInv, Growing, NextPage, Clean', NEW k \in 1 .. 3, rec' = k
    PROVE  Grown(k)'
<1> DEFINE left == payload[rec] - addedPayload
           n    == IF left > NFC_PAGE_SIZE THEN NFC_PAGE_SIZE ELSE left
<1>1. /\ Clean /\ badWrites = 0 /\ badWrites' = 0 /\ payload' = payload
  BY StaysClean DEF Next
<1>2. /\ pc = "next" /\ rec = k /\ page' = page + 1 /\ page \in Nat /\ page + 1 \in Nat
      /\ payload \in Payloads /\ addedPayload \in Nat /\ addedPayload <= payload[rec]
      /\ nfcPageBuffer' = WithPayload(Blank, 0, addedPayload, n)
      /\ tag' = Written(page + 1, nfcPageBuffer') /\ page + 1 < UserPages
      /\ addedPayload' = IF left = 0 THEN addedPayload ELSE (addedPayload + NFC_PAGE_SIZE) % 256
      /\ pc' = IF left = 0 THEN "idle" ELSE "next"
  BY <1>1 DEF NextPage, Write, TypeInv, TypeOK
<1>3. PayloadDone(tag, page + 1, addedPayload, k)
  BY <1>1, <1>2 DEF Growing, Grown
<1>4. page + 1 \in UserMemory
  BY <1>2, UserAssumption DEF UserMemory
<1>5. PICK l \in Nat : l = payload[k]
  BY <1>2, LayoutStep
<1>6. PICK d \in Nat : d = l - addedPayload
  BY <1>2, <1>5
<1>7. PICK m \in Nat : m = n
  BY <1>2, <1>5, <1>6, PageSize
<1>8. /\ addedPayload + d = l /\ m <= d /\ (d <= NFC_PAGE_SIZE => m = d)
      /\ (d > NFC_PAGE_SIZE => m = NFC_PAGE_SIZE)
      /\ pc' = IF d = 0 THEN "idle" ELSE "next"
      /\ addedPayload' = IF d = 0 THEN addedPayload ELSE (addedPayload + NFC_PAGE_SIZE) % 256
  BY <1>2, <1>5, <1>6, <1>7, PageSize
<1> HIDE DEF left, n
<1>9. PICK h \in Nat : h = HeaderLength(k)
  BY <1>2, LayoutStep
<1>10. /\ Begin(k) \in Nat /\ Begin(k + 1) = Begin(k) + (h + l)
       /\ Address(page + 1, 0) = Begin(k) + h + addedPayload
       /\ Upto(tag, k, Address(page + 1, 0))
  <2>1. ~(addedPayload > payload[k])
    BY <1>2, <1>5
  <2>2. QED
    BY <1>2, <1>3, <1>5, <1>9, <2>1, LayoutStep DEF PayloadDone
<1>11. /\ Address(page + 1, 0) \in Nat /\ 0 \in Pages
       /\ Address(page + 1 + 1, 0) = Address(page + 1, 0) + NFC_PAGE_SIZE
  BY <1>2, AddressSteps, PageSize DEF Pages
<1>12. ASSUME NEW x \in Pages, x < m \/ (x = m /\ m = d)
       PROVE  nfcPageBuffer'[x] = Message(k)[Address(page + 1, x)]
  <2>0. PICK u \in Pages : u = 0
    BY <1>11
  <2>1. /\ addedPayload + m <= payload[k]
        /\ Address(page + 1, u) = Begin(k) + HeaderLength(k) + addedPayload
    BY <1>2, <1>5, <1>8, <1>9, <1>10, <2>0
  <2>2. \A y \in Pages : y < u => Blank[y] = Message(k)[Address(page + 1, y)]
    BY <2>0, PageSize DEF Pages
  <2>3. x < u + m \/ (x = u + m /\ addedPayload + m = payload[k])
    BY <1>2, <1>5, <1>8, <1>12, <2>0, PageSize DEF Pages
  <2>4. WithPayload(Blank, u, addedPayload, m)[x] = Message(k)[Address(page + 1, x)]
    <3>1. rec = k /\ payload \in Payloads
      BY <1>2
    <3>2. PICK p \in Nat : p = page + 1
      BY <1>2
    <3>3. PICK j \in Nat : j = addedPayload
      BY <1>2
    <3>4. /\ j + m <= payload[k]
          /\ Address(p, u) = Begin(k) + HeaderLength(k) + j
          /\ x < u + m \/ (x = u + m /\ j + m = payload[k])
      BY <2>1, <2>3, <3>2, <3>3
    <3>5. Held(Blank, p, u, k)
      BY <2>2, <3>2 DEF Held
    <3>6. WithPayload(Blank, u, j, m)[x] = Message(k)[Address(p, x)]
      BY <3>1, <3>4, <3>5, PayloadBytes
    <3>7. QED
      BY <3>2, <3>3, <3>6
  <2>5. QED
    BY <1>2, <1>7, <2>0, <2>4
<1>13. d < NFC_PAGE_SIZE => Whole(tag', k)
  <2> SUFFICES ASSUME d < NFC_PAGE_SIZE PROVE Whole(tag', k)
    OBVIOUS
  <2>1. m = d /\ d \in Pages
    BY <1>8, PageSize DEF Pages
  <2>2. Begin(k + 1) = Address(page + 1, d)
    <3>1. Address(page + 1, d) = Address(page + 1, 0) + d
      BY <1>2, <2>1, AddressSteps
    <3>2. QED
      BY <1>2, <1>8, <1>10, <3>1
  <2>3. \A x \in Pages : x <= d => nfcPageBuffer'[x] = Message(k)[Address(page + 1, x)]
    <3>1. \A x \in Pages : x <= d => x < m \/ (x = m /\ m = d)
      BY <2>1, PageSize DEF Pages
    <3>2. QED
      BY <1>12, <3>1
  <2>4. QED
    BY <1>2, <1>4, <1>10, <2>1, <2>2, <2>3, EndWritten
<1>14. CASE d = 0
  <2>1. pc' = "idle" /\ Whole(tag', k)
    BY <1>8, <1>13, <1>14, PageSize
  <2>2. QED
    BY <1>1, <2>1, SameGrown DEF Finding
<1>15. CASE d > 0
  <2>1. pc' = "next" /\ addedPayload' = addedPayload + NFC_PAGE_SIZE
    <3>1. addedPayload + NFC_PAGE_SIZE \in Nat /\ addedPayload + NFC_PAGE_SIZE <= 255
      <4>1. l + NFC_PAGE_SIZE <= 256
        BY <1>2, <1>5, RecordsShort
      <4>2. QED
        BY <1>2, <1>8, <1>15, <4>1, PageSize
    <3>2. (addedPayload + NFC_PAGE_SIZE) % 256 = addedPayload + NFC_PAGE_SIZE
      BY <3>1, ByteModulo
    <3>3. QED
      BY <1>8, <1>15, <3>2
  <2>2. CASE d < NFC_PAGE_SIZE
    <3>1. addedPayload' > payload[k]
      BY <1>2, <1>5, <1>8, <2>1, <2>2, PageSize
    <3>2. PayloadDone(tag', page' + 1, addedPayload', k)
      BY <1>13, <2>2, <3>1 DEF PayloadDone
    <3>3. QED
      BY <1>1, <2>1, <3>2, SameGrown DEF Finding
  <2>3. CASE d >= NFC_PAGE_SIZE
    <3>1. m = NFC_PAGE_SIZE /\ addedPayload' <= payload[k]
      BY <1>2, <1>5, <1>8, <2>1, <2>3, PageSize
    <3>2. \A x \in Pages : nfcPageBuffer'[x] = Message(k)[Address(page + 1, x)]
      <4>1. \A x \in Pages : x < m
        BY <3>1, PageSize DEF Pages
      <4>2. QED
        BY <1>12, <4>1
    <3>3. Upto(tag', k, Address(page + 1 + 1, 0))
      <4>1. /\ Address(page + 1 + 1, 0) \in Nat
            /\ Address(page + 1 + 1, 0) <= Address(page + 1 + 1, 0)
        BY <1>11, PageSize
      <4>2. QED
        BY <1>2, <1>4, <1>10, <3>2, <4>1, UptoPage
    <3>4. Address(page + 1 + 1, 0) = Begin(k) + HeaderLength(k) + addedPayload'
      <4>1. Address(page + 1 + 1, 0) = Begin(k) + h + addedPayload + NFC_PAGE_SIZE
        BY <1>10, <1>11
      <4>2. QED
        BY <1>2, <1>9, <1>10, <2>1, <4>1, PageSize
    <3>5. PayloadDone(tag', page' + 1, addedPayload', k)
      BY <1>2, <3>1, <3>3, <3>4 DEF PayloadDone
    <3>6. QED
      BY <1>1, <2>1, <3>5, SameGrown DEF Finding
  <2>4. QED
    BY <2>2, <2>3, PageSize
<1>16. QED
  BY <1>14, <1>15

LEMMA LastPageGrows ==
    ASSUME TypeInv, Growing, LastPage, Clean', NEW k \in 1 .. 3, rec' = k
    PROVE  Grown(k)'
<1>1. Clean /\ payload' = payload
  BY StaysClean DEF Next
<1>2. /\ pc = "next" /\ pc' = "idle" /\ tag' = tag /\ rec = k /\ payload \in Payloads
      /\ addedPayload > payload[k] /\ addedPayload \in Nat
  BY DEF LastPage, TypeInv, TypeOK
<1>3. PayloadDone(tag, page + 1, addedPayload, k)
  BY <1>1, <1>2 DEF Growing, Grown
<1>4. payload[k] \in Nat
  BY <1>2, LayoutStep
<1>5. Whole(tag, k)
  BY <1>2, <1>3, <1>4 DEF PayloadDone
<1>6. QED
  BY <1>1, <1>2, <1>5, SameGrown DEF Finding

LEMMA GrowingInductive == TypeInv /\ Behind /\ Growing /\ [Next]_vars => Growing'
<1> SUFFICES ASSUME TypeInv, Behind, Growing, [Next]_vars, Clean', NEW k \in 1 .. 3, rec' = k
             PROVE  Grown(k)'
  BY DEF Growing
<1>1. CASE UNCHANGED vars
  <2>1. payload' = payload /\ Clean /\ rec = k
    <3>1. payload' = payload /\ UNCHANGED <<badReads, badWrites, garbage, rec>>
      BY <1>1 DEF vars
    <3>2. \A j \in 1 .. rec - 1 : EndInPage(j)' = EndInPage(j)
      BY <3>1, SameMessage DEF EndInPage
    <3>3. QED
      BY <3>1, <3>2 DEF Clean, Faults
  <2>2. Grown(k)
    BY <2>1 DEF Growing
  <2>3. UNCHANGED <<tag, nfcPageBuffer, pc, page, usedBytes, newRecordPtr, mbMe,
                    addedPayload, safe>>
    BY <1>1 DEF vars
  <2>4. QED
    BY <2>1, <2>2, <2>3, SameGrown DEF Grown
<1>2. CASE Next
  BY <1>2, FirstRecordGrows, FindEndGrows, ReadFlagsGrows, ReadHeaderGrows, WriteHeaderGrows,
     ReadLastPageGrows, AppendHeaderGrows, SplitGrows, OutsideGrows, FirstPageGrows,
     NextPageGrows, LastPageGrows DEF Next
<1>3. QED
  BY <1>1, <1>2

LEMMA GrowingInvariance == Spec => []Growing
<1>1. Init => Growing
  BY DEF Init, Growing
<1>2. QED
  BY <1>1, GrowingInductive, TypeInvariance, BehindInvariance, PTL DEF Spec

\* What is on the tag when a record is done is the message of all records so far,
\* byte for byte, for every page size and every three strings that make up a
\* short message: as long as no transfer fails, the stack holds no garbage and no
\* record is added to a message whose end byte is the last of a page.
THEOREM TagHoldsMessage == Spec => []TagIsMessage
<1>1. TypeInv /\ Growing => TagIsMessage
  <2> SUFFICES ASSUME TypeInv, Growing, pc = "idle", rec > 0, Clean,
                      NEW a \in 0 .. Begin(rec + 1)
               PROVE  tag[a \div NFC_PAGE_SIZE][a % NFC_PAGE_SIZE] = Message(rec)[a]
    BY DEF TagIsMessage
  <2>1. rec \in 1 .. 3 /\ payload \in Payloads
    BY DEF TypeInv, TypeOK
  <2>2. Whole(tag, rec)
    BY <2>1 DEF Growing, Grown
  <2>3. Begin(rec + 1) \in Nat /\ a \in Nat
    BY <2>1, MessageEnds
  <2>4. PICK p \in Nat, x \in Pages :
           p = a \div NFC_PAGE_SIZE /\ x = a % NFC_PAGE_SIZE /\ a = Address(p, x)
    BY <2>3, AddressSplit
  <2>5. p \in UserMemory
    <3>1. SUFFICES ASSUME ~(p < UserPages) PROVE FALSE
      BY UserAssumption DEF UserMemory
    <3>2. UserPages \in Nat /\ Address(UserPages, 0) <= Address(p, 0)
      <4>1. UserPages \in Nat /\ (UserPages < p \/ UserPages = p)
        BY <3>1, UserAssumption
      <4>2. Address(UserPages, 0) \in Nat /\ Address(p, 0) \in Nat
        BY <4>1, AddressSteps, PageSize DEF Pages
      <4>3. QED
        BY <4>1, <4>2, AddressOrder, PageSize
    <3>3. /\ Address(p, x) = Address(p, 0) + x /\ x \in Nat /\ Address(p, 0) \in Nat
          /\ Address(UserPages, 0) \in Nat
      BY <3>2, AddressSteps, PageSize DEF Pages
    <3>4. Begin(rec + 1) < Address(UserPages, 0) /\ a <= Begin(rec + 1)
      BY <2>2, <2>3 DEF Whole
    <3>5. QED
      BY <2>3, <2>4, <3>2, <3>3, <3>4
  <2>6. Address(p, x) < Begin(rec + 1) + 1
    BY <2>3, <2>4
  <2>7. tag[p][x] = Message(rec)[Address(p, x)]
    BY <2>2, <2>5, <2>6 DEF Whole, Upto
  <2>8. QED
    BY <2>4, <2>7
<1>2. QED
  BY <1>1, TypeInvariance, GrowingInvariance, PTL
===============================================================================
