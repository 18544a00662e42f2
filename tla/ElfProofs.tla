----------------------------- MODULE ElfProofs ------------------------------
(***************************************************************************)
(* Proofs about Elf, for every set of files and every width of the two     *)
(* kinds of integers.                                                      *)
(***************************************************************************)
EXTENDS Elf, CommonLemmas

Bytes(fields) == \A k \in 1..Len(fields) : fields[k][1] \in Nat /\ fields[k][2] \in Nat

-----------------------------------------------------------------------------
(***************************************************************************)
(* The fields that are read are those of the format.                       *)
(***************************************************************************)

\* The fields of a program header follow one another and fill its 56 bytes.
LEMMA ProgramLaid ==
  /\ Len(Program) = 8 /\ Bytes(Program) /\ Laid(Program, ProgramWidths, 0)
  /\ \A k \in 1..8 : Program[k][2] <= 55
  /\ Program[8][2] = 55
<1>1. Len(Program) = 8 /\ Len(ProgramWidths) = 8
  BY DEF Program, ProgramWidths
<1>2. /\ Program[1] = <<0, 3>> /\ Program[2] = <<4, 7>> /\ Program[3] = <<8, 15>>
      /\ Program[4] = <<16, 23>> /\ Program[5] = <<24, 31>> /\ Program[6] = <<32, 39>>
      /\ Program[7] = <<40, 47>> /\ Program[8] = <<48, 55>>
  BY DEF Program
<1>3. /\ ProgramWidths[1] = 4 /\ ProgramWidths[2] = 4 /\ ProgramWidths[3] = 8
      /\ ProgramWidths[4] = 8 /\ ProgramWidths[5] = 8 /\ ProgramWidths[6] = 8
      /\ ProgramWidths[7] = 8 /\ ProgramWidths[8] = 8
  BY DEF ProgramWidths
<1>4. ASSUME NEW k \in 1..8
      PROVE  /\ Program[k][1] \in Nat /\ Program[k][2] \in Nat /\ Program[k][2] <= 55
             /\ Program[k][1] = IF k = 1 THEN 0 ELSE Program[k - 1][2] + 1
             /\ Program[k][2] = Program[k][1] + ProgramWidths[k] - 1
  <2>1. k = 1 \/ k = 2 \/ k = 3 \/ k = 4 \/ k = 5 \/ k = 6 \/ k = 7 \/ k = 8
    OBVIOUS
  <2> QED
    BY <1>2, <1>3, <2>1
<1> QED
  BY <1>1, <1>2, <1>4 DEF Laid, Bytes

\* The fields of a section header follow one another and fill its 64 bytes.
LEMMA SectionLaid ==
  /\ Len(Section) = 10 /\ Bytes(Section) /\ Laid(Section, SectionWidths, 0)
  /\ \A k \in 1..10 : Section[k][2] <= 63
  /\ Section[10][2] = 63
<1>1. Len(Section) = 10 /\ Len(SectionWidths) = 10
  BY DEF Section, SectionWidths
<1>2. /\ Section[1] = <<0, 3>> /\ Section[2] = <<4, 7>> /\ Section[3] = <<8, 15>>
      /\ Section[4] = <<16, 23>> /\ Section[5] = <<24, 31>> /\ Section[6] = <<32, 39>>
      /\ Section[7] = <<40, 43>> /\ Section[8] = <<44, 47>> /\ Section[9] = <<48, 55>>
      /\ Section[10] = <<56, 63>>
  BY DEF Section
<1>3. /\ SectionWidths[1] = 4 /\ SectionWidths[2] = 4 /\ SectionWidths[3] = 8
      /\ SectionWidths[4] = 8 /\ SectionWidths[5] = 8 /\ SectionWidths[6] = 8
      /\ SectionWidths[7] = 4 /\ SectionWidths[8] = 4 /\ SectionWidths[9] = 8
      /\ SectionWidths[10] = 8
  BY DEF SectionWidths
<1>4. ASSUME NEW k \in 1..10
      PROVE  /\ Section[k][1] \in Nat /\ Section[k][2] \in Nat /\ Section[k][2] <= 63
             /\ Section[k][1] = IF k = 1 THEN 0 ELSE Section[k - 1][2] + 1
             /\ Section[k][2] = Section[k][1] + SectionWidths[k] - 1
  <2>1. \/ k = 1 \/ k = 2 \/ k = 3 \/ k = 4 \/ k = 5 \/ k = 6 \/ k = 7 \/ k = 8
        \/ k = 9 \/ k = 10
    OBVIOUS
  <2> QED
    BY <1>2, <1>3, <2>1
<1> QED
  BY <1>1, <1>2, <1>4 DEF Laid, Bytes

\* The header is decoded from the offset 0.
LEMMA HeaderLaid ==
  /\ Len(Header) = 19 /\ \A k \in 1..19 : Header[k][2] \in Nat /\ Header[k][2] <= 63
  /\ Header[19][2] = 63
  /\ Laid(SubSeq(Decode(Header, 0), 1, 6), IdentWidths, 0)
  /\ Laid(SubSeq(Decode(Header, 0), 7, Len(Decode(Header, 0))), HeaderWidths, IdentSize)
<1>1. Len(Header) = 19 /\ Len(IdentWidths) = 6 /\ Len(HeaderWidths) = 13
  BY DEF Header, IdentWidths, HeaderWidths
<1>2. /\ Header[1] = <<0, 3>> /\ Header[2] = <<4, 4>> /\ Header[3] = <<5, 5>>
      /\ Header[4] = <<6, 6>> /\ Header[5] = <<7, 7>> /\ Header[6] = <<8, 8>>
      /\ Header[7] = <<16, 17>> /\ Header[8] = <<18, 19>> /\ Header[9] = <<20, 23>>
      /\ Header[10] = <<24, 31>> /\ Header[11] = <<32, 39>> /\ Header[12] = <<40, 47>>
      /\ Header[13] = <<48, 51>> /\ Header[14] = <<52, 53>> /\ Header[15] = <<54, 55>>
      /\ Header[16] = <<56, 57>> /\ Header[17] = <<58, 59>> /\ Header[18] = <<60, 61>>
      /\ Header[19] = <<62, 63>>
  BY DEF Header
<1>3. /\ IdentWidths[1] = 4 /\ \A k \in 2..6 : IdentWidths[k] = 1
      /\ HeaderWidths[1] = 2 /\ HeaderWidths[2] = 2 /\ HeaderWidths[3] = 4
      /\ HeaderWidths[4] = 8 /\ HeaderWidths[5] = 8 /\ HeaderWidths[6] = 8
      /\ HeaderWidths[7] = 4 /\ HeaderWidths[8] = 2 /\ HeaderWidths[9] = 2
      /\ HeaderWidths[10] = 2 /\ HeaderWidths[11] = 2 /\ HeaderWidths[12] = 2
      /\ HeaderWidths[13] = 2
  <2>1. IdentWidths[1] = 4 /\ \A k \in 2..6 : IdentWidths[k] = 1
    <3>1. \A k \in 2..6 : k = 2 \/ k = 3 \/ k = 4 \/ k = 5 \/ k = 6
      OBVIOUS
    <3> QED
      BY <3>1 DEF IdentWidths
  <2> QED
    BY <2>1 DEF HeaderWidths
<1>4. PICK d : d = Decode(Header, 0)
  OBVIOUS
<1>5. d \in Seq(Int \X Int) /\ Len(d) = 19 /\ \A k \in 1..19 : d[k] = Header[k]
  <2>1. ASSUME NEW k \in 1..19
        PROVE  <<0 + Header[k][1], 0 + Header[k][2]>> = Header[k] /\ Header[k] \in Int \X Int
    <3>1. \/ k = 1 \/ k = 2 \/ k = 3 \/ k = 4 \/ k = 5 \/ k = 6 \/ k = 7 \/ k = 8
          \/ k = 9 \/ k = 10 \/ k = 11 \/ k = 12 \/ k = 13 \/ k = 14 \/ k = 15
          \/ k = 16 \/ k = 17 \/ k = 18 \/ k = 19
      OBVIOUS
    <3>2. \E a, b \in Nat : Header[k] = <<a, b>>
      BY <1>2, <3>1
    <3> QED
      BY <3>2
  <2>2. d = [k \in 1..19 |-> <<0 + Header[k][1], 0 + Header[k][2]>>]
    BY <1>1, <1>4 DEF Decode
  <2>3. d \in [1..19 -> Int \X Int] /\ \A k \in 1..19 : d[k] = Header[k]
    BY <2>1, <2>2
  <2> QED
    BY <2>3, FunctionIsSeq
<1>6. PICK i : i = SubSeq(d, 1, 6)
  OBVIOUS
<1>7. PICK h : h = SubSeq(d, 7, 19)
  OBVIOUS
<1>8. Len(i) = 6 /\ \A k \in 1..6 : i[k] = Header[k]
  BY <1>5, <1>6
<1>9. Len(h) = 13 /\ \A k \in 1..13 : h[k] = Header[k + 6]
  BY <1>5, <1>7
<1>10. Laid(i, IdentWidths, 0)
  <2>1. ASSUME NEW k \in 1..6
        PROVE  /\ i[k][1] = IF k = 1 THEN 0 ELSE i[k - 1][2] + 1
               /\ i[k][2] = i[k][1] + IdentWidths[k] - 1
    <3>1. k = 1 \/ k = 2 \/ k = 3 \/ k = 4 \/ k = 5 \/ k = 6
      OBVIOUS
    <3> QED
      BY <1>2, <1>3, <1>8, <3>1
  <2> QED
    BY <1>1, <1>8, <2>1 DEF Laid
<1>11. Laid(h, HeaderWidths, IdentSize)
  <2>0. /\ h[1] = <<16, 17>> /\ h[2] = <<18, 19>> /\ h[3] = <<20, 23>>
        /\ h[4] = <<24, 31>> /\ h[5] = <<32, 39>> /\ h[6] = <<40, 47>>
        /\ h[7] = <<48, 51>> /\ h[8] = <<52, 53>> /\ h[9] = <<54, 55>>
        /\ h[10] = <<56, 57>> /\ h[11] = <<58, 59>> /\ h[12] = <<60, 61>>
        /\ h[13] = <<62, 63>>
    BY <1>2, <1>9
  <2>1. ASSUME NEW k \in 1..13
        PROVE  /\ h[k][1] = IF k = 1 THEN IdentSize ELSE h[k - 1][2] + 1
               /\ h[k][2] = h[k][1] + HeaderWidths[k] - 1
    <3>1. \/ k = 1 \/ k = 2 \/ k = 3 \/ k = 4 \/ k = 5 \/ k = 6 \/ k = 7 \/ k = 8
          \/ k = 9 \/ k = 10 \/ k = 11 \/ k = 12 \/ k = 13
      OBVIOUS
    <3> QED
      BY <1>3, <2>0, <3>1 DEF IdentSize
  <2> QED
    BY <1>1, <1>9, <2>1 DEF Laid
<1>12. \A k \in 1..19 : Header[k][2] \in Nat /\ Header[k][2] <= 63
  <2> SUFFICES ASSUME NEW k \in 1..19 PROVE Header[k][2] \in Nat /\ Header[k][2] <= 63
    OBVIOUS
  <2>1. \/ k = 1 \/ k = 2 \/ k = 3 \/ k = 4 \/ k = 5 \/ k = 6 \/ k = 7 \/ k = 8
        \/ k = 9 \/ k = 10 \/ k = 11 \/ k = 12 \/ k = 13 \/ k = 14 \/ k = 15
        \/ k = 16 \/ k = 17 \/ k = 18 \/ k = 19
    OBVIOUS
  <2> QED
    BY <1>2, <2>1
<1>13. Header[19][2] = 63 /\ Len(Decode(Header, 0)) = 19
  BY <1>2, <1>4, <1>5
<1> QED
  BY <1>1, <1>4, <1>6, <1>7, <1>10, <1>11, <1>12, <1>13, Zenon

\* An entry keeps its layout wherever it is read.
LEMMA DecodeLaid ==
  ASSUME NEW fields, NEW widths, NEW n \in Nat, Len(fields) = n, Bytes(fields),
         Laid(fields, widths, 0), NEW offset \in Nat,
         \A k \in 1..n : widths[k] \in Int
  PROVE  Laid(Decode(fields, offset), widths, offset)
<1>1. PICK d : d = Decode(fields, offset)
  OBVIOUS
<1>2. Len(widths) = n
  BY DEF Laid
<1>3. Len(d) = n /\ \A k \in 1..n : d[k] = <<offset + fields[k][1], offset + fields[k][2]>>
  <2>1. d = [k \in 1..n |-> <<offset + fields[k][1], offset + fields[k][2]>>]
    BY <1>1 DEF Decode
  <2>2. d \in [1..n -> Int \X Int]
    BY <2>1 DEF Bytes
  <2> QED
    BY <2>1, <2>2, FunctionIsSeq
<1>4. ASSUME NEW k \in 1..n
      PROVE  /\ d[k][1] = IF k = 1 THEN offset ELSE d[k - 1][2] + 1
             /\ d[k][2] = d[k][1] + widths[k] - 1
  <2>1. /\ fields[k][1] \in Nat /\ fields[k][2] \in Nat
        /\ fields[k][1] = IF k = 1 THEN 0 ELSE fields[k - 1][2] + 1
        /\ fields[k][2] = fields[k][1] + widths[k] - 1
    BY <1>2 DEF Laid, Bytes
  <2>2. d[k][1] = offset + fields[k][1] /\ d[k][2] = offset + fields[k][2]
    BY <1>3
  <2>0. widths[k] \in Int
    OBVIOUS
  <2>5. d[k][2] = d[k][1] + widths[k] - 1
    BY <2>0, <2>1, <2>2
  <2>3. CASE k = 1
    BY <2>1, <2>2, <2>3, <2>5
  <2>4. CASE k # 1
    <3>1. k - 1 \in 1..n
      BY <2>4
    <3>2. d[k - 1][2] = offset + fields[k - 1][2] /\ fields[k - 1][2] \in Nat
      BY <1>3, <3>1 DEF Bytes
    <3> QED
      BY <2>1, <2>2, <2>4, <2>5, <3>2
  <2> QED
    BY <2>3, <2>4
<1> QED
  BY <1>1, <1>2, <1>3, <1>4 DEF Laid
-----------------------------------------------------------------------------
(***************************************************************************)
(* Offsets. The last entry of a table is the one that overflows first.     *)
(***************************************************************************)

IsTable(t) ==
  t.offset \in 0..U64 - 1 /\ t.size \in 0..U16 - 1 /\ t.number \in 0..U16 - 1

\* Products with a common factor are ordered as the others.
LEMMA Product ==
  ASSUME NEW a \in Nat, NEW b \in Nat, NEW c \in Nat, a <= b
  PROVE  a * c \in Nat /\ b * c \in Nat /\ a * c <= b * c
<1>1. PICK d \in Nat : b = a + d
  BY b - a \in Nat
<1>2. d * c \in Nat /\ a * c \in Nat
  OBVIOUS
<1>3. b * c = a * c + d * c
  BY <1>1
<1> QED
  BY <1>2, <1>3

\* A number below the modulus is its own remainder.
LEMMA Modulo ==
  ASSUME NEW a \in Nat, NEW m \in Nat, a < m
  PROVE  a % m = a
  OBVIOUS

\* Without overflow, the offset of an entry is the mathematical one.
LEMMA OffsetExact ==
  ASSUME NEW t, IsTable(t), NEW index \in Nat, ~Overflows(t, index)
  PROVE  /\ Offset(t, index) = t.offset + index * t.size
         /\ index * t.size \in Nat /\ index * t.size < U16
<1>1. U16 \in Nat /\ U64 \in Nat /\ t.offset \in Nat /\ t.size \in Nat
  BY ElfAssumption DEF IsTable
<1>2. PICK p \in Nat : p = index * t.size
  BY <1>1, Product
<1>3. p < U16 /\ p % U16 = p
  BY <1>1, <1>2, Modulo DEF Overflows
<1>4. t.offset + p < U64 /\ (t.offset + p) % U64 = t.offset + p
  <2>1. ~(t.offset + (p % U16) >= U64)
    BY <1>2, Zenon DEF Overflows
  <2>2. PICK a \in Nat : a = t.offset + p
    BY <1>1
  <2>3. a < U64
    BY <1>1, <1>3, <2>1, <2>2
  <2> QED
    BY <1>1, <2>2, <2>3, Modulo
<1> QED
  BY <1>2, <1>3, <1>4 DEF Offset

\* No entry overflows in a table whose last entry does not.
LEMMA NoOverflow ==
  ASSUME NEW t, IsTable(t), NEW index \in Nat, index < t.number,
         Small(t), t.offset + (t.number - 1) * t.size < U64
  PROVE  ~Overflows(t, index) /\ index * t.size <= (t.number - 1) * t.size
<1>1. U16 \in Nat /\ U64 \in Nat /\ t.offset \in Nat /\ t.size \in Nat /\ t.number \in Nat
  BY ElfAssumption DEF IsTable
<1>2. PICK last \in Nat : last = t.number - 1
  BY <1>1
<1>3. index <= last
  BY <1>1, <1>2
<1>4. PICK p \in Nat : p = index * t.size
  BY <1>1, Product
<1>5. PICK q \in Nat : q = last * t.size
  BY <1>1, Product
<1>6. p <= q
  BY <1>1, <1>3, <1>4, <1>5, Product
<1>7. q < U16 /\ t.offset + q < U64
  BY <1>1, <1>2, <1>5 DEF Small
<1>8. p < U16 /\ p % U16 = p /\ t.offset + p < U64
  <2>1. p < U16 /\ t.offset + p < U64
    BY <1>1, <1>6, <1>7
  <2> QED
    BY <1>1, <2>1, Modulo
<1> QED
  BY <1>1, <1>2, <1>4, <1>5, <1>6, <1>8 DEF Overflows

-----------------------------------------------------------------------------
(***************************************************************************)
(* The inductive invariant: what is decoded so far was readable, and was   *)
(* read without an overflow where overflows are checked.                   *)
(***************************************************************************)

Entry(fields, t, index, decoded) ==
  Decodes(fields, t, index) /\ decoded = Decode(fields, Offset(t, index))

Read(entries, fields, t) ==
  /\ Len(entries) \in 0..t.number
  /\ \A i \in 1..Len(entries) : Entry(fields, t, i - 1, entries[i])

Ranges == Seq(Int \X Int)

ElfInv ==
  /\ file.length \in 0..U64 - 1 /\ IsTable(file.ph) /\ IsTable(file.sh)
  /\ checked \in BOOLEAN
  /\ pc \in {"header", "programs", "sections", "done", "panic"}
  /\ programs \in Seq(Ranges) /\ sections \in Seq(Ranges)
  /\ pc \in {"programs", "sections", "done"} => header = Decode(Header, 0) /\ Readable(Header, 0)
  /\ Read(programs, Program, file.ph) /\ Read(sections, Section, file.sh)
  /\ pc \in {"sections", "done"} => Len(programs) = file.ph.number
  /\ pc = "done" => Len(sections) = file.sh.number
  /\ pc = "panic" => ~Fits

\* What is decoded of an entry is a sequence of ranges.
LEMMA DecodeType ==
  ASSUME NEW fields, NEW n \in Nat, Len(fields) = n, Bytes(fields), NEW offset \in Nat
  PROVE  Decode(fields, offset) \in Ranges
<1>1. Decode(fields, offset) \in [1..n -> Int \X Int]
  BY DEF Decode, Bytes
<1> QED
  BY <1>1, FunctionIsSeq DEF Ranges

\* An offset is a natural number, wrapped or not.
LEMMA OffsetType ==
  ASSUME NEW t, IsTable(t), NEW index \in Nat
  PROVE  Offset(t, index) \in Nat
<1>1. U16 \in Nat \ {0} /\ U64 \in Nat \ {0} /\ t.offset \in Nat /\ t.size \in Nat
  BY ElfAssumption DEF IsTable
<1>2. PICK p \in Nat : p = index * t.size
  BY <1>1, Product
<1>3. p % U16 \in Nat
  BY <1>1
<1>4. PICK q \in Nat : q = t.offset + (p % U16)
  BY <1>1, <1>3
<1>5. q % U64 \in Nat
  BY <1>1
<1> QED
  BY <1>2, <1>4, <1>5 DEF Offset

\* A field of an entry that lies inside the file lies inside it too.
LEMMA EndsInside ==
  ASSUME NEW o \in Nat, NEW p \in Nat, NEW q \in Nat, NEW f \in Nat, NEW z \in Nat, NEW l \in Nat,
         p <= q, f < z, o + q + z <= l
  PROVE  o + p + f < l /\ o + p <= l
  OBVIOUS

\* In a file that fits every entry is decoded.
LEMMA FitsDecodes ==
  ASSUME NEW fields, NEW t, NEW size \in Nat, NEW index \in Nat, NEW n \in Nat,
         Len(fields) = n, \A k \in 1..n : fields[k][2] \in Nat /\ fields[k][2] < size,
         file.length \in 0..U64 - 1, IsTable(t), size > 0,
         index < t.number, Small(t), Inside(t, size)
  PROVE  Decodes(fields, t, index)
<1>1. /\ U16 \in Nat /\ U64 \in Nat /\ t.offset \in Nat /\ t.size \in Nat /\ t.number \in Nat
      /\ file.length \in Nat /\ file.length < U64
  BY ElfAssumption DEF IsTable
<1>2. PICK q \in Nat : q = (t.number - 1) * t.size
  <2>1. t.number - 1 \in Nat
    BY <1>1
  <2> QED
    BY <1>1, <2>1, Product
<1>3. t.offset + q + size <= file.length
  BY <1>1, <1>2 DEF Inside
<1>4. t.offset + q < U64
  BY <1>1, <1>3
<1>5. ~Overflows(t, index) /\ index * t.size <= q
  BY <1>2, <1>4, NoOverflow
<1>6. PICK p \in Nat : p = index * t.size
  BY <1>1, Product
<1>7. Offset(t, index) = t.offset + p
  BY <1>5, <1>6, OffsetExact
<1>10. p <= q
  BY <1>5, <1>6
<1>8. ASSUME NEW k \in 1..n PROVE t.offset + p + fields[k][2] < file.length
  <2>1. PICK f \in Nat : f = fields[k][2] /\ f < size
    OBVIOUS
  <2>2. t.offset + p + f < file.length
    BY <1>1, <1>3, <1>10, <2>1, EndsInside
  <2> QED
    BY <2>1, <2>2
<1>9. t.offset + p <= file.length
  BY <1>1, <1>3, <1>10
<1> QED
  BY <1>5, <1>7, <1>8, <1>9 DEF Decodes, Readable

\* One more entry, decoded where the table has it, leaves the entries read so
\* far right.
LEMMA ReadMore ==
  ASSUME NEW fields, NEW t, IsTable(t), NEW entries \in Seq(Ranges), Read(entries, fields, t),
         Len(entries) # t.number, Decodes(fields, t, Len(entries)),
         Decode(fields, Offset(t, Len(entries))) \in Ranges
  PROVE  LET more == Append(entries, Decode(fields, Offset(t, Len(entries))))
         IN  more \in Seq(Ranges) /\ Read(more, fields, t)
<1>1. PICK e : e = Decode(fields, Offset(t, Len(entries)))
  OBVIOUS
<1>2. PICK more : more = Append(entries, e)
  OBVIOUS
<1>3. PICK n \in Nat : n = Len(entries)
  OBVIOUS
<1>4. /\ more \in Seq(Ranges) /\ Len(more) = n + 1 /\ more[n + 1] = e
      /\ \A i \in 1..n : more[i] = entries[i]
  BY <1>1, <1>2, <1>3
<1>5. t.number \in Nat /\ n + 1 \in 0..t.number
  <2>1. U16 \in Nat
    BY ElfAssumption
  <2> QED
    BY <1>3, <2>1 DEF Read, IsTable
<1>6. Entry(fields, t, n, e)
  BY <1>1, <1>3 DEF Entry
<1>7. \A i \in 1..n : Entry(fields, t, i - 1, entries[i])
  BY <1>3 DEF Read
<1>8. \A i \in 1..n + 1 : i \in 1..n \/ (i = n + 1 /\ i - 1 = n)
  OBVIOUS
<1>9. \A i \in 1..n + 1 : Entry(fields, t, i - 1, more[i])
  BY <1>4, <1>6, <1>7, <1>8, Zenon
<1> QED
  BY <1>1, <1>2, <1>4, <1>5, <1>9, Zenon DEF Read
\* The invariant holds before anything is read.
LEMMA ElfInit == Init => ElfInv
<1> SUFFICES ASSUME Init PROVE ElfInv
  OBVIOUS
<1>1. file.length \in 0..U64 - 1 /\ IsTable(file.ph) /\ IsTable(file.sh)
  BY ElfAssumption DEF Init, IsTable
<1>2. /\ programs = <<>> /\ sections = <<>> /\ Len(programs) = 0 /\ Len(sections) = 0
      /\ programs \in Seq(Ranges) /\ sections \in Seq(Ranges)
      /\ pc = "header" /\ checked \in BOOLEAN
  BY DEF Init
<1>3. Read(programs, Program, file.ph) /\ Read(sections, Section, file.sh)
  BY <1>1, <1>2, ElfAssumption DEF Read, IsTable
<1> QED
  BY <1>1, <1>2, <1>3 DEF ElfInv

\* And after the file header.
LEMMA HeaderInv ==
  ASSUME ElfInv, read_header
  PROVE  ElfInv'
<1>1. /\ pc = "header" /\ file' = file /\ checked' = checked
      /\ programs' = programs /\ sections' = sections
  BY DEF read_header
<1>2. /\ Read(programs, Program, file.ph)' /\ Read(sections, Section, file.sh)'
      /\ Readable(Header, 0)' <=> Readable(Header, 0)
      /\ Fits' <=> Fits
  BY <1>1 DEF ElfInv, Read, Entry, Decodes, Readable, Fits, WellFormed, Inside
<1>3. CASE Readable(Header, 0)
  <2>1. header' = Decode(Header, 0) /\ pc' = "programs"
    BY <1>3 DEF read_header
  <2> QED
    BY <1>1, <1>2, <1>3, <2>1 DEF ElfInv
<1>4. CASE ~Readable(Header, 0)
  <2>1. pc' = "panic"
    BY <1>4 DEF read_header
  <2>2. ~Fits
    <3> SUFFICES ASSUME Fits PROVE FALSE
      OBVIOUS
    <3>1. file.length \in Nat /\ file.length >= 64
      BY ElfAssumption DEF ElfInv, Fits, WellFormed, HeaderSize
    <3>2. Len(Header) = 19 /\ \A k \in 1..19 : Header[k][2] <= 63 /\ Header[k][2] \in Nat
      BY HeaderLaid
    <3> QED
      BY <1>4, <3>1, <3>2 DEF Readable
  <2> QED
    BY <1>1, <1>2, <2>1, <2>2 DEF ElfInv
<1> QED
  BY <1>3, <1>4

\* And after a program header.
LEMMA ProgramsInv ==
  ASSUME ElfInv, read_programs
  PROVE  ElfInv'
<1>1. /\ pc = "programs" /\ file' = file /\ checked' = checked
      /\ header' = header /\ sections' = sections
  BY DEF read_programs
<1>2. /\ Read(sections, Section, file.sh)'
      /\ Readable(Header, 0)' <=> Readable(Header, 0)
      /\ Fits' <=> Fits
      /\ \A e : Read(e, Program, file.ph)' <=> Read(e, Program, file.ph)
  BY <1>1 DEF ElfInv, Read, Entry, Decodes, Readable, Fits, WellFormed, Inside
<1>3. PICK index \in Nat : index = Len(programs)
  BY DEF ElfInv
<1>4. CASE index = file.ph.number
  <2>1. pc' = "sections" /\ programs' = programs
    BY <1>3, <1>4 DEF read_programs
  <2> QED
    BY <1>1, <1>2, <1>3, <1>4, <2>1 DEF ElfInv, Read, Entry, Decodes, Readable
<1>5. CASE index # file.ph.number /\ Decodes(Program, file.ph, index)
  <2>1. programs' = Append(programs, Decode(Program, Offset(file.ph, index))) /\ pc' = pc
    BY <1>3, <1>5 DEF read_programs
  <2>2. Decode(Program, Offset(file.ph, index)) \in Ranges
    <3>1. Offset(file.ph, index) \in Nat
      BY OffsetType DEF ElfInv
    <3>2. Len(Program) = 8 /\ 8 \in Nat /\ Bytes(Program)
      BY ProgramLaid
    <3> QED
      BY <3>1, <3>2, DecodeType
  <2>3. programs' \in Seq(Ranges) /\ Read(programs', Program, file.ph)
    BY <1>3, <1>5, <2>1, <2>2, ReadMore DEF ElfInv
  <2>4. Read(programs, Program, file.ph)'
    BY <1>1, <2>3 DEF Read, Entry, Decodes, Readable
  <2> QED
    BY <1>1, <1>2, <2>1, <2>3, <2>4 DEF ElfInv
<1>6. CASE index # file.ph.number /\ ~Decodes(Program, file.ph, index)
  <2>1. pc' = "panic" /\ programs' = programs
    BY <1>3, <1>6 DEF read_programs
  <2>2. ~Fits
    <3> SUFFICES ASSUME Fits PROVE FALSE
      OBVIOUS
    <3>1. index < file.ph.number
      BY <1>3, <1>6, ElfAssumption DEF ElfInv, Read, IsTable
    <3>2. Small(file.ph) /\ Inside(file.ph, 56)
      BY DEF Fits, WellFormed, ProgramSize
    <3>3. \A k \in 1..8 : Program[k][2] \in Nat /\ Program[k][2] < 56
      BY ProgramLaid DEF Bytes
    <3> QED
      <4>1. Len(Program) = 8 /\ 8 \in Nat /\ 56 \in Nat /\ 56 > 0
        BY ProgramLaid
      <4>2. file.length \in 0..U64 - 1 /\ IsTable(file.ph)
        BY DEF ElfInv
      <4>3. Decodes(Program, file.ph, index)
        BY <3>1, <3>2, <3>3, <4>1, <4>2, FitsDecodes
      <4> QED
        BY <1>6, <4>3
  <2> QED
    BY <1>1, <1>2, <2>1, <2>2 DEF ElfInv, Read, Entry, Decodes, Readable
<1> QED
  BY <1>4, <1>5, <1>6

\* And after a section header.
LEMMA SectionsInv ==
  ASSUME ElfInv, read_sections
  PROVE  ElfInv'
<1>1. /\ pc = "sections" /\ file' = file /\ checked' = checked
      /\ header' = header /\ programs' = programs
  BY DEF read_sections
<1>2. /\ Read(programs, Program, file.ph)'
      /\ Readable(Header, 0)' <=> Readable(Header, 0)
      /\ Fits' <=> Fits
      /\ \A e : Read(e, Section, file.sh)' <=> Read(e, Section, file.sh)
  BY <1>1 DEF ElfInv, Read, Entry, Decodes, Readable, Fits, WellFormed, Inside
<1>3. PICK index \in Nat : index = Len(sections)
  BY DEF ElfInv
<1>4. CASE index = file.sh.number
  <2>1. pc' = "done" /\ sections' = sections
    BY <1>3, <1>4 DEF read_sections
  <2> QED
    BY <1>1, <1>2, <1>3, <1>4, <2>1 DEF ElfInv, Read, Entry, Decodes, Readable
<1>5. CASE index # file.sh.number /\ Decodes(Section, file.sh, index)
  <2>1. sections' = Append(sections, Decode(Section, Offset(file.sh, index))) /\ pc' = pc
    BY <1>3, <1>5 DEF read_sections
  <2>2. Decode(Section, Offset(file.sh, index)) \in Ranges
    <3>1. Offset(file.sh, index) \in Nat
      BY OffsetType DEF ElfInv
    <3>2. Len(Section) = 10 /\ 10 \in Nat /\ Bytes(Section)
      BY SectionLaid
    <3> QED
      BY <3>1, <3>2, DecodeType
  <2>3. sections' \in Seq(Ranges) /\ Read(sections', Section, file.sh)
    BY <1>3, <1>5, <2>1, <2>2, ReadMore DEF ElfInv
  <2>4. Read(sections, Section, file.sh)'
    BY <1>1, <2>3 DEF Read, Entry, Decodes, Readable
  <2> QED
    BY <1>1, <1>2, <2>1, <2>3, <2>4 DEF ElfInv
<1>6. CASE index # file.sh.number /\ ~Decodes(Section, file.sh, index)
  <2>1. pc' = "panic" /\ sections' = sections
    BY <1>3, <1>6 DEF read_sections
  <2>2. ~Fits
    <3> SUFFICES ASSUME Fits PROVE FALSE
      OBVIOUS
    <3>1. index < file.sh.number
      BY <1>3, <1>6, ElfAssumption DEF ElfInv, Read, IsTable
    <3>2. Small(file.sh) /\ Inside(file.sh, 64)
      BY DEF Fits, WellFormed, SectionSize
    <3>3. \A k \in 1..10 : Section[k][2] \in Nat /\ Section[k][2] < 64
      BY SectionLaid DEF Bytes
    <3> QED
      <4>1. Len(Section) = 10 /\ 10 \in Nat /\ 64 \in Nat /\ 64 > 0
        BY SectionLaid
      <4>2. file.length \in 0..U64 - 1 /\ IsTable(file.sh)
        BY DEF ElfInv
      <4>3. Decodes(Section, file.sh, index)
        BY <3>1, <3>2, <3>3, <4>1, <4>2, FitsDecodes
      <4> QED
        BY <1>6, <4>3
  <2> QED
    BY <1>1, <1>2, <2>1, <2>2 DEF ElfInv, Read, Entry, Decodes, Readable
<1> QED
  BY <1>4, <1>5, <1>6
\* And so after every step.
LEMMA ElfNext == ElfInv /\ [Next]_vars => ElfInv'
<1> SUFFICES ASSUME ElfInv, [Next]_vars PROVE ElfInv'
  OBVIOUS
<1>1. CASE Next
  BY <1>1, HeaderInv, ProgramsInv, SectionsInv DEF Next
<1>2. CASE UNCHANGED vars
  BY <1>2 DEF vars, ElfInv, Read, Entry, Decodes, Readable, Fits, WellFormed, Inside
<1> QED
  BY <1>1, <1>2

\* The inductive invariant of the reader holds in every state.
LEMMA ElfInvariant == Spec => []ElfInv
  BY ElfInit, ElfNext, PTL DEF Spec

-----------------------------------------------------------------------------

\* A table that was read to its end is the one the file describes.
LEMMA TableRight ==
  ASSUME NEW fields, NEW widths, NEW n \in Nat, Len(fields) = n, Bytes(fields),
         Laid(fields, widths, 0), \A k \in 1..n : widths[k] \in Int,
         NEW t, IsTable(t), NEW entries, Read(entries, fields, t),
         Len(entries) = t.number, NEW size \in Nat, size > 0,
         file.length \in 0..U64 - 1, checked \/ (Small(t) /\ Inside(t, size))
  PROVE  LaidTable(entries, widths, t)
<1>1. /\ U16 \in Nat /\ U64 \in Nat /\ t.offset \in Nat /\ t.size \in Nat /\ t.number \in Nat
      /\ file.length \in Nat /\ file.length < U64
  BY ElfAssumption DEF IsTable
<1>2. ASSUME NEW i \in 1..t.number
      PROVE  Laid(entries[i], widths, t.offset + (i - 1) * t.size)
  <2>1. PICK index \in Nat : index = i - 1 /\ index < t.number
    BY <1>1
  <2>2. Decodes(fields, t, index) /\ entries[i] = Decode(fields, Offset(t, index))
    BY <2>1 DEF Read, Entry
  <2>3. ~Overflows(t, index)
    <3>1. CASE checked
      BY <2>2, <3>1 DEF Decodes
    <3>2. CASE Small(t) /\ Inside(t, size)
      <4>1. PICK q \in Nat : q = (t.number - 1) * t.size
        <5>1. t.number - 1 \in Nat
          BY <1>1, <2>1
        <5> QED
          BY <1>1, <5>1, Product
      <4>2. t.offset + q + size <= file.length
        BY <1>1, <2>1, <3>2, <4>1 DEF Inside
      <4>3. t.offset + q < U64
        BY <1>1, <4>2
      <4> QED
        BY <2>1, <3>2, <4>1, <4>3, NoOverflow
    <3> QED
      BY <3>1, <3>2
  <2>4. Offset(t, index) = t.offset + index * t.size /\ Offset(t, index) \in Nat
    BY <2>3, OffsetExact, OffsetType
  <2>5. Laid(entries[i], widths, Offset(t, index))
    BY <2>2, <2>4, DecodeLaid
  <2> QED
    BY <2>1, <2>4, <2>5
<1> QED
  BY <1>2 DEF LaidTable

\* Elf::new decodes the fields that the format defines, and every entry of
\* both tables where the header says it is, never from a wrapped offset if
\* overflows are checked or nothing overflows.
THEOREM Tables == Spec => []TablesRight
<1>1. ElfInv => TablesRight
  <2> SUFFICES ASSUME ElfInv, pc = "done", checked \/ Fits
               PROVE  /\ Laid(SubSeq(header, 1, 6), IdentWidths, 0)
                      /\ Laid(SubSeq(header, 7, Len(header)), HeaderWidths, IdentSize)
                      /\ LaidTable(programs, ProgramWidths, file.ph)
                      /\ LaidTable(sections, SectionWidths, file.sh)
    BY DEF TablesRight
  <2>1. header = Decode(Header, 0)
    BY DEF ElfInv
  <2>2. LaidTable(programs, ProgramWidths, file.ph)
    <3>1. /\ IsTable(file.ph) /\ file.length \in 0..U64 - 1
          /\ Read(programs, Program, file.ph) /\ Len(programs) = file.ph.number
      BY DEF ElfInv
    <3>2. checked \/ (Small(file.ph) /\ Inside(file.ph, 56))
      BY DEF Fits, WellFormed, ProgramSize
    <3>3. \A k \in 1..8 : ProgramWidths[k] \in Int
      <4>1. \A k \in 1..8 : k = 1 \/ k = 2 \/ k = 3 \/ k = 4 \/ k = 5 \/ k = 6 \/ k = 7 \/ k = 8
        OBVIOUS
      <4> QED
        BY <4>1 DEF ProgramWidths
    <3>4. 8 \in Nat /\ 56 \in Nat /\ 56 > 0
      OBVIOUS
    <3> QED
      BY <3>1, <3>2, <3>3, <3>4, ProgramLaid, TableRight
  <2>3. LaidTable(sections, SectionWidths, file.sh)
    <3>1. /\ IsTable(file.sh) /\ file.length \in 0..U64 - 1
          /\ Read(sections, Section, file.sh) /\ Len(sections) = file.sh.number
      BY DEF ElfInv
    <3>2. checked \/ (Small(file.sh) /\ Inside(file.sh, 64))
      BY DEF Fits, WellFormed, SectionSize
    <3>3. \A k \in 1..10 : SectionWidths[k] \in Int
      <4>1. \A k \in 1..10 : \/ k = 1 \/ k = 2 \/ k = 3 \/ k = 4 \/ k = 5 \/ k = 6
                             \/ k = 7 \/ k = 8 \/ k = 9 \/ k = 10
        OBVIOUS
      <4> QED
        BY <4>1 DEF SectionWidths
    <3>4. 10 \in Nat /\ 64 \in Nat /\ 64 > 0
      OBVIOUS
    <3> QED
      BY <3>1, <3>2, <3>3, <3>4, SectionLaid, TableRight
  <2> QED
    BY <2>1, <2>2, <2>3, HeaderLaid, Zenon
<1> QED
  BY <1>1, ElfInvariant, PTL

\* A table that was read to its end with overflow checks lies inside the file.
LEMMA TableInside ==
  ASSUME NEW fields, NEW n \in Nat \ {0}, Len(fields) = n, NEW size \in Nat,
         fields[n][2] \in Nat, fields[n][2] + 1 = size,
         NEW t, IsTable(t), NEW entries, Read(entries, fields, t),
         Len(entries) = t.number, file.length \in 0..U64 - 1, checked
  PROVE  Small(t) /\ Inside(t, size)
<1>1. /\ U16 \in Nat /\ U64 \in Nat /\ t.offset \in Nat /\ t.size \in Nat /\ t.number \in Nat
      /\ file.length \in Nat
  BY ElfAssumption DEF IsTable
<1> SUFFICES ASSUME t.number > 0
             PROVE  /\ (t.number - 1) * t.size < U16
                    /\ t.offset + (t.number - 1) * t.size + size <= file.length
  BY DEF Small, Inside
<1>2. PICK last \in Nat : last = t.number - 1 /\ t.number \in 1..t.number
  BY <1>1
<1>3. Decodes(fields, t, last)
  BY <1>2 DEF Read, Entry
<1>4. ~Overflows(t, last)
  BY <1>3 DEF Decodes
<1>5. PICK q \in Nat : q = last * t.size
  BY <1>1, Product
<1>6. q < U16 /\ Offset(t, last) = t.offset + q
  BY <1>4, <1>5, OffsetExact
<1>7. Offset(t, last) + fields[n][2] < file.length
  <2>1. n \in 1..n
    OBVIOUS
  <2> QED
    BY <1>3, <2>1 DEF Decodes, Readable
<1>8. t.offset + q + size <= file.length
  BY <1>1, <1>6, <1>7
<1> QED
  BY <1>2, <1>5, <1>6, <1>8

\* The outcome, apart from that there is one: with overflow checks a file is
\* decoded only if its tables lie inside it and every entry starts less than
\* 64 KiB into its table, and Elf::new panics only if not.
Outcome ==
  /\ pc = "done" /\ checked => Fits
  /\ pc = "panic" => ~Fits

\* The safety half of DecodedIffFits: Elf::new never ends in the wrong way.
THEOREM DecodedOnlyIfFits == Spec => []Outcome
<1>1. ElfInv => Outcome
  <2> SUFFICES ASSUME ElfInv, pc = "done", checked PROVE Fits
    BY DEF Outcome, ElfInv
  <2>1. file.length \in Nat /\ file.length >= HeaderSize
    <3>1. Readable(Header, 0) /\ file.length \in Nat
      BY ElfAssumption DEF ElfInv
    <3>2. 0 + Header[19][2] < file.length
      <4>1. 19 \in 1..Len(Header)
        BY HeaderLaid
      <4> QED
        BY <3>1, <4>1 DEF Readable
    <3>3. Header[19][2] = 63
      BY HeaderLaid
    <3> QED
      BY <3>1, <3>2, <3>3 DEF HeaderSize
  <2>2. Small(file.ph) /\ Inside(file.ph, ProgramSize)
    <3>1. /\ IsTable(file.ph) /\ file.length \in 0..U64 - 1
          /\ Read(programs, Program, file.ph) /\ Len(programs) = file.ph.number
      BY DEF ElfInv
    <3>2. 8 \in Nat \ {0} /\ Len(Program) = 8 /\ Program[8][2] \in Nat /\ Program[8][2] + 1 = 56
      BY ProgramLaid
    <3>3. Small(file.ph) /\ Inside(file.ph, 56)
      BY <3>1, <3>2, TableInside
    <3> QED
      BY <3>3 DEF ProgramSize
  <2>3. Small(file.sh) /\ Inside(file.sh, SectionSize)
    <3>1. /\ IsTable(file.sh) /\ file.length \in 0..U64 - 1
          /\ Read(sections, Section, file.sh) /\ Len(sections) = file.sh.number
      BY DEF ElfInv
    <3>2. 10 \in Nat \ {0} /\ Len(Section) = 10 /\ Section[10][2] \in Nat /\ Section[10][2] + 1 = 64
      BY SectionLaid
    <3>3. Small(file.sh) /\ Inside(file.sh, 64)
      BY <3>1, <3>2, TableInside
    <3> QED
      BY <3>3 DEF SectionSize
  <2> QED
    BY <2>1, <2>2, <2>3 DEF Fits, WellFormed
<1> QED
  BY <1>1, ElfInvariant, PTL

\* DecodedIffFits, as far as it is safety: if Elf::new ends at all, it ends as the
\* tables' places and sizes say.
THEOREM DecodedIffFitsIfItEnds == Spec /\ <>(pc \in {"done", "panic"}) => DecodedIffFits
<1>1. Outcome /\ pc \in {"done", "panic"} =>
        \/ Fits /\ pc = "done"
        \/ ~Fits /\ pc = "panic"
        \/ ~Fits /\ ~checked /\ pc = "done"
  BY DEF Outcome
<1> QED
  BY <1>1, DecodedOnlyIfFits, PTL DEF DecodedIffFits

=============================================================================
