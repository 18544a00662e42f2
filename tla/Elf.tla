-------------------------------- MODULE Elf ---------------------------------
(***************************************************************************)
(* The ELF reader of kernel/src/elf.rs: Elf::new decodes the file header   *)
(* and then the entries of the program and section tables, at offsets      *)
(* computed in 16-bit and 64-bit arithmetic. An overflow panics in a build *)
(* with overflow checks and wraps in one without.                          *)
(*                                                                         *)
(* A file is its length and the fields of its header that say where the    *)
(* tables are. A field that is decoded is the range of bytes it was read   *)
(* from.                                                                   *)
(***************************************************************************)
EXTENDS Integers, Sequences

CONSTANTS U16, U64,     \* 2^16 and 2^64: the integers wrap here
          Files         \* the files tried: records of length, and ph and sh,
                        \* each a record of offset, size and number

ASSUME ElfAssumption ==
  /\ U16 \in Nat \ {0} /\ U64 \in Nat \ {0} /\ U16 <= U64
  /\ \A file \in Files :
       /\ file.length \in 0..U64 - 1
       /\ \A t \in {file.ph, file.sh} :
            t.offset \in 0..U64 - 1 /\ t.size \in 0..U16 - 1 /\ t.number \in 0..U16 - 1

VARIABLES file,
          checked,      \* the kernel is built with overflow checks
          header,       \* the fields of the header, decoded
          programs, sections,
          pc            \* "header", "programs", "sections", "done" or "panic"

vars == <<file, checked, header, programs, sections, pc>>

-----------------------------------------------------------------------------
(***************************************************************************)
(* The fields, by their first and last byte.                               *)
(***************************************************************************)

Header ==
  << <<0, 3>>, <<4, 4>>, <<5, 5>>, <<6, 6>>, <<7, 7>>, <<8, 8>>, <<16, 17>>,
     <<18, 19>>, <<20, 23>>, <<24, 31>>, <<32, 39>>, <<40, 47>>, <<48, 51>>,
     <<52, 53>>, <<54, 55>>, <<56, 57>>, <<58, 59>>, <<60, 61>>, <<62, 63>> >>

\* Decodes program headers of 32-bit files, whose flags come late.
Program_32 ==
  << <<0, 3>>, <<24, 27>>, <<4, 7>>, <<8, 11>>, <<12, 15>>, <<16, 19>>,
     <<20, 23>>, <<28, 31>> >>

Program ==
  << <<0, 3>>, <<4, 7>>, <<8, 15>>, <<16, 23>>, <<24, 31>>, <<32, 39>>,
     <<40, 47>>, <<48, 55>> >>

Section ==
  << <<0, 3>>, <<4, 7>>, <<8, 15>>, <<16, 23>>, <<24, 31>>, <<32, 39>>,
     <<40, 43>>, <<44, 47>>, <<48, 55>>, <<56, 63>> >>

\* What is decoded from the bytes at an offset
Decode(fields, offset) ==
  [k \in 1..Len(fields) |-> <<offset + fields[k][1], offset + fields[k][2]>>]

\* Reading a byte behind the end of the file panics; so does cutting the
\* file behind its end.
Readable(fields, offset) ==
  /\ offset <= file.length
  /\ \A k \in 1..Len(fields) : offset + fields[k][2] < file.length

-----------------------------------------------------------------------------

read_header ==
  /\ pc = "header"
  /\ IF Readable(Header, 0)
       THEN header' = Decode(Header, 0) /\ pc' = "programs"
       ELSE pc' = "panic" /\ UNCHANGED header
  /\ UNCHANGED <<file, checked, programs, sections>>

\* table.offset + u64::from(index * table.size): the product has 16 bits.
Overflows(table, index) ==
  \/ index * table.size >= U16
  \/ table.offset + ((index * table.size) % U16) >= U64
Offset(table, index) == (table.offset + ((index * table.size) % U16)) % U64

\* Is the entry decoded? An overflow is a panic, or it wraps.
Decodes(fields, table, index) ==
  /\ checked => ~Overflows(table, index)
  /\ Readable(fields, Offset(table, index))

\* Reads one entry too many.
read_programs_Past ==
  /\ pc = "programs"
  /\ LET index == Len(programs) IN
     IF index > file.ph.number
       THEN pc' = "sections" /\ UNCHANGED programs
       ELSE IF Decodes(Program, file.ph, index)
         THEN /\ programs' = Append(programs, Decode(Program, Offset(file.ph, index)))
              /\ UNCHANGED pc
         ELSE pc' = "panic" /\ UNCHANGED programs
  /\ UNCHANGED <<file, checked, header, sections>>

read_programs ==
  /\ pc = "programs"
  /\ LET index == Len(programs) IN
     IF index = file.ph.number
       THEN pc' = "sections" /\ UNCHANGED programs
       ELSE IF Decodes(Program, file.ph, index)
         THEN /\ programs' = Append(programs, Decode(Program, Offset(file.ph, index)))
              /\ UNCHANGED pc
         ELSE pc' = "panic" /\ UNCHANGED programs
  /\ UNCHANGED <<file, checked, header, sections>>

read_sections ==
  /\ pc = "sections"
  /\ LET index == Len(sections) IN
     IF index = file.sh.number
       THEN pc' = "done" /\ UNCHANGED sections
       ELSE IF Decodes(Section, file.sh, index)
         THEN /\ sections' = Append(sections, Decode(Section, Offset(file.sh, index)))
              /\ UNCHANGED pc
         ELSE pc' = "panic" /\ UNCHANGED sections
  /\ UNCHANGED <<file, checked, header, programs>>

Init ==
  /\ file \in Files
  /\ checked \in BOOLEAN
  /\ header = <<>> /\ programs = <<>> /\ sections = <<>>
  /\ pc = "header"

Next == read_header \/ read_programs \/ read_sections

\* The reader is called by the shell and has nothing to wait for.
Spec == Init /\ [][Next]_vars /\ WF_vars(Next)

-----------------------------------------------------------------------------
(***************************************************************************)
(* Properties. The reference is the ELF-64 object file format: the widths  *)
(* of the fields in their order, a table of entries of equal size.         *)
(***************************************************************************)

\* The identification takes 16 bytes, of which the last seven are padding.
IdentWidths == <<4, 1, 1, 1, 1, 1>>
HeaderWidths == <<2, 2, 4, 8, 8, 8, 4, 2, 2, 2, 2, 2, 2>>
ProgramWidths == <<4, 4, 8, 8, 8, 8, 8, 8>>
SectionWidths == <<4, 4, 8, 8, 8, 8, 4, 4, 8, 8>>
IdentSize == 16
HeaderSize == 64
ProgramSize == 56
SectionSize == 64

\* Fields of these widths, one behind the other from an offset
Laid(fields, widths, offset) ==
  /\ Len(fields) = Len(widths)
  /\ \A k \in 1..Len(widths) :
       /\ fields[k][1] = IF k = 1 THEN offset ELSE fields[k - 1][2] + 1
       /\ fields[k][2] = fields[k][1] + widths[k] - 1

LaidTable(entries, widths, table) ==
  /\ Len(entries) = table.number
  /\ \A i \in 1..table.number :
       Laid(entries[i], widths, table.offset + (i - 1) * table.size)

Inside(table, size) ==
  table.number > 0 =>
    table.offset + (table.number - 1) * table.size + size <= file.length
WellFormed ==
  /\ file.length >= HeaderSize
  /\ Inside(file.ph, ProgramSize)
  /\ Inside(file.sh, SectionSize)

\* Every entry starts less than 64 KiB into the table; the last may end there
\* or beyond.
Small(table) == table.number > 0 => (table.number - 1) * table.size < U16
Fits == WellFormed /\ Small(file.ph) /\ Small(file.sh)

\* What is decoded is what the format defines: field for field, and entry for
\* entry where the file says, never from a wrapped offset if overflows are
\* checked or nothing overflows.
TablesRight ==
  pc = "done" /\ (checked \/ Fits) =>
    /\ Laid(SubSeq(header, 1, 6), IdentWidths, 0)
    /\ Laid(SubSeq(header, 7, Len(header)), HeaderWidths, IdentSize)
    /\ LaidTable(programs, ProgramWidths, file.ph)
    /\ LaidTable(sections, SectionWidths, file.sh)

\* With overflow checks a file is decoded if and only if its tables lie inside
\* it and every entry starts less than 64 KiB into its table; without them such
\* files still are.
DecodedIffFits ==
  <>(\/ Fits /\ pc = "done"
     \/ ~Fits /\ pc = "panic"
     \/ ~Fits /\ ~checked /\ pc = "done")

=============================================================================
