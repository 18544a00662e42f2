------------------------------- MODULE Initrd -------------------------------
(***************************************************************************)
(* The initial ramdisk of kernel/src/initrd.rs: Initrd::new walks a USTAR  *)
(* archive block by block and logs a line for every file it finds, and     *)
(* get_data looks files up by their name.                                  *)
(*                                                                         *)
(* Memory is a sequence of blocks and an address counts blocks from the    *)
(* start of the module. A file's data is the sequence of blocks its bytes  *)
(* fill; of a header the fields are kept on which the code decides.        *)
(***************************************************************************)
EXTENDS Timestamp, SequencesExt

CONSTANTS BLOCK_SIZE,   \* 512
          Archives,     \* sequences of members tar may be given: records of
                        \* path, name, text, size, mode, mtime and content
          Paths         \* the paths looked up

\* A member's mode is its four octal digits, special bits first. Its text is
\* FALSE if a string of its header is not UTF-8. Its name is the header field:
\* tar moves the front of a long path to another field. An archive holds a path
\* once, as long as nothing is appended to it. Sizes and dates are those
\* of 32 bits: parse_octal panics at a field that holds more (initrd.rs:208),
\* and such members are left out. (2^32 is beyond TLC's integers, so the bound
\* on sizes is not part of the formula.)
ASSUME InitrdAssumption ==
  /\ BLOCK_SIZE \in Nat \ {0}
  /\ \A a \in Archives :
       /\ a \in Seq(Range(a))
       /\ \A i \in 1..Len(a) :
            /\ a[i].text \in BOOLEAN
            /\ a[i].size \in Nat
            /\ a[i].mode \in [1..4 -> 0..7]
            /\ a[i].mtime \in Instants
       /\ \A i, j \in 1..Len(a) : a[i].path = a[j].path => i = j

VARIABLES archive,      \* the members that were archived
          address,
          header,       \* the header of the file at hand
          data,         \* and its data
          files,        \* Initrd::files
          shown,        \* permissions and date in the lines logged
          found,        \* the result of get_data
          pc            \* "block", "data", "trace", "date", "loaded", "panic", or
                        \* "missing" for the panic of a lookup

vars == <<tvars, archive, address, header, data, files, shown, found, pc>>

-----------------------------------------------------------------------------
(***************************************************************************)
(* The archive (external): tar --format ustar writes a header block for    *)
(* every member, the blocks of its data, padded with zeros, and two blocks *)
(* of zeros at the end.                                                    *)
(***************************************************************************)

Blocks(size) == (size + BLOCK_SIZE - 1) \div BLOCK_SIZE
Zero == [kind |-> "zero"]
HeaderBlock(m) == [kind |-> "header", of |-> m]

\* Data may be anything: zeros that look like the end of the archive, or an
\* archive of its own.
DataBlocks(m) ==
  [k \in 1..Blocks(m.size) |->
     CASE m.content = "zeros" -> Zero
       [] m.content = "archive" -> HeaderBlock(m)
       [] OTHER -> [kind |-> "data", of |-> m, number |-> k]]

MemberBlocks(m) == <<HeaderBlock(m)>> \o DataBlocks(m)
Tar(members) ==
  FlattenSeq([i \in 1..Len(members) |-> MemberBlocks(members[i])])
    \o <<Zero, Zero>>

-----------------------------------------------------------------------------
(***************************************************************************)
(* Display for File.                                                       *)
(***************************************************************************)

\* The mode's octal digits are read as a decimal number ...
parse_integer(mode) == 1000 * mode[1] + 100 * mode[2] + 10 * mode[3] + mode[4]

\* ... which is written out again, without leading zeros.
Powers == <<1, 10, 100, 1000, 10000>>
NumberOfDigits(n) ==
  CHOOSE k \in 1..4 : n < Powers[k + 1] /\ (k = 1 \/ n >= Powers[k])
digits(n) ==
  LET k == NumberOfDigits(n) IN [i \in 1..k |-> (n \div Powers[k - i + 1]) % 10]

parse_permission(digit) ==
  {b \in {"r", "w", "x"} :
     LET weight == CASE b = "r" -> 4 [] b = "w" -> 2 [] b = "x" -> 1
     IN  (digit \div weight) % 2 = 1}

\* The first three digits; there may be fewer.
permissions(m) ==
  [i \in 1..3 |-> parse_permission(digits(parse_integer(m.mode))[i])]

\* Do the permissions have three digits?
HasPermissions(m) == Len(digits(parse_integer(m.mode))) >= 3

-----------------------------------------------------------------------------
(***************************************************************************)
(* Initrd::new.                                                            *)
(***************************************************************************)

Memory == Tar(archive)
Block(a) == Memory[a + 1]

\* A block that is not all zeros is a header. parse_header unwraps what its
\* strings and octal numbers parse to.
parse_header ==
  /\ pc = "block" /\ Block(address) # Zero
  /\ IF Block(address).kind = "header" /\ Block(address).of.text
       THEN /\ header' = Block(address).of
            /\ address' = address + 1
            /\ pc' = "data"
       ELSE pc' = "panic" /\ UNCHANGED <<header, address>>
  /\ UNCHANGED <<tvars, archive, data, files, shown, found>>

\* Copies the data from one block too early.
parse_data_Early ==
  /\ pc = "data"
  /\ LET n == Blocks(header.size) IN
     /\ data' = SubSeq(Memory, address, address + n - 1)
     /\ address' = address + n
  /\ pc' = "trace"
  /\ UNCHANGED <<tvars, archive, header, files, shown, found>>

\* Always skips a block more than the whole blocks of the data.
parse_data_Past ==
  /\ pc = "data"
  /\ data' = SubSeq(Memory, address + 1, address + Blocks(header.size))
  /\ address' = IF header.size = 0 THEN address
                ELSE address + header.size \div BLOCK_SIZE + 1
  /\ pc' = "trace"
  /\ UNCHANGED <<tvars, archive, header, files, shown, found>>

\* The data and the padding behind it are skipped; without data there is
\* nothing to skip.
parse_data ==
  /\ pc = "data"
  /\ LET n == Blocks(header.size) IN
     /\ data' = SubSeq(Memory, address + 1, address + n)
     /\ address' = address + n
  /\ pc' = "trace"
  /\ UNCHANGED <<tvars, archive, header, files, shown, found>>

\* trace!("{file}") formats the line, first the permissions ...
trace ==
  /\ pc = "trace"
  /\ IF HasPermissions(header)
       THEN parse_timestamp(header.mtime) /\ pc' = "date"
       ELSE pc' = "panic" /\ UNCHANGED tvars
  /\ UNCHANGED <<archive, address, header, data, files, shown, found>>

\* ... and then the date.
convert ==
  /\ pc = "date"
  /\ years \/ months
  /\ pc' = IF phase' = "panic" THEN "panic" ELSE "date"
  /\ UNCHANGED <<archive, address, header, data, files, shown, found>>

\* The line is logged, and the file kept.
push ==
  /\ pc = "date" /\ Return
  /\ shown' = Append(shown, [permissions |-> permissions(header), date |-> date])
  /\ files' = Append(files, [header |-> header, data |-> data])
  /\ pc' = "block"
  /\ UNCHANGED <<archive, address, header, data, found>>

\* A block of zeros is the end.
eof ==
  /\ pc = "block" /\ Block(address) = Zero
  /\ pc' = "loaded"
  /\ UNCHANGED <<tvars, archive, address, header, data, files, shown, found>>

\* get_data: the first file of the name; unwrap panics if there is none.
get_data(path) ==
  /\ pc = "loaded"
  /\ LET Named(file) == file.header.name = path
         i == SelectInSeq(files, Named)
     IN  IF i # 0
           THEN found' = [path |-> path, data |-> files[i].data] /\ UNCHANGED pc
           ELSE found' = [path |-> path, data |-> <<>>] /\ pc' = "missing"
  /\ UNCHANGED <<tvars, archive, address, header, data, files, shown>>

NoHeader == [size |-> 0]
NotAsked == [path |-> "none", data |-> <<>>]

Init ==
  /\ archive \in Archives
  /\ checked \in BOOLEAN /\ Idle
  /\ address = 0
  /\ header = NoHeader /\ data = <<>>
  /\ files = <<>> /\ shown = <<>>
  /\ found = NotAsked
  /\ pc = "block"

Load == parse_header \/ parse_data \/ trace \/ convert \/ push \/ eof
Next == Load \/ \E path \in Paths : get_data(path)

\* The walk is one loop of the boot; nobody has to look up anything.
Spec == Init /\ [][Next]_vars /\ WF_vars(Load)

-----------------------------------------------------------------------------
(***************************************************************************)
(* Properties.                                                             *)
(***************************************************************************)

\* The blocks of the archive before its i-th member
Before(i) == Len(Tar(SubSeq(archive, 1, i - 1))) - 2

\* The loop looks for a header where there is one, or for the end where the
\* archive ends, whatever the data looks like: never inside the data of a
\* file, and never behind the end, in memory that is not the archive's. So
\* every member is found, in order, with its own header and data.
LoadsAll ==
  /\ pc = "block" => address = Before(Len(files) + 1)
  /\ pc \in {"loaded", "missing"} =>
       files = [i \in 1..Len(archive) |->
                  [header |-> archive[i], data |-> DataBlocks(archive[i])]]

\* The permissions that are logged are the member's, if it has no special
\* bits: those take the place of the owner's. The date is the date of its
\* instant, unless the count of seconds underflowed in a build that does not
\* check.
ListingRight ==
  pc \in {"loaded", "panic"} => \A i \in 1..Len(shown) :
    /\ archive[i].mode[1] = 0 =>
         shown[i].permissions =
           [k \in 1..3 |-> parse_permission(archive[i].mode[k + 1])]
    /\ checked \/ ~Underflows(archive[i].mtime) =>
         IsDateOf(archive[i].mtime, shown[i].date)

\* A file is looked up under its path and gives its own data, unless what is
\* left of a longer path in the name field is the same; the kernel panics only
\* if there is no such file, or if its path was too long for the field.
LookupRight ==
  LET Here == {i \in 1..Len(archive) : archive[i].path = found.path}
      Named == {i \in 1..Len(archive) : archive[i].name = found.path}
  IN  /\ found # NotAsked /\ pc = "loaded" /\ Named \subseteq Here =>
           \E i \in Here : found.data = DataBlocks(archive[i])
      /\ pc = "missing" => Here \intersect Named = {}

\* Can a line be logged for the member? Not if its mode has no digit for its
\* owner, nor if parse_timestamp takes the wrong number of years away: there
\* are such instants in every year. An instant that underflows is one 2^32
\* seconds later in a build that does not check.
Loggable(m) ==
  /\ m.text
  /\ m.mode[1] # 0 \/ m.mode[2] # 0
  /\ IF Underflows(m.mtime) THEN ~checked /\ ~Overruns(Later(m.mtime))
                            ELSE ~Overruns(m.mtime)

\* The loops end, also when the count of seconds has wrapped, and the ramdisk
\* loads unless it holds a file whose log line cannot be formatted: the boot
\* then panics, and only then.
LoadsIfLoggable ==
  <>(/\ pc \in {"loaded", "panic"}
     /\ pc = "loaded" <=> \A i \in 1..Len(archive) : Loggable(archive[i]))

=============================================================================
