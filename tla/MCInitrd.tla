------------------------------ MODULE MCInitrd ------------------------------
(***************************************************************************)
(* Archives for the instance. Some hold up to three files: every size      *)
(* around a block, every kind of data, headers that are unusual in one     *)
(* way. Others hold one file, dated on the days at the edges of every year *)
(* that 32 bits reach, and of every month of two leap years, of the years  *)
(* around them and of the century that is not a leap year, or 2^32 seconds *)
(* before the edges of 2107, which an underflow in 1970 reaches.           *)
(***************************************************************************)
EXTENDS Initrd

CONSTANTS MaxMembers,   \* bound on the files of an archive
          LastYear      \* bound on the years whose edges are tried

Noon(y, m, d) == [days |-> DayNumber(y, m, d), rest |-> 43200]

Plain(path, size, content) ==
  [path |-> path, name |-> path, text |-> TRUE, size |-> size,
   mode |-> <<0, 6, 4, 4>>, mtime |-> Noon(1971, 3, 1), content |-> content]

Members ==
  {Plain("dir", 0, "text"), Plain("a", 1, "text"), Plain("a", 2, "zeros"),
   Plain("b", 3, "archive"), Plain("b", 4, "text"),
   [Plain("c", 2, "archive") EXCEPT !.mode = <<4, 7, 5, 5>>],
   [Plain("c", 1, "zeros") EXCEPT !.mode = <<0, 0, 4, 4>>],
   [Plain("d", 1, "text") EXCEPT !.mtime = Noon(1974, 1, 1)],
   [Plain("d", 2, "text") EXCEPT !.mtime = Noon(1972, 12, 31)],
   [Plain("e", 3, "text") EXCEPT !.text = FALSE],
   [Plain("f", 2, "text") EXCEPT !.name = "b"]}

MCPaths == {m.path : m \in Members}

EdgeDays ==
  UNION {{YearStart(y) + k : k \in {-1, 0, 1}} : y \in Epoch..LastYear}
MonthDays ==
  UNION {{DayNumber(y, m, 1) + k : k \in {-1, 0}} :
           y \in {1970, 1971, 1972, 1973, 2000, 2100}, m \in 1..12}
Dates ==
  {t \in [days : EdgeDays \intersect 0..WrapDays, rest : {0, 1}] \union
         [days : MonthDays \intersect 0..WrapDays, rest : {0, SecondsPerDay - 1}] \union
         [days : {YearStart(2107) - WrapDays - k : k \in 0..2},
          rest : {SecondsPerDay - WrapRest + k : k \in {-1, 0, 1}}] :
     t.days = WrapDays => t.rest < WrapRest}

MCArchives ==
  {a \in UNION {[1..n -> Members] : n \in 0..MaxMembers} :
     \A i, j \in 1..Len(a) : a[i].path = a[j].path => i = j}
  \union {<<[Plain("a", 1, "text") EXCEPT !.mtime = t]>> : t \in Dates}

=============================================================================
