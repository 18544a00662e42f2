------------------------------ MODULE Calendar ------------------------------
(***************************************************************************)
(* The Gregorian calendar, as a reference for File::parse_timestamp of     *)
(* kernel/src/initrd.rs: a closed form for the number of a day that shares *)
(* nothing with the loops of the code, and the instants at which the code  *)
(* is wrong.                                                               *)
(***************************************************************************)
EXTENDS Integers

Epoch == 1970
SecondsPerDay == 86400

\* A 32-bit count of seconds, in days and seconds: TLC's integers are narrower.
\* 2^32 seconds are 49710 days and 23296 seconds.
WrapDays == 49710
WrapRest == 23296
Instants == {t \in [days : 0..WrapDays, rest : 0..SecondsPerDay - 1] :
               t.days = WrapDays => t.rest < WrapRest}

\* 2^32 seconds later
Later(t) ==
  LET rest == t.rest + WrapRest
  IN  [days |-> t.days + WrapDays + rest \div SecondsPerDay, rest |-> rest % SecondsPerDay]

\* The day y-m-d, counted from 1970-01-01. Years begin in March here, so that
\* the leap day is the last one. EpochDay counts from the last day of February
\* in the year 0.
EpochDay == 719469
DayNumber(y, m, d) ==
  LET yy == IF m <= 2 THEN y - 1 ELSE y
      mm == (m + 9) % 12
  IN  365 * yy + yy \div 4 - yy \div 100 + yy \div 400
        + (153 * mm + 2) \div 5 + d - EpochDay

YearStart(y) == DayNumber(y, 1, 1)
MonthEnd(y, m) == IF m = 12 THEN YearStart(y + 1) ELSE DayNumber(y, m + 1, 1)
Leap(y) == YearStart(y + 1) = YearStart(y) + 366

\* Years have 365 or 366 days, so that there are few to choose from.
YearOf(t) ==
  CHOOSE y \in Epoch + t.days \div 366 .. Epoch + t.days \div 365 :
    YearStart(y) <= t.days /\ t.days < YearStart(y + 1)
DayOfYear(t) == t.days - YearStart(YearOf(t))

\* Is the date the one of instant t, and a date of the calendar?
IsDateOf(t, date) ==
  /\ date.month \in 1..12 /\ date.day >= 1
  /\ DayNumber(date.year, date.month, date.day) = t.days
  /\ t.days < MonthEnd(date.year, date.month)
  /\ date.hour \in 0..23 /\ date.minute \in 0..59 /\ date.second \in 0..59
  /\ (date.hour * 60 + date.minute) * 60 + date.second = t.rest

\* The instants of which parse_timestamp takes away a year too many: 1970 but
\* for its first second, and the last day of a leap year after its midnight
Underflows(t) ==
  LET y == YearOf(t)
      day == DayOfYear(t)
  IN  \/ y = Epoch /\ ~(day = 0 /\ t.rest = 0)
      \/ day = 365 /\ t.rest > 0

\* The instants of which it takes away a year too few, so that no month is
\* left for them: the first midnight of a year that does not follow a leap
\* year, and the first day of a year that comes two years after one, the
\* midnight at its end included
Overruns(t) ==
  LET y == YearOf(t)
      day == DayOfYear(t)
  IN  /\ y >= Epoch + 2
      /\ \/ day = 0 /\ t.rest = 0 /\ ~Leap(y - 1)
         \/ Leap(y - 2) /\ (day = 0 \/ (day = 1 /\ t.rest = 0))

=============================================================================
