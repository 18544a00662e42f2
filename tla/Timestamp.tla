----------------------------- MODULE Timestamp ------------------------------
(***************************************************************************)
(* File::parse_timestamp of kernel/src/initrd.rs: the date of a file in    *)
(* the initial ramdisk, from a 32-bit count of seconds. A step is one turn *)
(* of a loop. The kernel is built with overflow checks (make run: the dev  *)
(* profile), where a subtraction that underflows is a panic, or without    *)
(* them (make run PROFILE=release), where it wraps. Module Initrd calls    *)
(* it.                                                                     *)
(***************************************************************************)
EXTENDS Calendar, Sequences

VARIABLES checked,      \* the kernel is built with overflow checks
          seconds,      \* what is left of the count, in days and seconds
          year, year_days, month,
          date,         \* the result
          phase         \* "idle", "years", "months", "done" or "panic"

tvars == <<checked, seconds, year, year_days, month, date, phase>>

\* Every fourth year, centuries included
is_leap_year_Julian(y) == y % 4 = 0

is_leap_year(y) == (y % 4 = 0 /\ y % 100 # 0) \/ y % 400 = 0

DaysPerYear(y) == IF is_leap_year(y) THEN 366 ELSE 365

days_per_month(y) ==
  <<31, IF is_leap_year(y) THEN 29 ELSE 28, 31, 30, 31, 30, 31, 31, 30, 31, 30, 31>>

\* seconds > d days
Exceeds(t, d) == t.days > d \/ (t.days = d /\ t.rest > 0)

\* The 32-bit difference of t and d days, where d days are more than t
Wrapped(t, d) == [Later(t) EXCEPT !.days = @ - d]

\* Takes a year away only if all of it is there, and goes round again if not.
years_Stall ==
  /\ phase = "years"
  /\ IF Exceeds(seconds, year_days)
       THEN /\ seconds.days >= DaysPerYear(year)
            /\ year_days' = DaysPerYear(year)
            /\ year' = year + 1
            /\ seconds' = [seconds EXCEPT !.days = @ - DaysPerYear(year)]
            /\ UNCHANGED phase
       ELSE phase' = "months" /\ UNCHANGED <<seconds, year, year_days>>
  /\ UNCHANGED <<checked, month, date>>

\* while seconds > year_seconds: takes the year away, and compares what is
\* left with the length of the year it took, not with that of the next one.
years ==
  /\ phase = "years"
  /\ IF Exceeds(seconds, year_days)
       THEN LET d == DaysPerYear(year) IN
            /\ year_days' = d
            /\ IF seconds.days < d /\ checked
                 THEN phase' = "panic" /\ UNCHANGED <<seconds, year>>
                 ELSE /\ seconds' = IF seconds.days < d THEN Wrapped(seconds, d)
                                    ELSE [seconds EXCEPT !.days = @ - d]
                      /\ year' = year + 1
                      /\ UNCHANGED phase
       ELSE phase' = "months" /\ UNCHANGED <<seconds, year, year_days>>
  /\ UNCHANGED <<checked, month, date>>

Clock(t) ==
  [year |-> year, month |-> month, day |-> t.days + 1,
   hour |-> t.rest \div 3600,
   minute |-> (t.rest % 3600) \div 60,
   second |-> t.rest % 60]

\* while seconds is at least a month: indexing the table panics behind its
\* end. What is left after the last turn is the day and the time of day.
months ==
  /\ phase = "months"
  /\ IF month > 12
       THEN phase' = "panic" /\ UNCHANGED <<seconds, month, date>>
       ELSE LET d == days_per_month(year)[month] IN
            IF seconds.days >= d
              THEN /\ seconds' = [seconds EXCEPT !.days = @ - d]
                   /\ month' = month + 1
                   /\ UNCHANGED <<date, phase>>
              ELSE /\ date' = Clock(seconds)
                   /\ phase' = "done"
                   /\ UNCHANGED <<seconds, month>>
  /\ UNCHANGED <<checked, year, year_days>>

NoDate == [year |-> 0, month |-> 0, day |-> 0, hour |-> 0, minute |-> 0, second |-> 0]

\* The locals are gone, and the next call starts with new ones.
Idle ==
  /\ seconds = [days |-> 0, rest |-> 0]
  /\ year = Epoch /\ year_days = 0 /\ month = 1
  /\ date = NoDate
  /\ phase = "idle"

\* The call, and the return
parse_timestamp(timestamp) ==
  /\ phase = "idle"
  /\ seconds' = timestamp
  /\ phase' = "years"
  /\ UNCHANGED <<checked, year, year_days, month, date>>

Return ==
  /\ phase = "done"
  /\ seconds' = [days |-> 0, rest |-> 0]
  /\ year' = Epoch /\ year_days' = 0 /\ month' = 1
  /\ date' = NoDate
  /\ phase' = "idle"
  /\ UNCHANGED checked

=============================================================================
