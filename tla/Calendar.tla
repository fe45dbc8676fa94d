------------------------------ MODULE Calendar ------------------------------
(***************************************************************************)
(* Business days and the effective deadline (services/business_days.py).   *)
(*                                                                         *)
(* A date is a number of days, day 0 a Monday; an instant is a number of   *)
(* ticks; the offset of a time zone is how many ticks its clocks are ahead.*)
(***************************************************************************)
EXTENDS Integers, FiniteSets

CONSTANT DayLength   \* ticks of a day

ASSUME DayAssumption == DayLength \in Nat \ {0}

\* The settings of evaluation_cycles the calendar depends on; zone is the offset of
\* the deadline_at that create_cycle receives.
Settings(Instants, Zones, Counts, Dates) ==
  [deadline : Instants, zone : Zones, makeup : BOOLEAN, days : Counts, holidays : SUBSET Dates]

LocalDate(t, zone) == (t + zone) \div DayLength

\* 23:59:59 of that date
EndOfDay(d, zone) == (d + 1) * DayLength - 1 - zone

IsBusinessDay(d, holidays) == d % 7 < 5 /\ d \notin holidays

\* The loop that advances to the next business day
OnOrAfter(date, holidays) ==
  LET next[d \in Nat] == IF IsBusinessDay(d, holidays) THEN d ELSE next[d + 1]
  IN next[date]

AddBusinessDays(start, count, holidays) ==
  LET day[n \in Nat] == OnOrAfter(IF n = 0 THEN start ELSE day[n - 1] + 1, holidays)
  IN day[count]

BusinessDaysBetween(start, end, holidays) ==
  Cardinality({d \in start + 1 .. end : IsBusinessDay(d, holidays)})

\* Slip: the days are added to the deadline's own date.
DeadlineDateInclusive(c, zone) ==
  AddBusinessDays(LocalDate(c.deadline, zone), c.days - 1, c.holidays)

\* The date of the last make-up day, counted from the day after the deadline
DeadlineDate(c, zone) ==
  AddBusinessDays(LocalDate(c.deadline, zone) + 1, c.days - 1, c.holidays)

HasMakeup(c) == c.makeup /\ c.days > 0

EffectiveDeadline(c, zone) ==
  IF HasMakeup(c) THEN EndOfDay(DeadlineDate(c, zone), zone) ELSE c.deadline
=============================================================================
