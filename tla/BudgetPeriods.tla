---------------------------- MODULE BudgetPeriods ----------------------------
(* The periods of budgets (internal/budget/types.go): a period begins at the
   latest reset that is not in the future, at an hour of the day, of a
   weekday, or of a day of the month, which in a month without that day is the
   last one.  A budget counts the costs since its period began.

   Time is counted in halves of a day from the first of January 2024; an hour
   of the settings is 0 or 1.  Hourly periods and the minutes of the settings
   are the same arithmetic in smaller units.                                 *)
EXTENDS Integers, FiniteSetsExt

CONSTANTS
  Months,      \* bound: months the clock runs
  ResetDays,   \* the days of the month to be tried
  Customs      \* the lengths of periods of no calendar unit to be tried

ASSUME PeriodsAssumption ==
  Months \in 1..23 /\ ResetDays \subseteq 1..31 /\ Customs \subseteq (Nat \ {0})

VARIABLES
  now,
  budget   \* its period, with the settings that place it

periodVars == <<now, budget>>

-----------------------------------------------------------------------------
(* The calendar of Go's package time, December 2023 being month 0. *)

Lengths == <<31, 29, 31, 30, 31, 30, 31, 31, 30, 31, 30, 31, 31, 28, 31, 30, 31, 30, 31, 31, 30, 31, 30, 31>>
daysInMonth(m) == IF m = 0 THEN 31 ELSE Lengths[m]

\* The first day of a month.
DayOne[m \in 0..25] == IF m = 0 THEN -31 ELSE DayOne[m - 1] + daysInMonth(m - 1)

Date(day, hour) == 2 * day + hour
Day(t) == t \div 2
Month(t) == CHOOSE m \in 0..24 : DayOne[m] <= Day(t) /\ Day(t) < DayOne[m + 1]
Weekday(t) == (Day(t) + 1) % 7
Unix(t) == t + Date(19723, 0)

-----------------------------------------------------------------------------
anchoredDayStart(t, hour) ==
  LET start == Date(Day(t), hour) IN IF t < start THEN start - Date(1, 0) ELSE start

anchoredWeekStart(t, weekday, hour) ==
  LET daysBack == (Weekday(t) - weekday + 7) % 7
      start == Date(Day(t) - daysBack, hour)
  IN IF t < start THEN start - Date(7, 0) ELSE start

\* Bug: a day the month does not have falls into the next one.
monthAnchorUnclamped(m, day, hour) == Date(DayOne[m] + day - 1, hour)

monthAnchor(m, day, hour) == Date(DayOne[m] + Min({day, daysInMonth(m)}) - 1, hour)

anchoredMonthStart(t, day, hour) ==
  LET start == monthAnchor(Month(t), day, hour) IN
  IF t < start THEN monthAnchor(Month(t) - 1, day, hour) ELSE start

PeriodBounds(t) ==
  LET daily == anchoredDayStart(t, budget.hour)
      weekly == anchoredWeekStart(t, budget.anchor, budget.hour)
      monthly == anchoredMonthStart(t, budget.anchor, budget.hour)
      custom == t - (Unix(t) % budget.anchor)
  IN CASE budget.period = "day" -> [start |-> daily, end |-> daily + Date(1, 0)]
       [] budget.period = "week" -> [start |-> weekly, end |-> weekly + Date(7, 0)]
       [] budget.period = "month" ->
            [start |-> monthly, end |-> monthAnchor(Month(monthly) + 1, budget.anchor, budget.hour)]
       [] budget.period = "custom" -> [start |-> custom, end |-> custom + budget.anchor]

-----------------------------------------------------------------------------
PeriodsInit ==
  /\ now = 0
  /\ budget \in
       [period : {"day"}, anchor : {0}, hour : 0..1]
         \cup [period : {"week"}, anchor : 0..6, hour : 0..1]
         \cup [period : {"month"}, anchor : ResetDays, hour : 0..1]
         \cup [period : {"custom"}, anchor : Customs, hour : {0}]

PassTime == Day(now + 1) < DayOne[Months + 1] /\ now' = now + 1 /\ UNCHANGED budget

PeriodsSpec == PeriodsInit /\ [][PassTime]_periodVars

-----------------------------------------------------------------------------
(* Properties *)

\* The periods of a budget follow each other without gap or overlap, through
\* short months and leap years: now is in its period, its first and
\* last moments have the same bounds, the next one begins where it ends, and it
\* begins at the hour, weekday or day that was set, or on the last day of a
\* month too short for that.  So every cost is counted in one period.
PeriodsTile ==
  LET p == PeriodBounds(now) IN
  /\ p.start <= now /\ now < p.end
  /\ \A t \in {p.start, p.end - 1} : PeriodBounds(t) = p
  /\ PeriodBounds(p.end).start = p.end
  /\ budget.period # "custom" => p.start % 2 = budget.hour
  /\ budget.period = "week" => Weekday(p.start) = budget.anchor
  /\ budget.period = "month" =>
       LET date == Day(p.start) - DayOne[Month(p.start)] + 1 IN
       \/ date = budget.anchor
       \/ date < budget.anchor /\ date = daysInMonth(Month(p.start))
=============================================================================
