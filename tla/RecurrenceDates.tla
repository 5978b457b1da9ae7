--------------------------- MODULE RecurrenceDates ---------------------------
(***************************************************************************)
(* recurrence.spec-model.ts: the date of the next occurrence.              *)
(*                                                                         *)
(* A date is a number of days, day 1 being 1 January 2024, a Monday; 0 is  *)
(* null.  The next deadline has the time of day of the one before, so that *)
(* a rule's end, an instant, needs no more than whether it comes earlier   *)
(* in its day than the deadlines do in theirs (endsEarly).                 *)
(***************************************************************************)
EXTENDS Integers

CONSTANT None   \* null, of a number

ASSUME DatesAssumption == None \notin Int

FirstYear == 2024
Months == 1..12
Weekdays == 1..7     \* Monday is 1, as in dartWeekday
Minutes == 24 * 60   \* of a day

Frequencies ==
  {"daily", "weekly", "everyNWeeks", "monthly", "everyNMonths", "yearly",
   "selectedWeekdays"}

\* weekdays: the days of the mask, {} for null.  A rule that was pushed may hold
\* any numbers.
RecurrenceSpec ==
  [frequency : Frequencies, interval : Int, weekdays : SUBSET Weekdays,
   dayOfMonth : Int \union {None}, monthOfYear : Int \union {None},
   endDate : Nat, endsEarly : BOOLEAN,
   reminderDaysBefore : Int \union {None}, reminderMinuteOfDay : Int \union {None}]

\* Rules whose days and months are the calendar's.
CalendarSpec ==
  {spec \in RecurrenceSpec :
     /\ spec.dayOfMonth \in (1..31) \union {None}
     /\ spec.monthOfYear \in Months \union {None}}

\* What createTask accepts.
RecurrenceSpecDto ==
  {spec \in CalendarSpec :
     /\ spec.interval >= 1
     /\ spec.reminderDaysBefore \in Nat \union {None}
     /\ spec.reminderMinuteOfDay \in (0..Minutes - 1) \union {None}}

-----------------------------------------------------------------------------
(* The calendar behind Date                                                *)

Leap(year) == year % 4 = 0 /\ (year % 100 # 0 \/ year % 400 = 0)

\* Days of the years before this one, since FirstYear.
YearStart(year) ==
  LET days(y) == 365 * y + (y \div 4) - (y \div 100) + (y \div 400)
  IN  days(year - 1) - days(FirstYear - 1)

MonthStart(year, month) ==
  <<0, 31, 59, 90, 120, 151, 181, 212, 243, 273, 304, 334>>[month]
    + (IF month > 2 /\ Leap(year) THEN 1 ELSE 0)

\* new Date(year, month, day): a day past the month's end runs into the next, one
\* before its first into the month before.
DayNumber(year, month, day) == YearStart(year) + MonthStart(year, month) + day

\* The calendar repeats itself every 400 years.
Cycle == 400 * 365 + 97

YearAt[date \in Int] ==
  LET guess == FirstYear + 400 * ((date - 1) \div Cycle)
                         + (((date - 1) % Cycle) \div 366)
  IN  CHOOSE y \in {guess, guess + 1} :
        YearStart(y) < date /\ date <= YearStart(y + 1)

\* The month of the n-th day of a year.
MonthAt(year, n) ==
  CHOOSE m \in Months :
    MonthStart(year, m) < n /\ (m = 12 \/ n <= MonthStart(year, m + 1))

YearOf(date) == YearAt[date]
MonthOf(date) == MonthAt(YearOf(date), date - YearStart(YearOf(date)))
DayOf(date) == date - DayNumber(YearOf(date), MonthOf(date), 0)

dartWeekday(date) == ((date - 1) % 7) + 1

daysInMonth(year, month) ==
  IF month = 12 THEN 31 ELSE MonthStart(year, month + 1) - MonthStart(year, month)

-----------------------------------------------------------------------------
(* nextAfter                                                               *)

effectiveInterval(spec) == IF spec.interval < 1 THEN 1 ELSE spec.interval

\* wrong variant: the 31st of a short month runs into the next one.
OnDayUnclamped(year, month, day) == DayNumber(year, month, day)

\* The day of the month, or the month's last.
OnDay(year, month, day) ==
  LET last == daysInMonth(year, month)
  IN  DayNumber(year, month, IF day < last THEN day ELSE last)

\* addMonths, and what nextMonthly does with the month it lands in.
nextMonthly(spec, from, step) ==
  LET month == MonthOf(from) - 1 + step
      day == IF spec.dayOfMonth = None THEN DayOf(from) ELSE spec.dayOfMonth
  IN  OnDay(YearOf(from) + (month \div 12), (month % 12) + 1, day)

\* A month past December runs into the years after.
nextYearly(spec, from, step) ==
  LET month == (IF spec.monthOfYear = None THEN MonthOf(from) ELSE spec.monthOfYear) - 1
      day == IF spec.dayOfMonth = None THEN DayOf(from) ELSE spec.dayOfMonth
  IN  OnDay(YearOf(from) + step + (month \div 12), (month % 12) + 1, day)

nextSelectedWeekday(spec, from) ==
  LET hits == {i \in 1..7 : dartWeekday(from + i) \in spec.weekdays}
  IN  IF hits = {} THEN 0
      ELSE from + CHOOSE i \in hits : \A j \in hits : i <= j

\* Before the end date is looked at.
Following(spec, from) ==
  LET step == effectiveInterval(spec) IN
  CASE spec.frequency = "daily" -> from + step
    [] spec.frequency \in {"weekly", "everyNWeeks"} -> from + 7 * step
    [] spec.frequency \in {"monthly", "everyNMonths"} -> nextMonthly(spec, from, step)
    [] spec.frequency = "yearly" -> nextYearly(spec, from, step)
    [] spec.frequency = "selectedWeekdays" -> nextSelectedWeekday(spec, from)

Over(spec, date) ==
  /\ spec.endDate # 0
  /\ date > spec.endDate \/ (date = spec.endDate /\ spec.endsEarly)

\* wrong variant: the end date is forgotten.
nextAfterEndless(spec, from) == Following(spec, from)

nextAfter(spec, from) ==
  LET next == Following(spec, from) IN IF Over(spec, next) THEN 0 ELSE next

\* In minutes; nine o'clock unless the rule says otherwise.  Of a negative minute of
\* the day the hours are rounded down and the minutes, which are negative, kept.
reminderFor(spec, due) ==
  LET minute == IF spec.reminderMinuteOfDay = None THEN 9 * 60
                ELSE spec.reminderMinuteOfDay
      hour == IF minute < 0 /\ minute % 60 # 0 THEN 60 ELSE 0
  IN  IF spec.reminderDaysBefore = None THEN None
      ELSE (due - spec.reminderDaysBefore) * Minutes + minute - hour

-----------------------------------------------------------------------------
(* What the rules promise, said of two dates                               *)

MonthsSince(from, next) ==
  12 * (YearOf(next) - YearOf(from)) + MonthOf(next) - MonthOf(from)

\* The wanted day of the month, or the last day of a month that lacks it.
FallsOn(next, day) ==
  \/ DayOf(next) = day
  \/ DayOf(next) < day /\ MonthOf(next + 1) # MonthOf(next)

WantedDay(spec, from) == IF spec.dayOfMonth = None THEN DayOf(from) ELSE spec.dayOfMonth

\* next is the date that follows from, of a rule in CalendarSpec.
Fits(spec, from, next) ==
  LET step == effectiveInterval(spec) IN
  CASE spec.frequency = "daily" -> next - from = step
    [] spec.frequency \in {"weekly", "everyNWeeks"} ->
         next - from = 7 * step
    [] spec.frequency \in {"monthly", "everyNMonths"} ->
         MonthsSince(from, next) = step /\ FallsOn(next, WantedDay(spec, from))
    [] spec.frequency = "yearly" ->
         /\ YearOf(next) - YearOf(from) = step
         /\ MonthOf(next) = IF spec.monthOfYear = None THEN MonthOf(from) ELSE spec.monthOfYear
         /\ FallsOn(next, WantedDay(spec, from))
    [] spec.frequency = "selectedWeekdays" ->
         /\ next > from
         /\ dartWeekday(next) \in spec.weekdays
         /\ \A d \in (from + 1)..(next - 1) : dartWeekday(d) \notin spec.weekdays
=============================================================================
