------------------------------ MODULE MCSeries -------------------------------
(***************************************************************************)
(* MCTasks, and the calendar of RecurrenceDates over bounded inputs: every *)
(* date of 2024 to 2028, and of the two turns of a century 2100 and 2400.  *)
(***************************************************************************)
EXTENDS MCTasks

\* 2100 has no 29 February, 2400 has one.
Days ==
  1..DayNumber(2028, 12, 31)
    \union {DayNumber(y, m, d) : y \in {2100, 2400}, m \in {1, 2, 3}, d \in 27..29}

\* The day after, by the lengths of the months.
Tomorrow(year, month, day) ==
  LET length == <<31, IF Leap(year) THEN 29 ELSE 28, 31, 30, 31, 30,
                  31, 31, 30, 31, 30, 31>>[month]
  IN  CASE day < length -> <<year, month, day + 1>>
        [] day = length /\ month < 12 -> <<year, month + 1, 1>>
        [] day = length /\ month = 12 -> <<year + 1, 1, 1>>

DateOf(n) == <<YearOf(n), MonthOf(n), DayOf(n)>>

\* The numbers of days are the calendar's dates, and back.
ASSUME CalendarRight ==
  /\ DateOf(1) = <<2024, 1, 1>>
  /\ \A n \in Days :
       /\ DateOf(n + 1) = Tomorrow(YearOf(n), MonthOf(n), DayOf(n))
       /\ DayNumber(YearOf(n), MonthOf(n), DayOf(n)) = n

Plain == [Monthly(0) EXCEPT !.dayOfMonth = None]

Specs ==
  {[Plain EXCEPT !.frequency = f, !.interval = i] :
     f \in {"daily", "weekly", "everyNWeeks"}, i \in {0, 1, 3}}
  \union
  {[Plain EXCEPT !.frequency = f, !.interval = i, !.dayOfMonth = d] :
     f \in {"monthly", "everyNMonths"}, i \in {0, 1, 3, 13}, d \in {None, 1, 15} \union 28..31}
  \union
  {[Plain EXCEPT !.frequency = "yearly", !.interval = i, !.dayOfMonth = d, !.monthOfYear = m] :
     i \in {1, 4}, d \in {None, 1, 29, 31}, m \in {None, 1, 2, 4, 12}}
  \union
  {[Plain EXCEPT !.frequency = "selectedWeekdays", !.weekdays = s] :
     s \in SUBSET Weekdays \ {{}}}

\* Every rule advances to the date it promises: short months, leap days, masks that
\* wrap over the week's end and steps over the year's end included; an empty
\* mask ends the series.
ASSUME DatesAgree ==
  /\ \A spec \in Specs, from \in Days :
       \E next \in {nextAfter(spec, from)} : next > from /\ Fits(spec, from, next)
  /\ \A from \in Days :
       nextAfter([Plain EXCEPT !.frequency = "selectedWeekdays"], from) = 0

\* With a day of the month a series does not drift: whatever short months it
\* goes through, the next occurrence is the day the rule names, or the month's last.
ASSUME NoDrift ==
  \A d \in 28..31, from \in Days :
    \E first \in {nextAfter([Plain EXCEPT !.dayOfMonth = d], from)} :
      \E second \in {nextAfter([Plain EXCEPT !.dayOfMonth = d], first)} :
        MonthsSince(from, second) = 2 /\ FallsOn(second, d)
=============================================================================
