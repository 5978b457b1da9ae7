------------------------------- MODULE MCTasks -------------------------------
(***************************************************************************)
(* Instances of Tasks: the 31st of every month, 2024.                      *)
(***************************************************************************)
EXTENDS Tasks

AllOps == TaskOps
SeriesOps == {"complete", "reopen", "drop", "push", "remove", "add", "end"}
UndoOps == {"complete", "reopen", "push"}

Jan31 == DayNumber(2024, 1, 31)
Feb29 == DayNumber(2024, 2, 29)
Mar31 == DayNumber(2024, 3, 31)

Monthly(end) ==
  [frequency |-> "monthly", interval |-> 1, weekdays |-> {}, dayOfMonth |-> 31,
   monthOfYear |-> None, endDate |-> end, endsEarly |-> FALSE, reminderDaysBefore |-> 3,
   reminderMinuteOfDay |-> 600]
ToMarch == Monthly(Mar31)
\* The end is on that day, earlier than the deadlines.
ToMarchEarly == [ToMarch EXCEPT !.endsEarly = TRUE]
SomeDeadlines == {0, Jan31, Feb29}
=============================================================================
