----------------------------- MODULE MCMeetings ------------------------------
(***************************************************************************)
(* Tasks, recurrence and a meeting together.                               *)
(***************************************************************************)
EXTENDS MCTasks, Meetings

DayOps == TaskOps \union MeetingOps
=============================================================================
