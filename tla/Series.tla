------------------------------- MODULE Series --------------------------------
(***************************************************************************)
(* RecurrenceService: the occurrences of one recurring task, and the two   *)
(* ways the next one comes to be, a completion and the nightly sweep       *)
(* (jobs/materialise-recurrence.ts).                                       *)
(*                                                                         *)
(* A worker is a process serving one request, or running the sweep.  Each  *)
(* of its database statements is a step; a $transaction is one step.       *)
(* The dates are those of module RecurrenceDates.                          *)
(***************************************************************************)
EXTENDS RecurrenceDates, SequencesExt

CONSTANTS
  Handlers,   \* requests that may run at once
  Sweeper,    \* the process of the nightly sweep
  FirstDue,   \* the deadline of the first occurrence, 0 for none
  Rule,       \* the recurrence rule, as toSpec gives it
  Ops         \* the operations requests may ask for

\* No deadline, or one before the rule's end.
Dates == {date \in Nat : ~Over(Rule, date)}

ASSUME SeriesAssumption ==
  /\ Sweeper \notin Handlers
  /\ Rule \in CalendarSpec
  /\ FirstDue \in Dates

VARIABLES
  tasks,        \* the occurrences of the series, by id
  items,        \* checklist items, by id
  activities,   \* activity entries, by id
  rule,         \* is the recurrence rule there, not deleted?
  lastSeq,      \* the account's sequence
  worker        \* what each worker is doing

Workers == Handlers \union {Sweeper}

store == <<tasks, items, activities, rule, lastSeq>>

\* due, completedAt: 0 for null.  at: what gave the deadline its time of day, 0 for
\* the series' own, or the completion of a task without a deadline.
\* carried: carryForwardCount.
\* from: the occurrence it was created from (history; 0 for the first).
Task == [due : Dates, at : Nat, reminder : Int \union {None}, status : {"next", "done", "dropped"},
         deleted : BOOLEAN, completedAt : Nat, carried : Nat, from : Nat, seq : Nat]

\* copy: the item it was copied from (history).
Item == [task : Nat, done : BOOLEAN, deleted : BOOLEAN, copy : Nat, seq : Nat]

\* task: 0 once decoupled.  of: the task whose completion it records (history).
Activity == [task : Nat, of : Nat, seq : Nat]

\* A worker between requests; when, due: arguments of the request, or a value
\* it has read and will write back.
Idle == [op |-> "idle", pc |-> "idle", id |-> 0, anchor |-> 0, at |-> 0, when |-> 0,
         due |-> 0, kids |-> <<>>, links |-> <<>>, base |-> 0]

\* The statement a worker is about to execute: of a spawn, of the sweep, of a
\* request to TasksService, to MeetingsService.
Statements ==
  {"idle", "rule", "existing", "template", "number", "create"}
    \union {"open"}
    \union {"seq", "write", "allocate", "transaction", "children", "links",
            "reserve", "delete"}
    \union {"notes", "numbers", "split"}

Request ==
  [op : Ops \union {"idle", "sweep"}, pc : Statements, id : Nat,
   anchor : Nat, at : Nat, when : Nat, due : Nat, kids : Seq(Nat), links : Seq(Nat), base : Nat]

Alive(i) == i \in DOMAIN tasks /\ ~tasks[i].deleted
Open(i) == Alive(i) /\ tasks[i].status = "next"
Completed(i) ==
  Alive(i) /\ tasks[i].status = "done" /\ tasks[i].completedAt # 0

\* Worked out once for the first year, whose dates an instance meets.
Tabled == [date \in 0..366 |-> nextAfter(Rule, date)]

\* The next occurrence's date, 0 once the series has ended.
NextDue(anchor) ==
  IF anchor \in 0..366 THEN Tabled[anchor] ELSE nextAfter(Rule, anchor)

\* wrong variant: deleted items come along.
ChecklistAll(i) == SetToSeq({k \in DOMAIN items : items[k].task = i})

\* The live items of a task; which comes first makes no difference here.
Checklist(i) ==
  SetToSeq({k \in DOMAIN items : items[k].task = i /\ ~items[k].deleted})

-----------------------------------------------------------------------------
At(w, pc) == worker[w].pc = pc
Become(w, request) == worker' = [worker EXCEPT ![w] = request]
Finish(w) == Become(w, Idle)

\* seq.allocate, outside any transaction.
Number(w, n, pc) ==
  /\ lastSeq' = lastSeq + n
  /\ Become(w, [worker[w] EXCEPT !.pc = pc, !.base = lastSeq])
  /\ UNCHANGED <<tasks, items, activities, rule>>

-----------------------------------------------------------------------------
(* spawnNextOccurrence, from pc = "rule"                                   *)

\* The rule is gone, or has ended.
SpawnEnds(w) ==
  /\ At(w, "rule")
  /\ ~rule \/ NextDue(worker[w].anchor) = 0
  /\ Finish(w)
  /\ UNCHANGED store

SpawnRule(w) ==
  /\ At(w, "rule")
  /\ rule /\ NextDue(worker[w].anchor) # 0
  /\ Become(w, [worker[w] EXCEPT !.pc = "existing",
                                 !.due = NextDue(worker[w].anchor)])
  /\ UNCHANGED store

\* wrong variant: nobody looks whether the occurrence is there.
ExistingIgnored(w) == FALSE

OfDay(w) == {i \in DOMAIN tasks : Alive(i) /\ tasks[i].due = worker[w].due}

\* One of the same instant.
Existing(w) == \E i \in OfDay(w) : tasks[i].at = worker[w].at

\* Of deadlines whose times of day come from different completions it is open
\* whether they agree: some rules cut them to the minute.
SpawnFound(w) ==
  /\ At(w, "existing")
  /\ OfDay(w) # {}
  /\ Finish(w)
  /\ UNCHANGED store

SpawnMissing(w) ==
  /\ At(w, "existing")
  /\ ~Existing(w)
  /\ Become(w, [worker[w] EXCEPT !.pc = "template"])
  /\ UNCHANGED store

SpawnTemplate(w) ==
  /\ At(w, "template")
  /\ Become(w, [worker[w] EXCEPT !.pc = "number", !.kids = Checklist(worker[w].id)])
  /\ UNCHANGED store

SpawnNumber(w) ==
  /\ At(w, "number")
  /\ Number(w, 1 + Len(worker[w].kids), "create")

\* wrong variant: the checklist is read again when the occurrence is created.
TemplateReread(w) == Checklist(worker[w].id)

Template(w) == worker[w].kids

\* The occurrence and its unticked checklist, in one transaction.
SpawnCreate(w) ==
  LET r == worker[w]
      template == Template(w)
      next == [due |-> r.due, at |-> r.at, reminder |-> reminderFor(Rule, r.due),
               status |-> "next", deleted |-> FALSE, completedAt |-> 0,
               carried |-> 0, from |-> r.id, seq |-> r.base + 1]
  IN
  /\ At(w, "create")
  /\ tasks' = Append(tasks, next)
  /\ items' = items \o [k \in DOMAIN template |->
                 [task |-> Len(tasks) + 1, done |-> FALSE, deleted |-> FALSE,
                  copy |-> template[k], seq |-> r.base + 1 + k]]
  /\ Finish(w)
  /\ UNCHANGED <<activities, rule, lastSeq>>

SpawnStep(w) ==
  \/ SpawnEnds(w) \/ SpawnRule(w)
  \/ SpawnFound(w) \/ SpawnMissing(w)
  \/ SpawnTemplate(w) \/ SpawnNumber(w) \/ SpawnCreate(w)

-----------------------------------------------------------------------------
(* materialiseDueSeries                                                    *)

\* The deadline, or for a task without one the time it was completed.
Anchor(i, when) == IF tasks[i].due = 0 THEN when ELSE tasks[i].due
TimeOfDay(i, when) == IF tasks[i].due = 0 THEN when ELSE tasks[i].at

\* The most recently completed occurrence.
Latest(i) ==
  Completed(i) /\ \A j \in DOMAIN tasks :
                    Completed(j) => tasks[j].completedAt <= tasks[i].completedAt

SweepList ==
  /\ At(Sweeper, "idle")
  /\ \E i \in DOMAIN tasks :
       /\ Latest(i)
       /\ Become(Sweeper, [Idle EXCEPT !.op = "sweep", !.pc = "open", !.id = i,
                             !.anchor = Anchor(i, tasks[i].completedAt),
                             !.at = TimeOfDay(i, tasks[i].completedAt)])
  /\ UNCHANGED store

\* Nothing has been completed.
SweepNothing ==
  /\ At(Sweeper, "idle")
  /\ \A i \in DOMAIN tasks : ~Completed(i)
  /\ UNCHANGED <<store, worker>>

\* wrong variant: what is done or dropped counts as open.
SomeLive == \E i \in DOMAIN tasks : Alive(i)

SomeOpen == \E i \in DOMAIN tasks : Open(i)

SweepOpen ==
  /\ At(Sweeper, "open")
  /\ IF SomeOpen THEN Finish(Sweeper)
     ELSE Become(Sweeper, [worker[Sweeper] EXCEPT !.pc = "rule"])
  /\ UNCHANGED store

SweepStep == SweepList \/ SweepNothing \/ SweepOpen
=============================================================================
