-------------------------------- MODULE Tasks --------------------------------
(***************************************************************************)
(* TasksService on the tasks of one series: complete, reopen, drop,        *)
(* carryForward, restore, PATCH, removeTask and the checklist, with the    *)
(* recurrence service behind complete, the sweep beside it, devices that   *)
(* push completions, and processes that die between two statements.        *)
(***************************************************************************)
EXTENDS Series

CONSTANTS
  Deadlines,    \* the deadlines a PATCH may set, 0 to remove it
  Backdate,     \* may a completion be reported later than it happened?
  MaxRequests,  \* bound on requests
  MaxCrashes    \* bound on processes dying in the middle of one

TaskOps == {"complete", "reopen", "drop", "carry", "restore", "mark", "move",
            "remove", "add", "tick", "discard", "push", "end"}

ASSUME TasksAssumption ==
  /\ Rule \in RecurrenceSpecDto   \* the series began with createTask
  /\ Deadlines \subseteq Dates
  /\ Backdate \in BOOLEAN
  /\ MaxRequests \in Nat
  /\ MaxCrashes \in Nat

VARIABLES
  requests,   \* how many have arrived; also the clock
  crashes,
  overlap     \* history: has a request ever run beside another one?

vars == <<store, worker, requests, crashes, overlap>>

TypeOK ==
  /\ tasks \in Seq(Task)
  /\ items \in Seq(Item)
  /\ activities \in Seq(Activity)
  /\ rule \in BOOLEAN
  /\ lastSeq \in Nat
  /\ worker \in [Workers -> Request]
  /\ requests \in 0..MaxRequests
  /\ crashes \in 0..MaxCrashes
  /\ overlap \in BOOLEAN

\* A rule, its first occurrence and one step on its checklist, the account having
\* used n numbers before.
InitAfter(n) ==
  /\ tasks = <<[due |-> FirstDue, at |-> 0,
                reminder |-> IF FirstDue = 0 THEN None ELSE reminderFor(Rule, FirstDue),
                status |-> "next", deleted |-> FALSE, completedAt |-> 0,
                carried |-> 0, from |-> 0, seq |-> n + 2]>>
  /\ items = <<[task |-> 1, done |-> FALSE, deleted |-> FALSE, copy |-> 0,
                seq |-> n + 3]>>
  /\ activities = <<>>
  /\ rule = TRUE
  /\ lastSeq = n + 3
  /\ worker = [w \in Workers |-> Idle]
  /\ requests = 0
  /\ crashes = 0
  /\ overlap = FALSE

Init == InitAfter(0)

-----------------------------------------------------------------------------
Now == requests + 2

\* When a reported completion may have happened; no two at one instant.
Instants ==
  IF Backdate THEN (1..Now) \ {tasks[i].completedAt : i \in DOMAIN tasks} ELSE {Now}

Beside(w) == overlap' = (overlap \/ \E v \in Workers \ {w} : ~At(v, "idle"))

Arrive(w, op) ==
  /\ op \in Ops
  /\ At(w, "idle")
  /\ requests < MaxRequests
  /\ requests' = requests + 1
  /\ Beside(w)
  /\ UNCHANGED crashes

Bounds == UNCHANGED <<requests, crashes, overlap>>

-----------------------------------------------------------------------------
(* complete                                                                *)

\* wrong variant: a task that is done is completed again.
AlreadyDoneNever(i) == FALSE

AlreadyDone(i) == tasks[i].status = "done"

CompleteFind(w) ==
  /\ Arrive(w, "complete")
  /\ \E i \in DOMAIN tasks, when \in Instants :
       /\ Alive(i)
       /\ IF AlreadyDone(i) THEN Finish(w)
          ELSE Become(w, [Idle EXCEPT !.op = "complete", !.pc = "allocate",
                            !.id = i, !.when = when, !.anchor = Anchor(i, when),
                            !.at = TimeOfDay(i, when)])
  /\ UNCHANGED store

CompleteNumber(w) ==
  /\ worker[w].op = "complete" /\ At(w, "allocate")
  /\ Number(w, 2, "transaction")
  /\ Bounds

\* One transaction; the row is written whatever has become of it.
CompleteWrite(w) ==
  LET r == worker[w] IN
  /\ r.op = "complete" /\ At(w, "transaction")
  /\ tasks' = [tasks EXCEPT ![r.id] = [@ EXCEPT !.status = "done",
                 !.completedAt = r.when, !.seq = r.base + 1]]
  /\ activities' = Append(activities,
                     [task |-> r.id, of |-> r.id, seq |-> r.base + 2])
  /\ Become(w, [r EXCEPT !.pc = "rule"])
  /\ UNCHANGED <<items, rule, lastSeq>>
  /\ Bounds

Complete(w) == CompleteFind(w) \/ CompleteNumber(w) \/ CompleteWrite(w)

-----------------------------------------------------------------------------
(* Operations that find a row, take a number and write the row             *)

EditOps == {"reopen", "drop", "carry", "restore", "mark", "move"}

\* reopen, drop, carryForward and PATCH find the task twice, to the same effect.
EditFind(w, op) ==
  /\ op \in EditOps
  /\ Arrive(w, op)
  /\ \E i \in DOMAIN tasks, due \in IF op = "move" THEN Deadlines ELSE {0} :
       /\ Alive(i) \/ op = "restore"
       /\ Become(w, [Idle EXCEPT !.op = op, !.pc = "seq", !.id = i, !.due = due,
                       !.when = IF op = "carry" THEN tasks[i].carried ELSE 0])
  /\ UNCHANGED store

\* mark: a PATCH of the status, which leaves completedAt alone.
\* move: a PATCH of the deadline, or its removal; the reminder stays, and so does
\* the series' time of day.
\* carry: the count read before, plus one.
Edited(task, r) ==
  LET t == [task EXCEPT !.seq = r.base + 1] IN
  CASE r.op = "reopen"  -> [t EXCEPT !.status = "next", !.completedAt = 0]
    [] r.op = "drop"    -> [t EXCEPT !.status = "dropped"]
    [] r.op = "carry"   -> [t EXCEPT !.carried = r.when + 1]
    [] r.op = "restore" -> [t EXCEPT !.deleted = FALSE]
    [] r.op = "mark"    -> [t EXCEPT !.status = "done"]
    [] r.op = "move"    -> [t EXCEPT !.due = r.due, !.at = 0]

EditWrite(w) ==
  LET r == worker[w] IN
  /\ r.op \in EditOps /\ At(w, "write")
  /\ tasks' = [tasks EXCEPT ![r.id] = Edited(@, r)]
  /\ Finish(w)
  /\ UNCHANGED <<items, activities, rule, lastSeq>>
  /\ Bounds

\* addChecklistItem finds the task, the other two their item.
ItemFind(w, op) ==
  /\ op \in {"add", "tick", "discard"}
  /\ Arrive(w, op)
  /\ \E k \in DOMAIN IF op = "add" THEN tasks ELSE items :
       /\ IF op = "add" THEN Alive(k) ELSE ~items[k].deleted
       /\ Become(w, [Idle EXCEPT !.op = op, !.pc = "seq", !.id = k])
  /\ UNCHANGED store

\* The item is added ticked or not, or ticked or unticked.
ItemWrite(w) ==
  LET r == worker[w] IN
  /\ r.op \in {"add", "tick", "discard"} /\ At(w, "write")
  /\ \E done \in BOOLEAN :
       items' =
         IF r.op = "add"
         THEN Append(items, [task |-> r.id, done |-> done, deleted |-> FALSE,
                             copy |-> 0, seq |-> r.base + 1])
         ELSE [items EXCEPT ![r.id].seq = r.base + 1,
                            ![r.id].done = IF r.op = "tick" THEN done ELSE @,
                            ![r.id].deleted = @ \/ r.op = "discard"]
  /\ Finish(w)
  /\ UNCHANGED <<tasks, activities, rule, lastSeq>>
  /\ Bounds

Edit(w) ==
  \/ \E op \in Ops : EditFind(w, op) \/ ItemFind(w, op)
  \/ At(w, "seq") /\ Number(w, 1, "write") /\ Bounds
  \/ EditWrite(w) \/ ItemWrite(w)

-----------------------------------------------------------------------------
(* removeTask                                                              *)

RemoveFind(w) ==
  /\ Arrive(w, "remove")
  /\ \E i \in DOMAIN tasks :
       /\ Alive(i)
       /\ Become(w, [Idle EXCEPT !.op = "remove", !.pc = "children", !.id = i])
  /\ UNCHANGED store

\* wrong variant: ticked items are left alone.
ChildrenUnticked(i) ==
  SetToSeq({k \in DOMAIN items :
              items[k].task = i /\ ~items[k].deleted /\ ~items[k].done})

Children(i) == Checklist(i)

RemoveChildren(w) ==
  /\ At(w, "children")
  /\ Become(w, [worker[w] EXCEPT !.pc = "links", !.kids = Children(worker[w].id)])
  /\ UNCHANGED store
  /\ Bounds

\* The activity entries of a task.
Links(i) == SetToSeq({a \in DOMAIN activities : activities[a].task = i})

RemoveLinks(w) ==
  /\ At(w, "links")
  /\ Become(w, [worker[w] EXCEPT !.pc = "reserve", !.links = Links(worker[w].id)])
  /\ UNCHANGED store
  /\ Bounds

RemoveNumber(w) ==
  /\ At(w, "reserve")
  /\ Number(w, 1 + Len(worker[w].kids) + Len(worker[w].links), "delete")
  /\ Bounds

Place(s, x) == CHOOSE n \in DOMAIN s : s[n] = x

\* Children, links, then the task, numbered in this order.
RemoveWrite(w) ==
  LET r == worker[w]
      n == Len(r.kids)
  IN
  /\ At(w, "delete")
  /\ items' = [k \in DOMAIN items |->
       IF Contains(r.kids, k)
       THEN [items[k] EXCEPT !.deleted = TRUE, !.seq = r.base + Place(r.kids, k)]
       ELSE items[k]]
  /\ activities' = [a \in DOMAIN activities |->
       IF Contains(r.links, a)
       THEN [activities[a] EXCEPT !.task = 0, !.seq = r.base + n + Place(r.links, a)]
       ELSE activities[a]]
  /\ tasks' = [tasks EXCEPT ![r.id] = [@ EXCEPT !.deleted = TRUE,
                 !.seq = r.base + n + Len(r.links) + 1]]
  /\ Finish(w)
  /\ UNCHANGED <<rule, lastSeq>>
  /\ Bounds

RemoveTask(w) ==
  \/ RemoveFind(w) \/ RemoveChildren(w) \/ RemoveLinks(w)
  \/ RemoveNumber(w) \/ RemoveWrite(w)

-----------------------------------------------------------------------------
(* Pushes, each one transaction (module SyncPush)                          *)

\* A completion made offline: the row alone, with the device's time.  An upsert
\* undeletes.
PushCompletion(w) ==
  /\ Arrive(w, "push")
  /\ \E i \in DOMAIN tasks, when \in Instants :
       tasks' = [tasks EXCEPT ![i] = [@ EXCEPT !.status = "done",
                   !.completedAt = when, !.deleted = FALSE, !.seq = lastSeq + 1]]
  /\ lastSeq' = lastSeq + 1
  /\ UNCHANGED <<items, activities, rule, worker>>

PushRuleEnd(w) ==
  /\ Arrive(w, "end")
  /\ rule' = FALSE
  /\ lastSeq' = lastSeq + 1
  /\ UNCHANGED <<tasks, items, activities, worker>>

-----------------------------------------------------------------------------
Crash(w) ==
  /\ ~At(w, "idle")
  /\ crashes < MaxCrashes
  /\ crashes' = crashes + 1
  /\ Finish(w)
  /\ UNCHANGED <<store, requests, overlap>>

Sweep ==
  \/ SweepStep /\ Beside(Sweeper) /\ UNCHANGED <<requests, crashes>>
  \/ SpawnStep(Sweeper) /\ Bounds

Next ==
  \/ \E w \in Handlers :
       \/ Complete(w) \/ Edit(w) \/ RemoveTask(w) \/ PushCompletion(w) \/ PushRuleEnd(w)
       \/ SpawnStep(w) /\ Bounds
  \/ Sweep
  \/ \E w \in Workers : Crash(w)

Spec == Init /\ [][Next]_vars

\* The timer starts the sweep every day; a sweep that dies is started again.
\* A request that has not died goes on.
LiveSpec ==
  /\ Spec
  /\ WF_vars(Sweep)
  /\ \A w \in Handlers : WF_vars(SpawnStep(w) /\ Bounds)

-----------------------------------------------------------------------------
(* Properties                                                              *)

NumbersOf(kind, rows) == {<<kind, n, rows[n].seq>> : n \in DOMAIN rows}

Numbers ==
  NumbersOf("task", tasks) \union NumbersOf("item", items)
    \union NumbersOf("activity", activities)

\* No two rows of the account carry one number, whichever requests overlap:
\* complete, removeTask and the spawn reserve blocks (seq.allocate) and must
\* stay inside them.
NumbersDistinct ==
  /\ \A x, y \in Numbers : x[3] = y[3] => x = y
  /\ \A x \in Numbers : x[3] <= lastSeq

Ends(w) == ~At(w, "idle") /\ worker'[w] = Idle /\ crashes' = crashes

\* The live occurrences of a day, and of one instant of it.
LiveIn(rows, due) ==
  {i \in DOMAIN rows : ~rows[i].deleted /\ rows[i].due = due}

LiveOn(due) == LiveIn(tasks, due)
LiveAt(due, at) == {i \in LiveOn(due) : tasks[i].at = at}

\* Requests that do not overlap create no occurrence twice and never let the series
\* stop: one that was to bring about the next occurrence leaves one of that date,
\* unless the rule has ended, and creates none whose deadline is there already
\* (spawnNextOccurrence; tests "does not fork the series ...").
SpawnsOnce ==
  [][~overlap => \A w \in Workers :
       Ends(w) /\ worker[w].pc \in {"rule", "existing", "create"} =>
         \/ ~rule \/ NextDue(worker[w].anchor) = 0
         \/ LET due == NextDue(worker[w].anchor) IN
            /\ LiveIn(tasks', due) # {}
            /\ LiveAt(due, worker[w].at) = {} \/ tasks' = tasks]_vars

\* "Completing the same occurrence twice (an undo, a replayed sync push) must not
\* fork the series" (spawnNextOccurrence): an occurrence has no second successor,
\* on whatever date, however requests overlap or follow one another.
NoFork ==
  [][\A w \in Workers : Ends(w) /\ At(w, "create") =>
       \A i \in DOMAIN tasks : Alive(i) => tasks[i].from # worker[w].id]_vars

\* The history tells each completion once: an activity entry comes with the
\* step that turns its task done (test "completing twice does not double the history").
HistoryOnce ==
  [][~overlap => \A a \in DOMAIN activities' \ DOMAIN activities :
       LET i == activities'[a].of IN
       tasks[i].status # "done" /\ tasks'[i].status = "done"]_vars

\* The checklist of the completed occurrence carries forward, all of it and
\* unticked ("a recurring obligation keeps its steps").
ChecklistCarried ==
  [][~overlap => \A i \in DOMAIN tasks' \ DOMAIN tasks :
       LET new == {k \in DOMAIN items' : items'[k].task = i} IN
       /\ \A k \in new : ~items'[k].done /\ ~items'[k].deleted
       /\ {items'[k].copy : k \in new} =
            {k \in DOMAIN items : items[k].task = tasks'[i].from /\ ~items[k].deleted}
     ]_vars

\* Every occurrence the server creates is due when the rule says the one it was
\* created from is followed, however that came about, and its reminder is so
\* many days before ("they must produce the same date for the same rule, or a
\* recurring obligation drifts", recurrence.spec-model.ts).
OnSchedule ==
  [][\A w \in Workers : Ends(w) /\ At(w, "create") =>
       LET new == tasks'[Len(tasks')]
           days == Rule.reminderDaysBefore
       IN
       /\ Fits(Rule, worker[w].anchor, new.due)
       /\ ~Over(Rule, new.due)
       /\ days = None \/ new.reminder \div Minutes = new.due - days]_vars

\* removeTask leaves no live checklist item and no activity link behind, and
\* what was added while the task was deleted stays out.
DeleteCleans ==
  ~overlap => \A i \in DOMAIN tasks : tasks[i].deleted =>
                /\ Checklist(i) = <<>>
                /\ \A a \in DOMAIN activities : activities[a].task # i

\* The series the sweep is there for: its most recently completed occurrence
\* has no successor and nothing is open.
Stalled ==
  /\ rule
  /\ \A i \in DOMAIN tasks : ~Open(i)
  /\ \E i \in DOMAIN tasks : Completed(i)
  /\ \A i \in DOMAIN tasks : Latest(i) =>
       LET due == NextDue(Anchor(i, tasks[i].completedAt)) IN
       due # 0 /\ LiveOn(due) = {}

\* After crashes, lost requests and pushed completions the sweep gets the
\* series going again.
Repaired == Stalled ~> ~Stalled

\* A series whose last occurrence by date is completed, with nothing open.
Halted ==
  /\ rule
  /\ \A i \in DOMAIN tasks : ~Open(i)
  /\ \E i \in DOMAIN tasks :
       /\ Completed(i)
       /\ \A j \in DOMAIN tasks : Alive(j) => tasks[j].due <= tasks[i].due
       /\ NextDue(tasks[i].due) # 0

\* "A series needs attention when its most recent occurrence is complete and
\* no open occurrence exists" (recurrence.service.ts).
GoesOn == Halted ~> ~Halted

-----------------------------------------------------------------------------
(* Why requests that do not overlap keep their promises: what a request    *)
(* has read is still so when it writes.                                    *)

\* One worker at most is at work.
OneAtATime ==
  \A v, w \in Workers : At(v, "idle") \/ At(w, "idle") \/ v = w

\* The task a request is about, the occurrence it found missing, and the lists it
\* has made are what they were.
ReadStands(w) ==
  LET r == worker[w] IN
  /\ r.pc \in {"allocate", "transaction"} => Alive(r.id) /\ ~AlreadyDone(r.id)
  /\ r.op = "add" /\ r.pc \in {"seq", "write"} => Alive(r.id)
  /\ r.pc \in {"template", "number", "create"} => LiveAt(r.due, r.at) = {}
  /\ r.pc \in {"number", "create", "links", "reserve", "delete"} =>
       r.kids = Checklist(r.id)
  /\ r.pc \in {"reserve", "delete"} => r.links = Links(r.id)

\* A live checklist item is a step of a live task, an entry that is linked leads to one.
ItemsHang ==
  \A k \in DOMAIN items :
    /\ items[k].task \in DOMAIN tasks
    /\ items[k].deleted \/ Alive(items[k].task)

LinksLead ==
  \A a \in DOMAIN activities :
    activities[a].task = 0 \/ Alive(activities[a].task)

SerialInv ==
  ~overlap =>
    /\ OneAtATime
    /\ \A w \in Workers : ReadStands(w)
    /\ ItemsHang
    /\ LinksLead
=============================================================================
