----------------------------- MODULE SerialProofs -----------------------------
(***************************************************************************)
(* What requests promise that do not overlap, for any number of handlers,  *)
(* any rule and any mix of operations, crashes and completions that are    *)
(* pushed: the series does not fork, the history tells a completion once,  *)
(* the checklist is carried forward, a deletion leaves nothing behind, raw *)
(* notes are split once.                                                   *)
(*                                                                         *)
(* SerialInv and SplitInv are the inductive invariants: nobody runs beside *)
(* a request, so what it has read is still so when it writes.              *)
(***************************************************************************)
EXTENDS NumberProofs

-----------------------------------------------------------------------------
(* Nobody runs beside a request                                            *)

\* A step begins a request, and looks who else is at work, or goes on with one.
LEMMA BeginsOrGoesOn ==
  ASSUME NEW w \in Workers, TaskStep(w) \/ MeetingStep(w)
  PROVE  ~overlap' => /\ ~overlap
                      /\ ~At(w, "idle") \/ \A v \in Workers \ {w} : At(v, "idle")
<1> DEFINE Lone == ~overlap' => /\ ~overlap
                                /\ ~At(w, "idle") \/ \A v \in Workers \ {w} : At(v, "idle")
<1>1. ASSUME NEW op, Arrive(w, op) PROVE Lone
  BY <1>1 DEF Arrive, Beside
<1>2. ASSUME Bounds, NEW pc, At(w, pc), pc # "idle" PROVE Lone
  BY <1>2 DEF Bounds, At
<1>3. CASE Complete(w)
  BY <1>1, <1>2, <1>3 DEF Complete, CompleteFind, CompleteNumber, CompleteWrite
<1>4. CASE Edit(w)
  BY <1>1, <1>2, <1>4 DEF Edit, EditFind, ItemFind, EditWrite, ItemWrite
<1>5. CASE RemoveTask(w)
  BY <1>1, <1>2, <1>5 DEF RemoveTask, RemoveFind, RemoveChildren, RemoveLinks,
                          RemoveNumber, RemoveWrite
<1>6. CASE PushCompletion(w) \/ PushRuleEnd(w)
  BY <1>1, <1>6 DEF PushCompletion, PushRuleEnd
<1>7. CASE SpawnStep(w) /\ Bounds
  BY <1>2, <1>7 DEF SpawnStep, SpawnEnds, SpawnRule, SpawnFound, SpawnMissing,
                    SpawnTemplate, SpawnNumber, SpawnCreate
<1>8. CASE w = Sweeper /\ SweepStep /\ Beside(Sweeper)
  BY <1>8 DEF Lone, Beside
<1>9. CASE Crash(w)
  BY <1>9 DEF Lone, Crash
<1>10. CASE MeetingStep(w)
  BY <1>1, <1>2, <1>10 DEF MeetingStep, MeetingFind, MeetingWrite, NoteAdd, NoteWrite,
                           SplitRead, SplitNumber, SplitWrite
<1> QED BY <1>3, <1>4, <1>5, <1>6, <1>7, <1>8, <1>9, <1>10 DEF TaskStep, Lone

\* While no request has overlapped another, the others are idle.
LEMMA Alone ==
  ASSUME WorkersOK, SerialInv, NEW w \in Workers,
         TaskStep(w) \/ MeetingStep(w), ~overlap'
  PROVE  /\ ~overlap
         /\ \A v \in Workers : v # w => worker[v].pc = "idle" /\ worker'[v] = worker[v]
<1>1. \A v \in Workers : v # w => worker'[v] = worker[v]
  BY OthersWait
<1>2. ~overlap /\ (~At(w, "idle") \/ \A v \in Workers \ {w} : At(v, "idle"))
  BY BeginsOrGoesOn
<1> QED BY <1>1, <1>2 DEF SerialInv, OneAtATime, At

\* What holds of a request and of the rows it finds.
Stands(w) == ReadStands(w) /\ ItemsHang /\ LinksLead

LEMMA SerialFrame ==
  ASSUME WorkersOK, SerialInv, NEW w \in Workers,
         TaskStep(w) \/ MeetingStep(w), Stands(w) => Stands(w)'
  PROVE  SerialInv'
<1> SUFFICES ASSUME ~overlap'
             PROVE  (/\ OneAtATime
                     /\ \A v \in Workers : ReadStands(v)
                     /\ ItemsHang
                     /\ LinksLead)'
  BY DEF SerialInv
<1>1. /\ ~overlap
      /\ \A v \in Workers : v # w => worker[v].pc = "idle" /\ worker'[v] = worker[v]
  BY Alone
<1>2. Stands(w)'
  BY <1>1 DEF SerialInv, Stands
<1>3. OneAtATime'
  BY <1>1 DEF OneAtATime, At
<1>4. ASSUME NEW v \in Workers PROVE ReadStands(v)'
  <2>1. CASE v = w
    BY <1>2, <2>1 DEF Stands
  <2>2. CASE v # w
    <3>1. worker'[v].pc = "idle"
      BY <1>1, <2>2
    <3> QED BY <3>1 DEF ReadStands
  <2> QED BY <2>1, <2>2
<1> QED BY <1>2, <1>3, <1>4 DEF Stands

-----------------------------------------------------------------------------
(* The steps that only read                                                *)

SameRows == UNCHANGED <<tasks, items, activities>>

LEMMA ListsKept ==
  ASSUME SameRows
  PROVE  /\ \A i : Checklist(i)' = Checklist(i)
         /\ \A i : Links(i)' = Links(i)
         /\ \A due, at : LiveAt(due, at)' = LiveAt(due, at)
         /\ \A i : Alive(i)' <=> Alive(i)
         /\ ItemsHang' <=> ItemsHang
         /\ LinksLead' <=> LinksLead
BY DEF SameRows, Checklist, Links, LiveAt, LiveOn, LiveIn, Alive, ItemsHang, LinksLead

LEMMA ReadsNothing ==
  ASSUME NEW w, SameRows, ItemsHang, LinksLead,
         \/ worker'[w].pc \in {"idle", "open", "rule", "existing", "children",
                               "notes", "numbers", "split"}
         \/ worker'[w].pc \in {"seq", "write"} /\ worker'[w].op # "add"
  PROVE  Stands(w)'
<1>1. ReadStands(w)'
  BY DEF ReadStands
<1> QED BY <1>1, ListsKept DEF Stands

LEMMA FinishStands ==
  ASSUME WorkersOK, NEW w \in Workers, Finish(w), SameRows, ItemsHang, LinksLead
  PROVE  Stands(w)'
<1>1. worker'[w].pc = "idle"
  BY ItsRequest DEF Finish, Idle
<1> QED BY <1>1, ReadsNothing

-----------------------------------------------------------------------------
(* What a request has read is still so                                     *)

\* spawnNextOccurrence, the transaction included: its occurrence is live.
LEMMA SpawnStands ==
  ASSUME RowsOK, WorkersOK, NEW w \in Workers, SpawnStep(w), Stands(w)
  PROVE  Stands(w)'
<1> DEFINE r == worker[w]
<1>1. r \in Request
  BY ItsFields
<1>2. ReadStands(w) /\ ItemsHang /\ LinksLead
  BY DEF Stands
<1>3. CASE SpawnEnds(w) \/ SpawnFound(w)
  BY <1>2, <1>3, FinishStands DEF SpawnEnds, SpawnFound, store, SameRows
<1>4. CASE SpawnRule(w)
  <2>1. worker'[w].pc = "existing" /\ SameRows
    BY <1>1, <1>4, ItsRequest DEF SpawnRule, Request, store, SameRows
  <2> QED BY <1>2, <2>1, ReadsNothing
<1>5. CASE SpawnMissing(w)
  <2>1. /\ worker'[w].pc = "template" /\ worker'[w].due = r.due /\ worker'[w].at = r.at
        /\ SameRows
    BY <1>1, <1>5, ItsRequest DEF SpawnMissing, Request, store, SameRows
  <2>2. LiveAt(r.due, r.at) = {}
    BY <1>5 DEF SpawnMissing, Existing, OfDay, LiveAt, LiveOn, LiveIn, Alive
  <2>3. ReadStands(w)'
    BY <2>1, <2>2, ListsKept DEF ReadStands
  <2> QED BY <1>2, <2>1, <2>3, ListsKept DEF Stands
<1>6. CASE SpawnTemplate(w)
  <2>1. /\ worker'[w].pc = "number" /\ worker'[w].due = r.due /\ worker'[w].id = r.id
        /\ worker'[w].at = r.at
        /\ worker'[w].kids = Checklist(r.id) /\ SameRows
    BY <1>1, <1>6, ItsRequest DEF SpawnTemplate, Request, store, SameRows
  <2>2. LiveAt(r.due, r.at) = {}
    BY <1>2, <1>6 DEF SpawnTemplate, At, ReadStands
  <2>3. ReadStands(w)'
    BY <2>1, <2>2, ListsKept DEF ReadStands
  <2> QED BY <1>2, <2>1, <2>3, ListsKept DEF Stands
<1>7. CASE SpawnNumber(w)
  <2>1. /\ worker'[w].pc = "create" /\ worker'[w].due = r.due /\ worker'[w].id = r.id
        /\ worker'[w].at = r.at
        /\ worker'[w].kids = r.kids /\ SameRows
    BY <1>1, <1>7, ItsRequest DEF SpawnNumber, Number, Request, SameRows
  <2>2. LiveAt(r.due, r.at) = {} /\ r.kids = Checklist(r.id)
    BY <1>2, <1>7 DEF SpawnNumber, At, ReadStands
  <2>3. ReadStands(w)'
    BY <2>1, <2>2, ListsKept DEF ReadStands
  <2> QED BY <1>2, <2>1, <2>3, ListsKept DEF Stands
<1>8. CASE SpawnCreate(w)
  <2> DEFINE n == Len(r.kids)
  <2>1. PICK next \in Task, copies \in Seq(Item) :
          /\ tasks' = Append(tasks, next) /\ items' = items \o copies
          /\ ~next.deleted /\ Len(copies) = n
          /\ \A k \in 1..n : copies[k].task = Len(tasks) + 1
    BY <1>8, Created
  <2>2. Finish(w) /\ UNCHANGED activities
    BY <1>8 DEF SpawnCreate
  <2>3. /\ DOMAIN tasks' = 1..(Len(tasks) + 1) /\ tasks'[Len(tasks) + 1] = next
        /\ \A i \in DOMAIN tasks : i \in DOMAIN tasks' /\ tasks'[i] = tasks[i]
        /\ Len(tasks) + 1 \in DOMAIN tasks'
    BY <2>1, Appended DEF RowsOK
  <2> DEFINE StaysAlive(i) == i \in DOMAIN tasks' /\ ~tasks'[i].deleted
  <2>4. \A i : Alive(i) => StaysAlive(i)
    BY <2>3 DEF Alive
  <2>5. StaysAlive(Len(tasks) + 1)
    BY <2>1, <2>3
  <2>6. ItemsHang'
    <3> SUFFICES ASSUME NEW k \in DOMAIN items'
                 PROVE  /\ items'[k].task \in DOMAIN tasks'
                        /\ items'[k].deleted \/ StaysAlive(items'[k].task)
      BY DEF ItemsHang, Alive
    <3>1. items \in Seq(Item) /\ Len(items) \in Nat /\ n \in Nat
      BY <1>1, SMTT(30) DEF RowsOK, Request
    <3>2. \/ k \in DOMAIN items /\ items'[k] = items[k]
          \/ k - Len(items) \in 1..n /\ items'[k] = copies[k - Len(items)]
      BY <2>1, <3>1
    <3>3. CASE k \in DOMAIN items /\ items'[k] = items[k]
      BY <1>2, <2>3, <2>4, <3>3 DEF ItemsHang
    <3>4. CASE k - Len(items) \in 1..n /\ items'[k] = copies[k - Len(items)]
      BY <2>1, <2>3, <2>5, <3>4
    <3> QED BY <3>2, <3>3, <3>4
  <2>7. LinksLead'
    BY <1>2, <2>2, <2>4 DEF LinksLead, Alive
  <2>8. worker'[w].pc = "idle"
    BY <2>2, ItsRequest DEF Finish, Idle
  <2> QED BY <2>6, <2>7, <2>8 DEF Stands, ReadStands
<1> QED BY <1>3, <1>4, <1>5, <1>6, <1>7, <1>8 DEF SpawnStep

\* What is in a list that has grown by a row.
LEMMA AppendedRows ==
  ASSUME NEW T, NEW rows \in Seq(T), NEW row, NEW new, new = Append(rows, row)
  PROVE  \A k \in DOMAIN new : new[k] = row \/ (k \in DOMAIN rows /\ new[k] = rows[k])
<1> TAKE k \in DOMAIN new
<1>1. /\ DOMAIN new = 1..(Len(rows) + 1) /\ Len(rows) \in Nat
      /\ DOMAIN rows = 1..Len(rows)
  OBVIOUS
<1>2. CASE k = Len(rows) + 1
  <2> DEFINE S == T \union {row}
  <2>1. row \in S /\ \A i \in 1..Len(rows) : rows[i] \in S
    OBVIOUS
  <2>2. rows \in Seq(S)
    <3> HIDE DEF S
    <3> QED BY <2>1, <1>1
  <2> HIDE DEF S
  <2>3. new[Len(rows) + 1] = row
    BY <1>1, <2>1, <2>2, AppendProperties
  <2> QED BY <1>2, <2>3
<1>3. CASE k # Len(rows) + 1
  BY <1>1, <1>3
<1> QED BY <1>2, <1>3

\* What is in a list that another has been joined to.
LEMMA Joined ==
  ASSUME NEW S, NEW T, NEW rows \in Seq(S), NEW more \in Seq(T), NEW new, new = rows \o more
  PROVE  /\ DOMAIN new = 1..(Len(rows) + Len(more))
         /\ \A k \in 1..Len(rows) : new[k] = rows[k]
         /\ \A k \in (Len(rows) + 1)..(Len(rows) + Len(more)) : new[k] = more[k - Len(rows)]
OBVIOUS

\* A task that is written is not deleted by it.
LEMMA TaskWritten ==
  ASSUME RowsOK, ItemsHang, LinksLead, NEW id, NEW row,
         tasks' = [tasks EXCEPT ![id] = row],
         id \in DOMAIN tasks /\ ~tasks[id].deleted => ~row.deleted
  PROVE  /\ DOMAIN tasks' = DOMAIN tasks
         /\ \A i : Alive(i) => Alive(i)'
         /\ UNCHANGED items => ItemsHang'
         /\ UNCHANGED activities => LinksLead'
<1>1. /\ DOMAIN tasks' = DOMAIN tasks
      /\ \A i \in DOMAIN tasks : tasks'[i] = IF i = id THEN row ELSE tasks[i]
  BY DEF RowsOK
<1>2. \A i : Alive(i) => Alive(i)'
  BY <1>1 DEF Alive
<1>3. UNCHANGED items => ItemsHang'
  BY <1>1, <1>2 DEF ItemsHang
<1>4. UNCHANGED activities => LinksLead'
  BY <1>2 DEF LinksLead
<1> QED BY <1>1, <1>2, <1>3, <1>4

\* complete.
LEMMA CompleteStands ==
  ASSUME RowsOK, WorkersOK, NEW w \in Workers, Complete(w), Stands(w)
  PROVE  Stands(w)'
<1> DEFINE r == worker[w]
<1>1. r \in Request /\ r.id \in Nat
  BY ItsFields
<1>2. ReadStands(w) /\ ItemsHang /\ LinksLead
  BY DEF Stands
<1>3. CASE CompleteFind(w)
  <2>1. PICK i \in DOMAIN tasks, when \in Instants :
          /\ Alive(i)
          /\ IF AlreadyDone(i) THEN Finish(w)
             ELSE Become(w, [Idle EXCEPT !.op = "complete", !.pc = "allocate",
                               !.id = i, !.when = when, !.anchor = Anchor(i, when),
                               !.at = TimeOfDay(i, when)])
    BY <1>3 DEF CompleteFind
  <2>2. SameRows
    BY <1>3 DEF CompleteFind, store, SameRows
  <2>3. CASE AlreadyDone(i)
    BY <1>2, <2>1, <2>2, <2>3, FinishStands
  <2>4. CASE ~AlreadyDone(i)
    <3> DEFINE q == [Idle EXCEPT !.op = "complete", !.pc = "allocate",
                       !.id = i, !.when = when, !.anchor = Anchor(i, when),
                       !.at = TimeOfDay(i, when)]
    <3>1. q.pc = "allocate" /\ q.id = i /\ q.op = "complete"
      BY DEF Idle
    <3>2. Become(w, q)
      BY <2>1, <2>4
    <3> HIDE DEF q
    <3>3. worker'[w].pc = "allocate" /\ worker'[w].id = i /\ worker'[w].op = "complete"
      BY <3>1, <3>2, ItsRequest
    <3>4. Alive(i)' /\ ~AlreadyDone(i)'
      BY <2>1, <2>2, <2>4, ListsKept DEF AlreadyDone, SameRows
    <3>5. ReadStands(w)'
      BY <3>3, <3>4 DEF ReadStands
    <3> QED BY <1>2, <2>2, <3>5, ListsKept DEF Stands
  <2> QED BY <2>3, <2>4
<1>4. CASE CompleteNumber(w)
  <2>1. /\ worker'[w].pc = "transaction" /\ worker'[w].id = r.id
        /\ worker'[w].op = "complete" /\ SameRows
    BY <1>1, <1>4, ItsRequest DEF CompleteNumber, Number, Request, SameRows
  <2>2. Alive(r.id) /\ ~AlreadyDone(r.id)
    BY <1>2, <1>4 DEF CompleteNumber, At, ReadStands
  <2>3. Alive(r.id)' /\ ~AlreadyDone(r.id)'
    BY <2>1, <2>2, ListsKept DEF AlreadyDone, SameRows
  <2>4. ReadStands(w)'
    BY <2>1, <2>3 DEF ReadStands
  <2> QED BY <1>2, <2>1, <2>4, ListsKept DEF Stands
<1>5. CASE CompleteWrite(w)
  <2> DEFINE done == [tasks[r.id] EXCEPT !.status = "done",
                        !.completedAt = r.when, !.seq = r.base + 1]
             entry == [task |-> r.id, of |-> r.id, seq |-> r.base + 2]
  <2>1. /\ tasks' = [tasks EXCEPT ![r.id] = done]
        /\ activities' = Append(activities, entry)
        /\ Become(w, [r EXCEPT !.pc = "rule"]) /\ UNCHANGED items
        /\ r.pc = "transaction"
    BY <1>5 DEF CompleteWrite, At
  <2>2. entry.task = r.id
    OBVIOUS
  <2>3. r.id \in DOMAIN tasks => tasks[r.id] \in Task /\ done.deleted = tasks[r.id].deleted
    <3>1. r.id \in DOMAIN tasks => tasks[r.id] \in Task
      BY DEF RowsOK
    <3> QED BY <3>1 DEF Task
  <2>4. Alive(r.id)
    BY <1>2, <2>1 DEF ReadStands
  <2> HIDE DEF done, entry
  <2>5. (\A i : Alive(i) => Alive(i)') /\ ItemsHang'
    BY <1>2, <2>1, <2>3, TaskWritten
  <2>6. LinksLead'
    <3>1. activities \in Seq(Activity)
      BY DEF RowsOK
    <3>2. \A a \in DOMAIN activities' :
            \/ activities'[a] = entry
            \/ a \in DOMAIN activities /\ activities'[a] = activities[a]
      BY <2>1, <3>1, AppendedRows
    <3> QED BY <1>2, <2>2, <2>4, <2>5, <3>2 DEF LinksLead
  <2>7. worker'[w].pc = "rule"
    BY <1>1, <2>1, ItsRequest DEF Request
  <2> QED BY <2>5, <2>6, <2>7 DEF Stands, ReadStands
<1> QED BY <1>3, <1>4, <1>5 DEF Complete

\* reopen, drop, carryForward, restore, PATCH, and the checklist.
LEMMA EditStands ==
  ASSUME RowsOK, WorkersOK, NEW w \in Workers, Edit(w), Stands(w)
  PROVE  Stands(w)'
<1> DEFINE r == worker[w]
<1>1. r \in Request /\ r.id \in Nat
  BY ItsFields
<1>2. ReadStands(w) /\ ItemsHang /\ LinksLead
  BY DEF Stands
<1>3. ASSUME NEW op, EditFind(w, op) PROVE Stands(w)'
  <2>1. PICK i \in DOMAIN tasks, due \in IF op = "move" THEN Deadlines ELSE {0} :
          Become(w, [Idle EXCEPT !.op = op, !.pc = "seq", !.id = i, !.due = due,
                       !.when = IF op = "carry" THEN tasks[i].carried ELSE 0])
    BY <1>3 DEF EditFind
  <2> DEFINE q == [Idle EXCEPT !.op = op, !.pc = "seq", !.id = i, !.due = due,
                     !.when = IF op = "carry" THEN tasks[i].carried ELSE 0]
  <2>2. q.pc = "seq" /\ q.op = op
    BY DEF Idle
  <2>3. Become(w, q)
    BY <2>1
  <2> HIDE DEF q
  <2>4. worker'[w].pc = "seq" /\ worker'[w].op = op
    BY <2>2, <2>3, ItsRequest
  <2>5. op # "add" /\ SameRows
    BY <1>3 DEF EditFind, EditOps, store, SameRows
  <2> QED BY <1>2, <2>4, <2>5, ReadsNothing
<1>4. ASSUME NEW op, ItemFind(w, op) PROVE Stands(w)'
  <2>1. PICK k \in DOMAIN IF op = "add" THEN tasks ELSE items :
          /\ IF op = "add" THEN Alive(k) ELSE ~items[k].deleted
          /\ Become(w, [Idle EXCEPT !.op = op, !.pc = "seq", !.id = k])
    BY <1>4 DEF ItemFind
  <2> DEFINE q == [Idle EXCEPT !.op = op, !.pc = "seq", !.id = k]
  <2>2. q.pc = "seq" /\ q.op = op /\ q.id = k
    BY DEF Idle
  <2>3. Become(w, q)
    BY <2>1
  <2> HIDE DEF q
  <2>4. worker'[w].pc = "seq" /\ worker'[w].op = op /\ worker'[w].id = k
    BY <2>2, <2>3, ItsRequest
  <2>5. SameRows
    BY <1>4 DEF ItemFind, store, SameRows
  <2>6. op = "add" => Alive(k)'
    BY <2>1, <2>5, ListsKept
  <2>7. ReadStands(w)'
    BY <2>4, <2>6 DEF ReadStands
  <2> QED BY <1>2, <2>5, <2>7, ListsKept DEF Stands
<1>5. ASSUME At(w, "seq"), Number(w, 1, "write"), Bounds PROVE Stands(w)'
  <2>1. /\ worker'[w].pc = "write" /\ worker'[w].op = r.op /\ worker'[w].id = r.id
        /\ SameRows /\ r.pc = "seq"
    BY <1>1, <1>5, ItsRequest DEF Number, Request, SameRows, At
  <2>2. r.op = "add" => Alive(r.id)
    BY <1>2, <2>1 DEF ReadStands
  <2>3. r.op = "add" => Alive(r.id)'
    BY <2>1, <2>2, ListsKept
  <2>4. ReadStands(w)'
    BY <2>1, <2>3 DEF ReadStands
  <2> QED BY <1>2, <2>1, <2>4, ListsKept DEF Stands
<1>6. CASE EditWrite(w)
  <2> DEFINE row == Edited(tasks[r.id], r)
  <2>1. /\ tasks' = [tasks EXCEPT ![r.id] = row] /\ r.op \in EditOps
        /\ Finish(w) /\ UNCHANGED <<items, activities>>
    BY <1>6 DEF EditWrite
  <2>2. ASSUME NEW t \in Task, ~t.deleted PROVE ~Edited(t, r).deleted
    BY <2>1, <2>2 DEF Edited, EditOps, Task
  <2>3. r.id \in DOMAIN tasks /\ ~tasks[r.id].deleted => ~row.deleted
    BY <2>2 DEF RowsOK
  <2> HIDE DEF row
  <2>4. ItemsHang' /\ LinksLead'
    BY <1>2, <2>1, <2>3, TaskWritten
  <2>5. worker'[w].pc = "idle"
    BY <2>1, ItsRequest DEF Finish, Idle
  <2> QED BY <2>4, <2>5 DEF Stands, ReadStands
<1>7. CASE ItemWrite(w)
  <2>1. /\ r.op \in {"add", "tick", "discard"} /\ r.pc = "write"
        /\ Finish(w) /\ UNCHANGED <<tasks, activities>>
    BY <1>7 DEF ItemWrite, At
  <2>2. ItemsHang'
    <3>1. PICK done \in BOOLEAN :
          items' = IF r.op = "add"
                   THEN Append(items, [task |-> r.id, done |-> done, deleted |-> FALSE,
                                       copy |-> 0, seq |-> r.base + 1])
                   ELSE [items EXCEPT ![r.id].seq = r.base + 1,
                           ![r.id].done = IF r.op = "tick" THEN done ELSE @,
                           ![r.id].deleted = @ \/ r.op = "discard"]
      BY <1>7 DEF ItemWrite
    <3>2. CASE r.op = "add"
      <4> DEFINE item == [task |-> r.id, done |-> done, deleted |-> FALSE,
                          copy |-> 0, seq |-> r.base + 1]
      <4>1. items' = Append(items, item) /\ item.task = r.id
        BY <3>1, <3>2
      <4>2. Alive(r.id) /\ r.id \in DOMAIN tasks
        BY <1>2, <2>1, <3>2 DEF ReadStands, Alive
      <4> HIDE DEF item
      <4>3. items \in Seq(Item)
        BY DEF RowsOK
      <4>4. \A k \in DOMAIN items' :
              \/ items'[k] = item
              \/ k \in DOMAIN items /\ items'[k] = items[k]
        BY <4>1, <4>3, AppendedRows
      <4> QED BY <1>2, <2>1, <4>1, <4>2, <4>4 DEF ItemsHang, Alive
    <3>3. CASE r.op # "add"
      <4> DEFINE item == [items[r.id] EXCEPT !.seq = r.base + 1,
                            !.done = IF r.op = "tick" THEN done ELSE @,
                            !.deleted = @ \/ r.op = "discard"]
      <4>1. items' = [items EXCEPT ![r.id] = item]
        BY <3>1, <3>3
      <4>2. r.id \in DOMAIN items =>
              /\ item.task = items[r.id].task
              /\ items[r.id].deleted => item.deleted
        <5>1. r.id \in DOMAIN items => items[r.id] \in Item
          BY DEF RowsOK
        <5> QED BY <5>1 DEF Item
      <4> HIDE DEF item
      <4>3. /\ DOMAIN items' = DOMAIN items
            /\ \A k \in DOMAIN items : items'[k] = IF k = r.id THEN item ELSE items[k]
        BY <4>1 DEF RowsOK
      <4>4. \A k \in DOMAIN items' :
              items'[k].task = items[k].task /\ (items[k].deleted => items'[k].deleted)
        BY <4>2, <4>3
      <4>5. \A i : Alive(i) => Alive(i)'
        BY <2>1 DEF Alive
      <4> QED BY <1>2, <2>1, <4>3, <4>4, <4>5 DEF ItemsHang
    <3> QED BY <3>2, <3>3
  <2>3. LinksLead'
    BY <1>2, <2>1 DEF LinksLead, Alive
  <2>4. worker'[w].pc = "idle"
    BY <2>1, ItsRequest DEF Finish, Idle
  <2> QED BY <2>2, <2>3, <2>4 DEF Stands, ReadStands
<1> QED BY <1>3, <1>4, <1>5, <1>6, <1>7 DEF Edit

\* What the lists name.
LEMMA ListsName ==
  ASSUME RowsOK, NEW i
  PROVE  /\ \A k : Contains(Checklist(i), k) <=>
                     k \in DOMAIN items /\ items[k].task = i /\ ~items[k].deleted
         /\ \A a : Contains(Links(i), a) <=>
                     a \in DOMAIN activities /\ activities[a].task = i
<1> DEFINE S == {k \in DOMAIN items : items[k].task = i /\ ~items[k].deleted}
           A == {a \in DOMAIN activities : activities[a].task = i}
<1>1. /\ S \subseteq DOMAIN items /\ items \in Seq(Item)
      /\ A \subseteq DOMAIN activities /\ activities \in Seq(Activity)
  BY DEF RowsOK
<1>2. Checklist(i) = SetToSeq(S) /\ Links(i) = SetToSeq(A)
  BY DEF Checklist, Links
<1> HIDE DEF S, A
<1>3. \A k : Contains(Checklist(i), k) <=> k \in S
  BY <1>1, <1>2, RowList
<1>4. \A a : Contains(Links(i), a) <=> a \in A
  BY <1>1, <1>2, RowList
<1> QED BY <1>3, <1>4 DEF S, A

\* removeTask, the transaction included: it deletes the whole checklist and cuts
\* every link of the task that it deletes.
LEMMA RemoveStands ==
  ASSUME RowsOK, WorkersOK, NEW w \in Workers, RemoveTask(w), Stands(w)
  PROVE  Stands(w)'
<1> DEFINE r == worker[w]
<1>1. r \in Request /\ r.id \in Nat
  BY ItsFields
<1>2. ReadStands(w) /\ ItemsHang /\ LinksLead
  BY DEF Stands
<1>3. CASE RemoveFind(w)
  <2>1. PICK i \in DOMAIN tasks :
          Become(w, [Idle EXCEPT !.op = "remove", !.pc = "children", !.id = i])
    BY <1>3 DEF RemoveFind
  <2>2. worker'[w].pc = "children"
    <3>1. worker'[w] = [Idle EXCEPT !.op = "remove", !.pc = "children", !.id = i]
      BY <2>1, ItsRequest
    <3> QED BY <3>1 DEF Idle
  <2> QED BY <1>2, <1>3, <2>2, ReadsNothing DEF RemoveFind, store, SameRows
<1>4. CASE RemoveChildren(w)
  <2>1. /\ worker'[w].pc = "links" /\ worker'[w].op = r.op /\ worker'[w].id = r.id
        /\ worker'[w].kids = Checklist(r.id) /\ SameRows
    BY <1>1, <1>4, ItsRequest DEF RemoveChildren, Children, Request, store, SameRows
  <2>2. ReadStands(w)'
    BY <2>1, ListsKept DEF ReadStands
  <2> QED BY <1>2, <2>1, <2>2, ListsKept DEF Stands
<1>5. CASE RemoveLinks(w)
  <2>1. /\ worker'[w].pc = "reserve" /\ worker'[w].id = r.id
        /\ worker'[w].kids = r.kids /\ worker'[w].links = Links(r.id)
        /\ SameRows /\ r.pc = "links"
    <3>1. worker'[w] = [r EXCEPT !.pc = "reserve", !.links = Links(r.id)]
      BY <1>5, ItsRequest DEF RemoveLinks
    <3>2. SameRows /\ r.pc = "links"
      BY <1>5 DEF RemoveLinks, At, store, SameRows
    <3> QED BY <1>1, <3>1, <3>2 DEF Request
  <2>2. r.kids = Checklist(r.id)
    BY <1>2, <2>1 DEF ReadStands
  <2>3. ReadStands(w)'
    BY <2>1, <2>2, ListsKept DEF ReadStands
  <2> QED BY <1>2, <2>1, <2>3, ListsKept DEF Stands
<1>6. CASE RemoveNumber(w)
  <2>1. /\ worker'[w].pc = "delete" /\ worker'[w].id = r.id
        /\ worker'[w].kids = r.kids /\ worker'[w].links = r.links
        /\ SameRows /\ r.pc = "reserve"
    BY <1>1, <1>6, ItsRequest DEF RemoveNumber, Number, At, Request, SameRows
  <2>2. r.kids = Checklist(r.id) /\ r.links = Links(r.id)
    BY <1>2, <2>1 DEF ReadStands
  <2>3. ReadStands(w)'
    BY <2>1, <2>2, ListsKept DEF ReadStands
  <2> QED BY <1>2, <2>1, <2>3, ListsKept DEF Stands
<1>7. CASE RemoveWrite(w)
  <2> DEFINE n == Len(r.kids)
             gone(k) == [items[k] EXCEPT !.deleted = TRUE, !.seq = r.base + Place(r.kids, k)]
             cut(a) == [activities[a] EXCEPT !.task = 0,
                          !.seq = r.base + n + Place(r.links, a)]
             row == [tasks[r.id] EXCEPT !.deleted = TRUE,
                       !.seq = r.base + n + Len(r.links) + 1]
  <2>1. /\ items' = [k \in DOMAIN items |->
                       IF Contains(r.kids, k) THEN gone(k) ELSE items[k]]
        /\ activities' = [a \in DOMAIN activities |->
                       IF Contains(r.links, a) THEN cut(a) ELSE activities[a]]
        /\ tasks' = [tasks EXCEPT ![r.id] = row]
        /\ Finish(w) /\ r.pc = "delete"
    BY <1>7 DEF RemoveWrite, At
  <2>2. r.kids = Checklist(r.id) /\ r.links = Links(r.id)
    BY <1>2, <2>1 DEF ReadStands
  <2>3. \A k \in DOMAIN items : gone(k).task = items[k].task /\ gone(k).deleted
    BY DEF RowsOK, Item
  <2>4. \A a \in DOMAIN activities : cut(a).task = 0
    BY DEF RowsOK, Activity
  <2> HIDE DEF gone, cut, row
  <2> DEFINE StaysAlive(i) == i \in DOMAIN tasks' /\ ~tasks'[i].deleted
  <2>5. DOMAIN tasks' = DOMAIN tasks /\ \A i : i # r.id /\ Alive(i) => StaysAlive(i)
    BY <2>1 DEF RowsOK, Alive
  <2>6. ItemsHang'
    <3> SUFFICES ASSUME NEW k \in DOMAIN items
                 PROVE  /\ items'[k].task \in DOMAIN tasks'
                        /\ items'[k].deleted \/ StaysAlive(items'[k].task)
      BY <2>1 DEF ItemsHang, Alive
    <3>1. items'[k] = IF Contains(r.kids, k) THEN gone(k) ELSE items[k]
      BY <2>1
    <3>2. items'[k].task = items[k].task /\ items[k].task \in DOMAIN tasks'
      BY <1>2, <2>3, <2>5, <3>1 DEF ItemsHang
    <3>3. CASE items[k].task = r.id
      <4>1. items[k].deleted \/ Contains(r.kids, k)
        BY <2>2, <3>3, ListsName
      <4> QED BY <2>3, <3>1, <3>2, <4>1
    <3>4. CASE items[k].task # r.id
      <4>1. items[k].deleted \/ Alive(items[k].task)
        BY <1>2 DEF ItemsHang
      <4>2. items[k].deleted => items'[k].deleted
        BY <2>3, <3>1
      <4> QED BY <2>5, <3>2, <3>4, <4>1, <4>2
    <3> QED BY <3>3, <3>4
  <2>7. LinksLead'
    <3> SUFFICES ASSUME NEW a \in DOMAIN activities
                 PROVE  activities'[a].task = 0 \/ StaysAlive(activities'[a].task)
      BY <2>1 DEF LinksLead, Alive
    <3>1. activities'[a] = IF Contains(r.links, a) THEN cut(a) ELSE activities[a]
      BY <2>1
    <3>2. activities[a].task = r.id => Contains(r.links, a)
      BY <2>2, ListsName
    <3>3. activities[a].task = 0 \/ Alive(activities[a].task)
      BY <1>2 DEF LinksLead
    <3> QED BY <2>4, <2>5, <3>1, <3>2, <3>3
  <2>8. worker'[w].pc = "idle"
    BY <2>1, ItsRequest DEF Finish, Idle
  <2> QED BY <2>6, <2>7, <2>8 DEF Stands, ReadStands
<1> QED BY <1>3, <1>4, <1>5, <1>6, <1>7 DEF RemoveTask

\* A push.
LEMMA PushStands ==
  ASSUME RowsOK, WorkersOK, NEW w \in Workers, Stands(w),
         PushCompletion(w) \/ PushRuleEnd(w)
  PROVE  Stands(w)'
<1>1. ItemsHang /\ LinksLead
  BY DEF Stands
<1>2. worker' = worker /\ worker[w].pc = "idle"
  BY DEF PushCompletion, PushRuleEnd, Arrive, At
<1>3. ReadStands(w)'
  BY <1>2 DEF ReadStands
<1>4. CASE PushCompletion(w)
  <2>1. PICK i \in DOMAIN tasks, when \in Instants :
          tasks' = [tasks EXCEPT ![i] = [@ EXCEPT !.status = "done",
                      !.completedAt = when, !.deleted = FALSE, !.seq = lastSeq + 1]]
    BY <1>4 DEF PushCompletion
  <2> DEFINE row == [tasks[i] EXCEPT !.status = "done", !.completedAt = when,
                       !.deleted = FALSE, !.seq = lastSeq + 1]
  <2>2. tasks' = [tasks EXCEPT ![i] = row]
    BY <2>1
  <2>3. ~row.deleted
    BY DEF RowsOK, Task
  <2> HIDE DEF row
  <2>4. UNCHANGED <<items, activities>>
    BY <1>4 DEF PushCompletion
  <2>5. ItemsHang' /\ LinksLead'
    BY <1>1, <2>2, <2>3, <2>4, TaskWritten
  <2> QED BY <1>3, <2>5 DEF Stands
<1>5. CASE PushRuleEnd(w)
  <2>1. SameRows
    BY <1>5 DEF PushRuleEnd, SameRows
  <2> QED BY <1>1, <1>3, <2>1, ListsKept DEF Stands
<1> QED BY <1>4, <1>5

\* The sweep's own statements.
LEMMA SweepStands ==
  ASSUME WorkersOK, SweepStep, Stands(Sweeper)
  PROVE  Stands(Sweeper)'
<1> Sweeper \in Workers
  BY DEF Workers
<1>1. ItemsHang /\ LinksLead /\ ReadStands(Sweeper)
  BY DEF Stands
<1>2. CASE SweepList
  <2>1. PICK i \in DOMAIN tasks :
          Become(Sweeper, [Idle EXCEPT !.op = "sweep", !.pc = "open", !.id = i,
                             !.anchor = Anchor(i, tasks[i].completedAt),
                             !.at = TimeOfDay(i, tasks[i].completedAt)])
    BY <1>2 DEF SweepList
  <2>2. worker'[Sweeper].pc = "open"
    <3>1. worker'[Sweeper] = [Idle EXCEPT !.op = "sweep", !.pc = "open", !.id = i,
                                !.anchor = Anchor(i, tasks[i].completedAt),
                                !.at = TimeOfDay(i, tasks[i].completedAt)]
      BY <2>1, ItsRequest
    <3> QED BY <3>1 DEF Idle
  <2> QED BY <1>1, <1>2, <2>2, ReadsNothing DEF SweepList, store, SameRows
<1>3. CASE SweepNothing
  <2>1. SameRows /\ worker' = worker /\ worker[Sweeper].pc = "idle"
    BY <1>3 DEF SweepNothing, store, SameRows, At
  <2> QED BY <1>1, <2>1, ReadsNothing
<1>4. CASE SweepOpen
  <2>1. SameRows
    BY <1>4 DEF SweepOpen, store, SameRows
  <2>2. CASE SomeOpen
    BY <1>1, <1>4, <2>1, <2>2, FinishStands DEF SweepOpen
  <2>3. CASE ~SomeOpen
    <3>1. worker'[Sweeper].pc = "rule"
      BY <1>4, <2>3, ItsFields, ItsRequest DEF SweepOpen, Request
    <3> QED BY <1>1, <2>1, <3>1, ReadsNothing
  <2> QED BY <2>2, <2>3
<1> QED BY <1>2, <1>3, <1>4 DEF SweepStep

LEMMA TaskStands ==
  ASSUME RowsOK, WorkersOK, NEW w \in Workers, TaskStep(w), Stands(w)
  PROVE  Stands(w)'
<1>1. CASE Crash(w)
  BY <1>1, FinishStands DEF Crash, store, SameRows, Stands
<1>2. CASE w = Sweeper /\ SweepStep
  BY <1>2, SweepStands
<1> QED BY <1>1, <1>2, CompleteStands, EditStands, RemoveStands, PushStands, SpawnStands
        DEF TaskStep

-----------------------------------------------------------------------------
(* The inductive invariant                                                 *)

LEMMA SerialInit ==
  ASSUME NEW n \in Nat, InitAfter(n)
  PROVE  SerialInv
<1>1. worker = [w \in Workers |-> Idle]
  BY DEF InitAfter
<1>2. OneAtATime /\ \A w \in Workers : ReadStands(w)
  BY <1>1 DEF OneAtATime, At, ReadStands, Idle
<1>3. ItemsHang /\ LinksLead
  <2>1. /\ DOMAIN tasks = {1} /\ ~tasks[1].deleted /\ DOMAIN items = {1}
        /\ items[1].task = 1 /\ activities = <<>>
    BY DEF InitAfter
  <2> QED BY <2>1 DEF ItemsHang, LinksLead, Alive
<1> QED BY <1>2, <1>3 DEF SerialInv

LEMMA SerialTaskStep ==
  ASSUME TaskTypeInv, SerialInv, NEW w \in Workers, TaskStep(w)
  PROVE  SerialInv'
<1>1. Stands(w) => Stands(w)'
  BY TaskStands DEF TaskTypeInv
<1> QED BY <1>1, SerialFrame DEF TaskTypeInv

LEMMA SerialStutters ==
  ASSUME SerialInv, UNCHANGED vars
  PROVE  SerialInv'
<1>1. SameRows /\ worker' = worker /\ overlap' = overlap
  BY DEF vars, store, SameRows
<1>2. \A w : ReadStands(w)' <=> ReadStands(w)
  BY <1>1, ListsKept DEF ReadStands, AlreadyDone, SameRows
<1>3. OneAtATime' <=> OneAtATime
  BY <1>1 DEF OneAtATime, At
<1> QED BY <1>1, <1>2, <1>3, ListsKept DEF SerialInv

\* Requests that do not overlap keep what they have read, checklist items hang on live
\* tasks and links lead to live tasks, in the series alone.
THEOREM SeriesSerial == Spec => [](TaskTypeInv /\ SerialInv)
<1>1. Init => TaskTypeInv /\ SerialInv
  BY InitTypes, SerialInit DEF Init, TaskTypeInv
<1>2. TaskTypeInv /\ SerialInv /\ [Next]_vars => (TaskTypeInv /\ SerialInv)'
  <2> SUFFICES ASSUME TaskTypeInv, SerialInv, [Next]_vars
               PROVE  (TaskTypeInv /\ SerialInv)'
    OBVIOUS
  <2>1. CASE Next
    <3>1. PICK w \in Workers : TaskStep(w)
      BY <2>1 DEF Next, Sweep, TaskStep, Workers
    <3> QED BY <2>1, <3>1, TaskTypes, SerialTaskStep DEF TaskTypeInv
  <2>2. CASE UNCHANGED vars
    <3>1. SerialInv'
      BY <2>2, SerialStutters
    <3> QED BY <2>2, <3>1
            DEF TaskTypeInv, RowsOK, WorkersOK, HeldOK, BoundsOK, vars, store
  <2> QED BY <2>1, <2>2
<1> QED BY <1>1, <1>2, PTL DEF Spec

-----------------------------------------------------------------------------
(* Beside a meeting                                                        *)

Splitting == {"notes", "numbers", "split"}

\* No operation on tasks leads to a statement of a split.
LEMMA TasksDoNotSplit ==
  ASSUME WorkersOK, NEW w \in Workers, TaskStep(w)
  PROVE  worker'[w].pc \notin Splitting
<1> DEFINE r == worker[w]
<1>1. r \in Request
  BY ItsFields
<1>2. ASSUME NEW q, Become(w, q), q.pc \notin Splitting
      PROVE  worker'[w].pc \notin Splitting
  BY <1>2, ItsRequest
<1>3. ASSUME Finish(w) PROVE worker'[w].pc \notin Splitting
  BY <1>3, ItsRequest DEF Finish, Idle, Splitting
<1>6. CASE Complete(w)
  <2>1. CASE CompleteFind(w)
    <3>1. PICK i \in DOMAIN tasks, when \in Instants :
            IF AlreadyDone(i) THEN Finish(w)
            ELSE Become(w, [Idle EXCEPT !.op = "complete", !.pc = "allocate",
                              !.id = i, !.when = when, !.anchor = Anchor(i, when),
                              !.at = TimeOfDay(i, when)])
      BY <2>1 DEF CompleteFind
    <3> DEFINE q == [Idle EXCEPT !.op = "complete", !.pc = "allocate",
                       !.id = i, !.when = when, !.anchor = Anchor(i, when),
                       !.at = TimeOfDay(i, when)]
    <3>2. q.pc = "allocate" /\ (Finish(w) \/ Become(w, q))
      BY <3>1 DEF Idle
    <3> HIDE DEF q
    <3> QED BY <1>2, <1>3, <3>2 DEF Splitting
  <2>2. CASE CompleteNumber(w)
    BY <1>1, <2>2, ItsRequest DEF CompleteNumber, Number, Request, Splitting
  <2>3. CASE CompleteWrite(w)
    BY <1>1, <2>3, ItsRequest DEF CompleteWrite, Request, Splitting
  <2> QED BY <1>6, <2>1, <2>2, <2>3 DEF Complete
<1>7. CASE Edit(w)
  <2>1. CASE \E op \in Ops : EditFind(w, op) \/ ItemFind(w, op)
    <3>1. CASE \E op \in Ops : EditFind(w, op)
      <4>1. PICK op, i, due, when :
              Become(w, [Idle EXCEPT !.op = op, !.pc = "seq", !.id = i, !.due = due,
                           !.when = when])
        BY <3>1 DEF EditFind
      <4>2. worker'[w] = [Idle EXCEPT !.op = op, !.pc = "seq", !.id = i, !.due = due,
                            !.when = when]
        BY <4>1, ItsRequest
      <4> QED BY <4>2 DEF Idle, Splitting
    <3>2. CASE \E op \in Ops : ItemFind(w, op)
      <4>1. PICK op, k : Become(w, [Idle EXCEPT !.op = op, !.pc = "seq", !.id = k])
        BY <3>2 DEF ItemFind
      <4>2. worker'[w] = [Idle EXCEPT !.op = op, !.pc = "seq", !.id = k]
        BY <4>1, ItsRequest
      <4> QED BY <4>2 DEF Idle, Splitting
    <3> QED BY <2>1, <3>1, <3>2
  <2>2. CASE At(w, "seq") /\ Number(w, 1, "write")
    BY <1>1, <2>2, ItsRequest DEF Number, Request, Splitting
  <2>3. CASE EditWrite(w) \/ ItemWrite(w)
    BY <1>3, <2>3 DEF EditWrite, ItemWrite
  <2> QED BY <1>7, <2>1, <2>2, <2>3 DEF Edit
<1>8. CASE RemoveTask(w)
  <2>1. CASE RemoveFind(w)
    BY <1>2, <2>1 DEF RemoveFind, Idle, Splitting
  <2>2. CASE RemoveChildren(w) \/ RemoveLinks(w)
    <3>1. PICK kids, links : \/ Become(w, [r EXCEPT !.pc = "links", !.kids = kids])
                            \/ Become(w, [r EXCEPT !.pc = "reserve", !.links = links])
      BY <2>2 DEF RemoveChildren, RemoveLinks
    <3>2. \/ worker'[w] = [r EXCEPT !.pc = "links", !.kids = kids]
          \/ worker'[w] = [r EXCEPT !.pc = "reserve", !.links = links]
      BY <3>1, ItsRequest
    <3> QED BY <1>1, <3>2 DEF Request, Splitting
  <2>3. CASE RemoveNumber(w)
    BY <1>1, <2>3, ItsRequest DEF RemoveNumber, Number, Request, Splitting
  <2>4. CASE RemoveWrite(w)
    BY <1>3, <2>4 DEF RemoveWrite
  <2> QED BY <1>8, <2>1, <2>2, <2>3, <2>4 DEF RemoveTask
<1>9. CASE PushCompletion(w) \/ PushRuleEnd(w)
  BY <1>9 DEF PushCompletion, PushRuleEnd, Arrive, At, Splitting
<1>10. CASE SpawnStep(w)
  <2>1. CASE SpawnRule(w)
    BY <1>1, <2>1, ItsRequest DEF SpawnRule, Request, Splitting
  <2>2. CASE SpawnTemplate(w)
    BY <1>1, <2>2, ItsRequest DEF SpawnTemplate, Request, Splitting
  <2>3. CASE SpawnEnds(w) \/ SpawnFound(w) \/ SpawnCreate(w)
    BY <1>3, <2>3 DEF SpawnEnds, SpawnFound, SpawnCreate
  <2>4. CASE SpawnMissing(w)
    BY <1>1, <2>4, ItsRequest DEF SpawnMissing, Request, Splitting
  <2>5. CASE SpawnNumber(w)
    BY <1>1, <2>5, ItsRequest DEF SpawnNumber, Number, Request, Splitting
  <2> QED BY <1>10, <2>1, <2>2, <2>3, <2>4, <2>5 DEF SpawnStep
<1>11. CASE w = Sweeper /\ SweepStep
  BY <1>1, <1>2, <1>3, <1>11, ItsRequest
     DEF SweepStep, SweepList, SweepNothing, SweepOpen, At, Idle, Request, Splitting
<1>12. CASE Crash(w)
  BY <1>3, <1>12 DEF Crash
<1> QED BY <1>6, <1>7, <1>8, <1>9, <1>10, <1>11, <1>12 DEF TaskStep

\* What a step of a meeting does to the rest: it reads a list, or goes on with a split.
LEMMA MeetingMoves ==
  ASSUME WorkersOK, NEW w \in Workers, MeetingStep(w)
  PROVE  /\ SameRows
         /\ \/ worker'[w].pc \in {"idle"} \union Splitting
            \/ worker'[w].pc = "seq" /\ worker'[w].op # "add"
<1> DEFINE r == worker[w]
           Fine == \/ worker'[w].pc \in {"idle"} \union Splitting
                   \/ worker'[w].pc = "seq" /\ worker'[w].op # "add"
<1>1. r \in Request
  BY ItsFields
<1>2. ASSUME Finish(w) PROVE Fine
  BY <1>2, ItsRequest DEF Finish, Idle
<1>3. ASSUME NEW op, MeetingFind(w, op) PROVE SameRows /\ Fine
  <2>1. op # "add" /\ SameRows
    BY <1>3 DEF MeetingFind, MeetingOps, Read, OtherRows, SameRows
  <2>2. CASE op \in {"review", "process", "scratch"}
    <3>1. PICK n \in DOMAIN notes : Become(w, [Idle EXCEPT !.op = op, !.pc = "seq", !.id = n])
      BY <1>3, <2>2 DEF MeetingFind
    <3> QED BY <2>1, <3>1, ItsRequest DEF Idle
  <2>3. CASE op \notin {"review", "process", "scratch"}
    <3>1. PICK lines \in IF op = "minutes" THEN 0..MaxLines ELSE {meeting.lines} :
            Become(w, [Idle EXCEPT !.op = op, !.when = lines,
                         !.pc = IF op \in {"split", "rebuild"} THEN "notes" ELSE "seq"])
      BY <1>3, <2>3 DEF MeetingFind
    <3> DEFINE q == [Idle EXCEPT !.op = op, !.when = lines,
                       !.pc = IF op \in {"split", "rebuild"} THEN "notes" ELSE "seq"]
    <3>2. q.op = op /\ q.pc = IF op \in {"split", "rebuild"} THEN "notes" ELSE "seq"
      BY DEF Idle
    <3>3. worker'[w] = q
      BY <3>1, ItsRequest
    <3> QED BY <2>1, <3>2, <3>3 DEF Splitting
  <2> QED BY <2>1, <2>2, <2>3
<1>4. CASE MeetingWrite(w) \/ NoteAdd(w) \/ NoteWrite(w) \/ SplitWrite(w)
  BY <1>2, <1>4 DEF MeetingWrite, NoteAdd, NoteWrite, SplitWrite, OtherRows, SameRows
<1>5. CASE SplitRead(w)
  <2>1. SameRows
    BY <1>5 DEF SplitRead, Read, OtherRows, SameRows
  <2>2. CASE Finish(w)
    BY <1>2, <2>1, <2>2
  <2>3. CASE Become(w, [r EXCEPT !.pc = "numbers", !.kids = Standing])
    <3>1. worker'[w].pc = "numbers"
      BY <1>1, <2>3, ItsRequest DEF Request
    <3> QED BY <2>1, <3>1 DEF Splitting
  <2> QED BY <1>5, <2>2, <2>3 DEF SplitRead
<1>6. CASE SplitNumber(w)
  BY <1>1, <1>6, ItsRequest DEF SplitNumber, Number, Request, Splitting, SameRows
<1> QED BY <1>3, <1>4, <1>5, <1>6 DEF MeetingStep

LEMMA SerialMeetingStep ==
  ASSUME TaskTypeInv, SerialInv, NEW w \in Workers, MeetingStep(w)
  PROVE  SerialInv'
<1>1. WorkersOK
  BY DEF TaskTypeInv
<1>2. ASSUME Stands(w) PROVE Stands(w)'
  BY <1>1, <1>2, MeetingMoves, ReadsNothing DEF Stands, Splitting
<1> QED BY <1>1, <1>2, SerialFrame

\* splitRawNotes holds on to the lines and the items it found.
LEMMA SplitMoves ==
  ASSUME WorkersOK, NEW w \in Workers, MeetingStep(w), SplitStands(w)
  PROVE  SplitStands(w)'
<1> DEFINE r == worker[w]
<1>1. r \in Request
  BY ItsFields
<1>2. ASSUME worker'[w].pc \notin Splitting PROVE SplitStands(w)'
  BY <1>2 DEF SplitStands, Splitting
<1>3. ASSUME Finish(w) PROVE SplitStands(w)'
  <2>1. worker'[w].pc \notin Splitting
    BY <1>3, ItsRequest DEF Finish, Idle, Splitting
  <2> QED BY <1>2, <2>1
<1>4. ASSUME NEW op, MeetingFind(w, op) PROVE SplitStands(w)'
  <2>1. \/ worker'[w].pc = "seq"
        \/ worker'[w].pc = "notes" /\ worker'[w].when = meeting.lines
    <3>1. CASE op \in {"review", "process", "scratch"}
      <4>1. PICK n \in DOMAIN notes : Become(w, [Idle EXCEPT !.op = op, !.pc = "seq", !.id = n])
        BY <1>4, <3>1 DEF MeetingFind
      <4>2. worker'[w] = [Idle EXCEPT !.op = op, !.pc = "seq", !.id = n]
        BY <4>1, ItsRequest
      <4> QED BY <4>2 DEF Idle
    <3>2. CASE op \notin {"review", "process", "scratch"}
      <4>1. PICK lines \in IF op = "minutes" THEN 0..MaxLines ELSE {meeting.lines} :
              Become(w, [Idle EXCEPT !.op = op, !.when = lines,
                           !.pc = IF op \in {"split", "rebuild"} THEN "notes" ELSE "seq"])
        BY <1>4, <3>2 DEF MeetingFind
      <4> DEFINE q == [Idle EXCEPT !.op = op, !.when = lines,
                         !.pc = IF op \in {"split", "rebuild"} THEN "notes" ELSE "seq"]
      <4>2. q.when = lines /\ q.pc = IF op \in {"split", "rebuild"} THEN "notes" ELSE "seq"
        BY DEF Idle
      <4>3. worker'[w] = q
        BY <4>1, ItsRequest
      <4>4. op # "minutes" => lines = meeting.lines
        BY <4>1
      <4> QED BY <4>2, <4>3, <4>4
    <3> QED BY <3>1, <3>2
  <2>2. meeting' = meeting
    BY <1>4 DEF MeetingFind, Read
  <2> QED BY <2>1, <2>2 DEF SplitStands
<1>5. CASE MeetingWrite(w) \/ NoteAdd(w) \/ NoteWrite(w) \/ SplitWrite(w)
  BY <1>3, <1>5 DEF MeetingWrite, NoteAdd, NoteWrite, SplitWrite
<1>6. CASE SplitRead(w)
  <2>1. UNCHANGED <<meeting, notes>> /\ r.pc = "notes"
    BY <1>6 DEF SplitRead, Read, At
  <2>2. CASE Finish(w)
    BY <1>3, <2>2
  <2>3. CASE Become(w, [r EXCEPT !.pc = "numbers", !.kids = Standing])
    <3>1. /\ worker'[w].pc = "numbers" /\ worker'[w].when = r.when
          /\ worker'[w].kids = NoteItems
      BY <1>1, <2>3, ItsRequest DEF Request, Standing
    <3>2. r.when = meeting.lines
      BY <2>1 DEF SplitStands
    <3>3. NoteItems' = NoteItems
      BY <2>1 DEF NoteItems
    <3> QED BY <2>1, <3>1, <3>2, <3>3 DEF SplitStands
  <2> QED BY <1>6, <2>2, <2>3 DEF SplitRead
<1>7. CASE SplitNumber(w)
  <2>1. /\ worker'[w].pc = "split" /\ worker'[w].when = r.when
        /\ worker'[w].kids = r.kids /\ r.pc = "numbers" /\ UNCHANGED <<meeting, notes>>
    BY <1>1, <1>7, ItsRequest DEF SplitNumber, Number, Request, At
  <2>2. r.when = meeting.lines /\ r.kids = NoteItems
    BY <2>1 DEF SplitStands
  <2>3. NoteItems' = NoteItems
    BY <2>1 DEF NoteItems
  <2> QED BY <2>1, <2>2, <2>3 DEF SplitStands
<1> QED BY <1>4, <1>5, <1>6, <1>7 DEF MeetingStep

LEMMA SplitStep ==
  ASSUME TaskTypeInv, SerialInv, SplitInv, NEW w \in Workers, StepOf(w)
  PROVE  SplitInv'
<1> SUFFICES ASSUME ~overlap', NEW v \in Workers
             PROVE  SplitStands(v)'
  BY DEF SplitInv
<1>1. WorkersOK
  BY DEF TaskTypeInv
<1>2. /\ ~overlap
      /\ \A u \in Workers : u # w => worker[u].pc = "idle" /\ worker'[u] = worker[u]
  BY <1>1, Alone DEF StepOf
<1>3. CASE v # w
  BY <1>2, <1>3 DEF SplitStands
<1>4. CASE v = w /\ TaskStep(w)
  <2>1. worker'[w].pc \notin Splitting
    BY <1>1, <1>4, TasksDoNotSplit
  <2> QED BY <1>4, <2>1 DEF SplitStands, Splitting
<1>5. CASE v = w /\ MeetingStep(w)
  <2>1. SplitStands(w)
    BY <1>2 DEF SplitInv
  <2> QED BY <1>1, <1>5, <2>1, SplitMoves
<1> QED BY <1>3, <1>4, <1>5 DEF StepOf

\* The same beside a meeting, of which a split keeps what it has read as well.
THEOREM SerialInvariant == MeetingSpec => [](TypeInv /\ SerialInv /\ SplitInv)
<1>1. MeetingInit => TypeInv /\ SerialInv /\ SplitInv
  <2> SUFFICES ASSUME MeetingInit PROVE TypeInv /\ SerialInv /\ SplitInv
    OBVIOUS
  <2>1. MaxLines + 1 \in Nat /\ InitAfter(MaxLines + 1)
    BY MeetingsAssumption DEF MeetingInit
  <2>2. worker = [w \in Workers |-> Idle]
    BY <2>1 DEF InitAfter
  <2>3. SplitInv
    BY <2>2 DEF SplitInv, SplitStands, Idle
  <2> QED BY <2>1, <2>3, TypeInvInit, SerialInit
<1>2. TypeInv /\ SerialInv /\ SplitInv /\ [MeetingNext]_allVars
        => (TypeInv /\ SerialInv /\ SplitInv)'
  <2> SUFFICES ASSUME TypeInv, SerialInv, SplitInv, [MeetingNext]_allVars
               PROVE  (TypeInv /\ SerialInv /\ SplitInv)'
    OBVIOUS
  <2>1. TypeInv' /\ TaskTypeInv
    BY TypeInvStep DEF TypeInv
  <2>2. CASE MeetingNext
    <3>1. PICK w \in Workers : StepOf(w)
      BY <2>2, SomeonesStep
    <3>2. SerialInv'
      BY <2>1, <3>1, SerialTaskStep, SerialMeetingStep DEF StepOf
    <3> QED BY <2>1, <3>1, <3>2, SplitStep
  <2>3. CASE UNCHANGED allVars
    <3>1. SerialInv'
      BY <2>3, SerialStutters DEF allVars
    <3>2. SplitInv'
      BY <2>3 DEF SplitInv, SplitStands, NoteItems, allVars, vars
    <3> QED BY <2>1, <3>1, <3>2
  <2> QED BY <2>2, <2>3
<1> QED BY <1>1, <1>2, PTL DEF MeetingSpec

-----------------------------------------------------------------------------
(* A deletion leaves nothing behind                                        *)

\* removeTask, whatever came before: no live checklist item and no link is left of a
\* task that is deleted.
THEOREM DeletionsClean == MeetingSpec => []DeleteCleans
<1>1. ASSUME TypeInv, SerialInv PROVE DeleteCleans
  <2> SUFFICES ASSUME ~overlap, NEW i \in DOMAIN tasks, tasks[i].deleted
               PROVE  Checklist(i) = <<>> /\ \A a \in DOMAIN activities : activities[a].task # i
    BY DEF DeleteCleans
  <2>1. RowsOK /\ ItemsHang /\ LinksLead
    BY <1>1 DEF TypeInv, TaskTypeInv, SerialInv
  <2>2. i # 0 /\ ~Alive(i)
    BY <2>1 DEF RowsOK, Alive
  <2>3. \A a \in DOMAIN activities : activities[a].task # i
    BY <2>1, <2>2 DEF LinksLead
  <2> DEFINE S == {k \in DOMAIN items : items[k].task = i /\ ~items[k].deleted}
  <2>4. S = {} /\ Checklist(i) = SetToSeq(S)
    BY <2>1, <2>2 DEF ItemsHang, Checklist
  <2>5. S \subseteq DOMAIN items /\ items \in Seq(Item)
    BY <2>1 DEF RowsOK
  <2> HIDE DEF S
  <2>6. Checklist(i) = <<>>
    BY <2>4, <2>5, RowList
  <2> QED BY <2>3, <2>6
<1> QED BY <1>1, SerialInvariant, PTL

-----------------------------------------------------------------------------
(* What changes by one action only                                         *)

\* Only a completion adds to the history.
LEMMA HistoryGrows ==
  ASSUME NEW w \in Workers, TaskStep(w) \/ MeetingStep(w), ~CompleteWrite(w)
  PROVE  DOMAIN activities' = DOMAIN activities
<1>1. CASE Complete(w)
  BY <1>1 DEF Complete, CompleteFind, CompleteNumber, Number, store
<1>2. CASE Edit(w)
  BY <1>2 DEF Edit, EditFind, ItemFind, EditWrite, ItemWrite, Number, store
<1>3. CASE RemoveTask(w)
  BY <1>3 DEF RemoveTask, RemoveFind, RemoveChildren, RemoveLinks, RemoveNumber,
              RemoveWrite, Number, store
<1>4. CASE PushCompletion(w) \/ PushRuleEnd(w)
  BY <1>4 DEF PushCompletion, PushRuleEnd
<1>5. CASE SpawnStep(w)
  BY <1>5 DEF SpawnStep, SpawnEnds, SpawnRule, SpawnFound, SpawnMissing, SpawnTemplate,
              SpawnNumber, SpawnCreate, Number, store
<1>6. CASE SweepStep \/ Crash(w)
  BY <1>6 DEF SweepStep, SweepList, SweepNothing, SweepOpen, Crash, store
<1>7. CASE MeetingStep(w)
  BY <1>7 DEF MeetingStep, MeetingFind, MeetingWrite, NoteAdd, NoteWrite, SplitRead,
              SplitNumber, SplitWrite, Read, OtherRows, Number
<1> QED BY <1>1, <1>2, <1>3, <1>4, <1>5, <1>6, <1>7 DEF TaskStep

\* Only a spawn adds to the series.
LEMMA SeriesGrows ==
  ASSUME RowsOK, NEW w \in Workers, TaskStep(w) \/ MeetingStep(w), ~SpawnCreate(w)
  PROVE  DOMAIN tasks' = DOMAIN tasks
<1>1. CASE Complete(w)
  BY <1>1 DEF Complete, CompleteFind, CompleteNumber, CompleteWrite, Number, store, RowsOK
<1>2. CASE Edit(w)
  BY <1>2 DEF Edit, EditFind, ItemFind, EditWrite, ItemWrite, Number, store, RowsOK
<1>3. CASE RemoveTask(w)
  BY <1>3 DEF RemoveTask, RemoveFind, RemoveChildren, RemoveLinks, RemoveNumber,
              RemoveWrite, Number, store, RowsOK
<1>4. CASE PushCompletion(w) \/ PushRuleEnd(w)
  BY <1>4 DEF PushCompletion, PushRuleEnd, RowsOK
<1>5. CASE SpawnStep(w)
  BY <1>5 DEF SpawnStep, SpawnEnds, SpawnRule, SpawnFound, SpawnMissing, SpawnTemplate,
              SpawnNumber, Number, store
<1>6. CASE SweepStep \/ Crash(w)
  BY <1>6 DEF SweepStep, SweepList, SweepNothing, SweepOpen, Crash, store
<1>7. CASE MeetingStep(w)
  BY <1>7 DEF MeetingStep, MeetingFind, MeetingWrite, NoteAdd, NoteWrite, SplitRead,
              SplitNumber, SplitWrite, Read, OtherRows, Number
<1> QED BY <1>1, <1>2, <1>3, <1>4, <1>5, <1>6, <1>7 DEF TaskStep

-----------------------------------------------------------------------------
(* The history tells a completion once                                     *)

\* complete: an activity entry is written with the step that turns its task done.
THEOREM HistoryTellsOnce == MeetingSpec => HistoryOnce
<1> DEFINE Told == \A a \in DOMAIN activities' \ DOMAIN activities :
                     LET i == activities'[a].of IN
                     tasks[i].status # "done" /\ tasks'[i].status = "done"
<1>1. ASSUME TypeInv, SerialInv, ~overlap, MeetingNext PROVE Told
  <2>1. PICK w \in Workers : StepOf(w)
    BY <1>1, SomeonesStep
  <2>2. RowsOK /\ WorkersOK /\ ReadStands(w)
    BY <1>1 DEF TypeInv, TaskTypeInv, SerialInv
  <2>3. CASE ~CompleteWrite(w)
    BY <2>1, <2>3, HistoryGrows DEF StepOf
  <2>4. CASE CompleteWrite(w)
    <3> DEFINE r == worker[w]
               done == [tasks[r.id] EXCEPT !.status = "done",
                          !.completedAt = r.when, !.seq = r.base + 1]
               entry == [task |-> r.id, of |-> r.id, seq |-> r.base + 2]
    <3>1. /\ tasks' = [tasks EXCEPT ![r.id] = done]
          /\ activities' = Append(activities, entry)
          /\ r.pc = "transaction" /\ entry.of = r.id
      BY <2>4 DEF CompleteWrite, At
    <3>2. r.id \in DOMAIN tasks /\ tasks[r.id].status # "done"
      BY <2>2, <3>1 DEF ReadStands, Alive, AlreadyDone
    <3>3. done.status = "done"
      BY <2>2, <3>2 DEF RowsOK, Task
    <3> HIDE DEF done, entry
    <3>4. tasks'[r.id].status = "done"
      BY <2>2, <3>1, <3>2, <3>3 DEF RowsOK
    <3>5. activities \in Seq(Activity)
      BY <2>2 DEF RowsOK
    <3>6. \A a \in DOMAIN activities' \ DOMAIN activities : activities'[a] = entry
      BY <3>1, <3>5
    <3> QED BY <3>1, <3>2, <3>4, <3>6
  <2> QED BY <2>3, <2>4
<1>2. TypeInv /\ SerialInv /\ [MeetingNext]_allVars => [~overlap => Told]_vars
  <2> HIDE DEF Told
  <2> QED BY <1>1 DEF allVars
<1> QED BY <1>2, SerialInvariant, PTL DEF MeetingSpec, HistoryOnce

-----------------------------------------------------------------------------
(* The checklist carries forward                                           *)

\* spawnNextOccurrence: a new occurrence has a copy of every live item of the one it
\* follows, unticked, and nothing else.
THEOREM ChecklistsCarried == MeetingSpec => ChecklistCarried
<1> DEFINE Carried ==
      \A i \in DOMAIN tasks' \ DOMAIN tasks :
        LET new == {k \in DOMAIN items' : items'[k].task = i} IN
        /\ \A k \in new : ~items'[k].done /\ ~items'[k].deleted
        /\ {items'[k].copy : k \in new} =
             {k \in DOMAIN items : items[k].task = tasks'[i].from /\ ~items[k].deleted}
<1>1. ASSUME TypeInv, SerialInv, ~overlap, MeetingNext PROVE Carried
  <2>1. PICK w \in Workers : StepOf(w)
    BY <1>1, SomeonesStep
  <2>2. RowsOK /\ WorkersOK /\ ReadStands(w) /\ ItemsHang
    BY <1>1 DEF TypeInv, TaskTypeInv, SerialInv
  <2>3. CASE ~SpawnCreate(w)
    BY <2>1, <2>2, <2>3, SeriesGrows DEF StepOf
  <2>4. CASE SpawnCreate(w)
    <3> DEFINE r == worker[w]
               n == Len(r.kids)
               last == Len(tasks) + 1
               new == {k \in DOMAIN items' : items'[k].task = last}
    <3>1. PICK next \in Task, copies \in Seq(Item) :
            /\ tasks' = Append(tasks, next) /\ items' = items \o copies
            /\ next.due = r.due /\ next.at = r.at
            /\ next.reminder = reminderFor(Rule, r.due)
            /\ next.status = "next" /\ ~next.deleted /\ next.from = r.id
            /\ next.seq = r.base + 1
            /\ Len(copies) = n
            /\ \A k \in 1..n :
                 /\ copies[k].task = last /\ copies[k].copy = r.kids[k]
                 /\ ~copies[k].done /\ ~copies[k].deleted
                 /\ copies[k].seq = r.base + 1 + k
      BY <2>2, <2>4, Created
    <3>2. r.kids = Checklist(r.id) /\ r.kids \in Seq(Nat) /\ n \in Nat
      BY <2>2, <2>4, ItsFields DEF SpawnCreate, At, ReadStands
    <3>3. tasks \in Seq(Task) /\ items \in Seq(Item) /\ Len(items) \in Nat /\ Len(tasks) \in Nat
      BY <2>2 DEF RowsOK
    <3>4. DOMAIN tasks' \ DOMAIN tasks = {last} /\ tasks'[last].from = r.id
      BY <3>1, <3>3
    <3>5. \A k \in DOMAIN items : items[k].task # last
      BY <2>2, <3>3 DEF ItemsHang
    <3> HIDE DEF n, last
    <3>6. \A k : k \in new <=> k - Len(items) \in 1..n /\ k \in Nat
      <4>1. /\ DOMAIN items' = 1..(Len(items) + n)
            /\ \A k \in 1..Len(items) : items'[k] = items[k]
            /\ \A k \in (Len(items) + 1)..(Len(items) + n) : items'[k] = copies[k - Len(items)]
        <5>1. Len(copies) = n /\ copies \in Seq(Item) /\ items' = items \o copies
          BY <3>1
        <5> QED BY <5>1, <3>3, Joined
      <4>2. \A k \in 1..Len(items) : items'[k] = items[k]
        BY <4>1
      <4>3. \A k \in (Len(items) + 1)..(Len(items) + n) : items'[k] = copies[k - Len(items)]
        BY <4>1
      <4>4. \A k \in 1..Len(items) : k \notin new
        BY <3>3, <3>5, <4>2
      <4>5. \A k \in (Len(items) + 1)..(Len(items) + n) : k \in new
        BY <3>1, <3>2, <3>3, <4>1, <4>3
      <4> QED BY <3>2, <3>3, <4>1, <4>4, <4>5
    <3>7. \A j \in 1..n : Len(items) + j \in new /\ items'[Len(items) + j] = copies[j]
      BY <3>1, <3>2, <3>3, <3>6
    <3>8. \A k \in new : \E j \in 1..n : k = Len(items) + j /\ items'[k] = copies[j]
      <4> SUFFICES ASSUME NEW k \in new
                   PROVE  \E j \in 1..n : k = Len(items) + j /\ items'[k] = copies[j]
        OBVIOUS
      <4>1. k - Len(items) \in 1..n /\ k \in Nat
        BY <3>6
      <4>2. k = Len(items) + (k - Len(items))
        BY <3>3, <4>1
      <4> QED BY <3>7, <4>1, <4>2
    <3>9. \A x : Contains(r.kids, x) <=>
                   x \in DOMAIN items /\ items[x].task = r.id /\ ~items[x].deleted
      BY <2>2, <3>2, ListsName
    <3>10. \A x : Contains(r.kids, x) <=> \E j \in 1..n : r.kids[j] = x
      BY <3>2 DEF Contains, n
    <3> HIDE DEF new
    <3>11. \A k \in new : ~items'[k].done /\ ~items'[k].deleted
      BY <3>1, <3>8
    <3>12. {items'[k].copy : k \in new} =
             {k \in DOMAIN items : items[k].task = r.id /\ ~items[k].deleted}
      <4>1. \A k \in new : Contains(r.kids, items'[k].copy)
        <5> SUFFICES ASSUME NEW k \in new PROVE Contains(r.kids, items'[k].copy)
          OBVIOUS
        <5>1. PICK j \in 1..n : items'[k] = copies[j]
          BY <3>8
        <5>2. copies[j].copy = r.kids[j]
          BY <3>1
        <5> QED BY <5>1, <5>2, <3>10
      <4>2. \A x : Contains(r.kids, x) => \E k \in new : items'[k].copy = x
        <5> SUFFICES ASSUME NEW x, Contains(r.kids, x)
                     PROVE  \E k \in new : items'[k].copy = x
          OBVIOUS
        <5>1. PICK j \in 1..n : r.kids[j] = x
          BY <3>10
        <5>2. Len(items) + j \in new /\ items'[Len(items) + j].copy = x
          BY <3>1, <3>7, <5>1
        <5> QED BY <5>2
      <4> QED BY <3>9, <4>1, <4>2
    <3> QED BY <3>4, <3>11, <3>12 DEF new
  <2> QED BY <2>3, <2>4
<1>2. TypeInv /\ SerialInv /\ [MeetingNext]_allVars => [~overlap => Carried]_vars
  <2> HIDE DEF Carried
  <2> QED BY <1>1 DEF allVars
<1> QED BY <1>2, SerialInvariant, PTL DEF MeetingSpec, ChecklistCarried

-----------------------------------------------------------------------------
(* The series goes on and does not fork                                    *)

LEMMA SpawnsOneOccurrence ==
  ASSUME TaskTypeInv, SerialInv, ~overlap,
         NEW v \in Workers, TaskStep(v) \/ MeetingStep(v),
         NEW w \in Workers, Ends(w), worker[w].pc \in {"rule", "existing", "create"}
  PROVE  \/ ~rule \/ NextDue(worker[w].anchor) = 0
         \/ LET due == NextDue(worker[w].anchor) IN
            /\ LiveIn(tasks', due) # {}
            /\ LiveAt(due, worker[w].at) = {} \/ tasks' = tasks
<1> DEFINE r == worker[w]
<1>1. RowsOK /\ WorkersOK /\ ReadStands(w) /\ r \in Request /\ Consistent(r)
  BY ItsFields DEF TaskTypeInv, SerialInv
<1>2. SpawnStep(w) /\ worker'[w].pc = "idle"
  BY SpawnEndsItself DEF TaskTypeInv, Ends, Idle
<1>3. CASE SpawnEnds(w)
  BY <1>3 DEF SpawnEnds
<1>4. CASE SpawnFound(w)
  <2>1. OfDay(w) # {} /\ tasks' = tasks /\ r.due = NextDue(r.anchor)
    BY <1>1, <1>4 DEF SpawnFound, store, At, Consistent
  <2> QED BY <2>1 DEF OfDay, Alive, LiveIn
<1>5. CASE SpawnCreate(w)
  <2>1. LiveAt(r.due, r.at) = {} /\ r.due = NextDue(r.anchor)
    BY <1>1, <1>5 DEF SpawnCreate, At, ReadStands, Consistent
  <2>2. PICK next \in Task :
          tasks' = Append(tasks, next) /\ next.due = r.due /\ ~next.deleted
    BY <1>1, <1>5, Created
  <2>3. Len(tasks) + 1 \in DOMAIN tasks' /\ tasks'[Len(tasks) + 1] = next
    BY <1>1, <2>2 DEF RowsOK
  <2> QED BY <2>1, <2>2, <2>3 DEF LiveIn
<1>6. ~SpawnRule(w) /\ ~SpawnMissing(w) /\ ~SpawnTemplate(w) /\ ~SpawnNumber(w)
  <2>1. ~SpawnRule(w) /\ ~SpawnMissing(w)
    BY <1>1, <1>2, ItsRequest DEF SpawnRule, SpawnMissing, Request
  <2>2. ~SpawnTemplate(w) /\ ~SpawnNumber(w)
    BY DEF SpawnTemplate, SpawnNumber, At
  <2> QED BY <2>1, <2>2
<1> QED BY <1>2, <1>3, <1>4, <1>5, <1>6 DEF SpawnStep

\* spawnNextOccurrence: a request that was to bring about the next occurrence leaves
\* one of its date, and makes none whose deadline is there already.
THEOREM OccurrencesOnce == Spec => SpawnsOnce
<1> DEFINE Once == \A w \in Workers :
      Ends(w) /\ worker[w].pc \in {"rule", "existing", "create"} =>
        \/ ~rule \/ NextDue(worker[w].anchor) = 0
        \/ LET due == NextDue(worker[w].anchor) IN
           /\ LiveIn(tasks', due) # {}
           /\ LiveAt(due, worker[w].at) = {} \/ tasks' = tasks
<1>1. ASSUME TaskTypeInv, SerialInv, ~overlap, Next PROVE Once
  <2>1. PICK v \in Workers : TaskStep(v)
    BY <1>1 DEF Next, Sweep, TaskStep, Workers
  <2> QED BY <1>1, <2>1, SpawnsOneOccurrence
<1>2. TaskTypeInv /\ SerialInv /\ [Next]_vars => [~overlap => Once]_vars
  <2> HIDE DEF Once
  <2> QED BY <1>1
<1> QED BY <1>2, SeriesSerial, PTL DEF Spec, SpawnsOnce

\* The same beside a meeting.
THEOREM OccurrencesOnceBesideMeetings == MeetingSpec => SpawnsOnce
<1> DEFINE Once == \A w \in Workers :
      Ends(w) /\ worker[w].pc \in {"rule", "existing", "create"} =>
        \/ ~rule \/ NextDue(worker[w].anchor) = 0
        \/ LET due == NextDue(worker[w].anchor) IN
           /\ LiveIn(tasks', due) # {}
           /\ LiveAt(due, worker[w].at) = {} \/ tasks' = tasks
<1>1. ASSUME TypeInv, SerialInv, ~overlap, MeetingNext PROVE Once
  <2>1. PICK v \in Workers : StepOf(v)
    BY <1>1, SomeonesStep
  <2> QED BY <1>1, <2>1, SpawnsOneOccurrence DEF StepOf, TypeInv
<1>2. TypeInv /\ SerialInv /\ [MeetingNext]_allVars => [~overlap => Once]_vars
  <2> HIDE DEF Once
  <2> QED BY <1>1 DEF allVars
<1> QED BY <1>2, SerialInvariant, PTL DEF MeetingSpec, SpawnsOnce

-----------------------------------------------------------------------------
(* Raw notes are split once                                                *)

\* Only a split adds notes that have a line.
LEMMA LinesGrow ==
  ASSUME NotesOK, NEW w \in Workers, StepOf(w), ~SplitWrite(w)
  PROVE  \A n \in DOMAIN notes' \ DOMAIN notes : notes'[n].line = 0
<1>1. CASE TaskStep(w) /\ UNCHANGED <<meeting, notes>>
  BY <1>1
<1>2. CASE NoteAdd(w)
  <2> DEFINE note == [line |-> 0, processed |-> FALSE, result |-> FALSE,
                      deleted |-> FALSE, seq |-> worker[w].base + 1]
  <2>1. notes' = Append(notes, note) /\ note.line = 0
    BY <1>2 DEF NoteAdd
  <2> HIDE DEF note
  <2> QED BY <2>1 DEF NotesOK
<1>3. CASE NoteWrite(w)
  BY <1>3 DEF NoteWrite, NotesOK
<1>4. CASE MeetingWrite(w) \/ SplitRead(w) \/ SplitNumber(w)
  BY <1>4 DEF MeetingWrite, SplitRead, SplitNumber, Read
<1>5. ASSUME NEW op, MeetingFind(w, op) PROVE UNCHANGED notes
  BY <1>5 DEF MeetingFind, Read
<1> QED BY <1>1, <1>2, <1>3, <1>4, <1>5 DEF StepOf, MeetingStep

\* The transaction of a split that has read the notes as they are: one live note
\* per line, the rest deleted.
LEMMA SplitOnceOver ==
  ASSUME TypeInv, NEW w \in Workers, SplitStands(w), SplitWrite(w)
  PROVE  LET live == {n \in DOMAIN notes' : ~notes'[n].deleted} IN
         /\ Cardinality(live) = meeting.lines
         /\ {notes'[n].line : n \in live} = 1..meeting.lines
<1> DEFINE r == worker[w]
           old == Len(notes)
           lines == meeting.lines
           gone(n) == [notes[n] EXCEPT !.deleted = TRUE, !.seq = r.base + Place(r.kids, n)]
           kept == [n \in DOMAIN notes |->
                      IF Contains(r.kids, n) THEN gone(n) ELSE notes[n]]
           note(k) == [line |-> k, processed |-> FALSE, result |-> FALSE,
                       deleted |-> FALSE, seq |-> r.base + Len(r.kids) + k]
           new == [k \in 1..lines |-> note(k)]
           live == {n \in DOMAIN notes' : ~notes'[n].deleted}
<1>1. /\ notes \in Seq(NoteItem) /\ old \in Nat /\ DOMAIN notes = 1..old
      /\ lines \in Nat /\ r.kids = NoteItems /\ r.when = lines
  <2>1. r.pc = "split"
    BY DEF SplitWrite, At
  <2> QED BY <2>1 DEF TypeInv, NotesOK, Meeting, SplitStands
<1>2. notes' = kept \o new
  BY <1>1 DEF SplitWrite, Lines
<1>3. \A n \in 1..old : kept[n].deleted
  <2> SUFFICES ASSUME NEW n \in 1..old PROVE kept[n].deleted
    OBVIOUS
  <2>1. kept[n] = IF Contains(r.kids, n) THEN gone(n) ELSE notes[n]
    BY <1>1
  <2>2. gone(n).deleted
    BY <1>1 DEF NoteItem
  <2>3. Contains(r.kids, n) <=> ~notes[n].deleted
    <3> DEFINE S == {m \in DOMAIN notes : ~notes[m].deleted}
    <3>1. S \subseteq DOMAIN notes /\ NoteItems = SetToSeq(S)
      BY DEF NoteItems
    <3>2. n \in S <=> ~notes[n].deleted
      BY <1>1
    <3> HIDE DEF S
    <3> QED BY <1>1, <3>1, <3>2, RowList
  <2> HIDE DEF gone
  <2> QED BY <2>1, <2>2, <2>3
<1>4. \A k \in 1..lines : new[k].line = k /\ ~new[k].deleted
  OBVIOUS
<1>5. \A m \in Nat : \A s : s = [k \in 1..m |-> s[k]] =>
        s \in Seq({s[k] : k \in 1..m}) /\ Len(s) = m
  OBVIOUS
<1>6. /\ kept \in Seq({kept[n] : n \in 1..old}) /\ Len(kept) = old
      /\ new \in Seq({new[k] : k \in 1..lines}) /\ Len(new) = lines
  <2>1. kept = [n \in 1..old |-> kept[n]] /\ new = [k \in 1..lines |-> new[k]]
    BY <1>1
  <2> HIDE DEF kept, new, old, lines
  <2>2. kept \in Seq({kept[n] : n \in 1..old}) /\ Len(kept) = old
    BY <1>1, <1>5, <2>1
  <2>3. new \in Seq({new[k] : k \in 1..lines}) /\ Len(new) = lines
    BY <1>1, <1>5, <2>1
  <2> QED BY <2>2, <2>3
<1> HIDE DEF kept, new
<1>7. /\ DOMAIN notes' = 1..(old + lines)
      /\ \A n \in 1..old : notes'[n] = kept[n]
      /\ \A n \in (old + 1)..(old + lines) : notes'[n] = new[n - old]
  <2> DEFINE S == {kept[n] : n \in 1..old}
             T == {new[k] : k \in 1..lines}
  <2>1. kept \in Seq(S) /\ new \in Seq(T) /\ Len(kept) = old /\ Len(new) = lines
    BY <1>6
  <2> HIDE DEF old, lines, S, T
  <2>2. /\ DOMAIN (kept \o new) = 1..(Len(kept) + Len(new))
        /\ \A n \in 1..Len(kept) : (kept \o new)[n] = kept[n]
        /\ \A n \in (Len(kept) + 1)..(Len(kept) + Len(new)) :
             (kept \o new)[n] = new[n - Len(kept)]
    BY <2>1, Joined, SMTT(30)
  <2> QED BY <1>2, <2>1, <2>2
<1>8. live = (old + 1)..(old + lines)
  <2>1. \A n \in (old + 1)..(old + lines) : n - old \in 1..lines
    BY <1>1
  <2>2. \A n \in 1..(old + lines) : n \in 1..old \/ n \in (old + 1)..(old + lines)
    BY <1>1
  <2>3. (old + 1)..(old + lines) \subseteq 1..(old + lines)
    BY <1>1
  <2> QED BY <1>3, <1>4, <1>7, <2>1, <2>2, <2>3
<1> HIDE DEF live, old, lines
<1>9. Cardinality(live) = lines
  <2>1. Cardinality((old + 1)..(old + lines)) =
          IF old + 1 > old + lines THEN 0 ELSE (old + lines) - (old + 1) + 1
    BY <1>1, FS_Interval
  <2> QED BY <1>1, <1>8, <2>1
<1>10. {notes'[n].line : n \in live} = 1..lines
  <2>1. \A n \in live : n - old \in 1..lines /\ notes'[n].line = n - old
    BY <1>1, <1>4, <1>7, <1>8
  <2>2. \A k \in 1..lines : old + k \in live /\ (old + k) - old = k
    BY <1>1, <1>8
  <2> QED BY <2>1, <2>2
<1> QED BY <1>9, <1>10 DEF live, lines

\* splitRawNotes: after a split there is one live note per line, and no other.
THEOREM SplitsOnce == MeetingSpec => SplitOnce
<1> DEFINE Once == SplitMade => OncePerLine
<1>1. ASSUME TypeInv, SplitInv, ~overlap, MeetingNext PROVE Once
  <2>1. PICK w \in Workers : StepOf(w)
    BY <1>1, SomeonesStep
  <2>2. CASE ~SplitWrite(w)
    BY <1>1, <2>1, <2>2, LinesGrow DEF TypeInv, SplitMade
  <2>3. CASE SplitWrite(w)
    BY <1>1, <2>3, SplitOnceOver DEF SplitInv, OncePerLine
  <2> QED BY <2>2, <2>3
<1>2. TypeInv /\ SplitInv /\ [MeetingNext]_allVars => [~overlap => Once]_allVars
  <2> HIDE DEF Once
  <2> QED BY <1>1
<1>3. [~overlap => Once]_allVars => [~overlap /\ SplitMade => OncePerLine]_allVars
  OBVIOUS
<1> QED BY <1>2, <1>3, SerialInvariant, PTL DEF MeetingSpec, SplitOnce
=============================================================================
