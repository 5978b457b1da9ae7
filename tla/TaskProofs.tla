------------------------------ MODULE TaskProofs ------------------------------
(***************************************************************************)
(* Proofs about Tasks and Meetings for any number of handlers, any rule    *)
(* toSpec can give and any mix of operations: the types, the dates of the  *)
(* occurrences, and the numbers of the rows.                               *)
(***************************************************************************)
EXTENDS Meetings, DateProofs, FiniteSetTheorems, SequenceTheorems

-----------------------------------------------------------------------------
(* Lists of rows                                                           *)

\* A list made of a set names each of its members once.
LEMMA ListOf ==
  ASSUME NEW S, IsFiniteSet(S)
  PROVE  LET s == SetToSeq(S) IN
         /\ s \in Seq(S) /\ Len(s) = Cardinality(S)
         /\ IsInjective(s)
         /\ \A x : Contains(s, x) <=> x \in S
<1> DEFINE n == Cardinality(S)
           s == SetToSeq(S)
<1>1. n \in Nat /\ \E f : f \in Bijection(1..n, S)
  BY FS_CardinalityType DEF ExistsBijection
<1>2. PICK f \in Bijection(1..n, S) : TRUE
  BY <1>1
<1>3. f \in [1..n -> S] /\ IsInjective(f)
  BY <1>2 DEF Bijection, Injection
<1>4. s \in [1..n -> S] /\ IsInjective(s)
  BY <1>3 DEF SetToSeq
<1> HIDE DEF n, s
<1>5. s \in Seq(S) /\ Len(s) = n /\ DOMAIN s = 1..n
  BY <1>1, <1>4
<1>6. s \in Injection(1..n, S)
  BY <1>4 DEF Injection
<1>7. IsFiniteSet(1..n) /\ Cardinality(1..n) = n
  BY <1>1, FS_Interval
<1>8. \A x \in S : \E i \in 1..n : s[i] = x
  <2>1. s \in Surjection(1..n, S)
    BY <1>6, <1>7, FS_Injection DEF n
  <2> QED BY <2>1 DEF Surjection
<1>9. \A x : Contains(s, x) <=> x \in S
  BY <1>4, <1>5, <1>8 DEF Contains
<1> QED BY <1>4, <1>5, <1>9 DEF n, s

\* The rows that a condition picks can be listed.
LEMMA RowsFinite ==
  ASSUME NEW T, NEW rows \in Seq(T), NEW S, S \subseteq DOMAIN rows
  PROVE  IsFiniteSet(S) /\ S \subseteq Nat
<1>1. DOMAIN rows = 1..Len(rows) /\ Len(rows) \in Nat
  BY LenProperties
<1>2. IsFiniteSet(1..Len(rows))
  BY <1>1, FS_Interval
<1> QED BY <1>1, <1>2, FS_Subset

LEMMA RowList ==
  ASSUME NEW T, NEW rows \in Seq(T), NEW S, S \subseteq DOMAIN rows
  PROVE  LET s == SetToSeq(S) IN
         /\ s \in Seq(Nat) /\ Len(s) \in Nat /\ IsInjective(s)
         /\ \A x : Contains(s, x) <=> x \in S
         /\ s = <<>> <=> S = {}
<1> DEFINE s == SetToSeq(S)
<1>1. IsFiniteSet(S) /\ S \subseteq Nat
  BY RowsFinite
<1>2. /\ s \in Seq(S) /\ Len(s) = Cardinality(S) /\ IsInjective(s)
      /\ \A x : Contains(s, x) <=> x \in S
  BY <1>1, ListOf
<1> HIDE DEF s
<1>3. s \in Seq(Nat)
  BY <1>1, <1>2, SeqMonotonic
<1>4. s = <<>> <=> S = {}
  BY <1>2, <1>3 DEF Contains
<1> QED BY <1>2, <1>3, <1>4 DEF s

\* A row added at the end.
LEMMA Appended ==
  ASSUME NEW T, NEW rows \in Seq(T), NEW row \in T
  PROVE  LET new == Append(rows, row) IN
         /\ new \in Seq(T) /\ Len(new) = Len(rows) + 1
         /\ DOMAIN new = 1..(Len(rows) + 1)
         /\ new[Len(rows) + 1] = row
         /\ \A i \in DOMAIN rows : i \in DOMAIN new /\ new[i] = rows[i]
OBVIOUS

\* A row written, if there is one of that id.
LEMMA Written ==
  ASSUME NEW T, NEW rows \in Seq(T), NEW id, NEW row,
         id \in DOMAIN rows => row \in T
  PROVE  LET new == [rows EXCEPT ![id] = row] IN
         /\ new \in Seq(T) /\ DOMAIN new = DOMAIN rows /\ Len(new) = Len(rows)
         /\ id \in DOMAIN rows => new[id] = row
         /\ \A i \in DOMAIN rows : i # id => new[i] = rows[i]
<1>1. CASE id \in DOMAIN rows
  BY <1>1
<1>2. CASE id \notin DOMAIN rows
  <2>1. [rows EXCEPT ![id] = row] = rows
    BY <1>2
  <2> QED BY <1>2, <2>1
<1> QED BY <1>1, <1>2

\* Every row mapped to another.
LEMMA Mapped ==
  ASSUME NEW T, NEW rows \in Seq(T), NEW new, DOMAIN new = DOMAIN rows,
         new = [i \in DOMAIN rows |-> new[i]],
         \A i \in DOMAIN rows : new[i] \in T
  PROVE  new \in Seq(T) /\ Len(new) = Len(rows)
OBVIOUS

-----------------------------------------------------------------------------
(* Dates and requests                                                      *)

LEMMA RuleSpec ==
  /\ Rule \in CalendarSpec /\ Rule \in RecurrenceSpec
  /\ FirstDue \in Dates /\ Dates \subseteq Nat
<1>1. Rule \in CalendarSpec /\ Rule \in RecurrenceSpec /\ FirstDue \in Dates
  BY SeriesAssumption DEF CalendarSpec
<1>2. Rule.endDate \in Nat
  BY <1>1 DEF RecurrenceSpec
<1>3. Dates \subseteq Nat
  BY <1>2 DEF Dates
<1> QED BY <1>1, <1>3

\* The next occurrence is on a date within the rule's end, or there is none.
LEMMA NextDueOK ==
  ASSUME NEW anchor \in Nat
  PROVE  NextDue(anchor) = nextAfter(Rule, anchor) /\ NextDue(anchor) \in Dates
<1> DEFINE next == nextAfter(Rule, anchor)
<1>1. NextDue(anchor) = next
  BY DEF NextDue, Tabled
<1>2. Rule \in CalendarSpec /\ Rule.endDate \in Nat
  BY RuleSpec DEF RecurrenceSpec
<1>3. CASE next = 0
  BY <1>1, <1>2, <1>3 DEF Dates, Over
<1>4. CASE next # 0
  <2>1. next \in Int /\ next > anchor /\ ~Over(Rule, next)
    BY <1>2, <1>4, NextFits
  <2> HIDE DEF next
  <2>2. next \in Dates
    BY <1>2, <2>1 DEF Dates
  <2> QED BY <1>1, <2>2 DEF next
<1> QED BY <1>1, <1>3, <1>4

LEMMA ReminderOK ==
  ASSUME NEW due \in Int
  PROVE  reminderFor(Rule, due) \in Int \union {None}
<1> DEFINE minute == IF Rule.reminderMinuteOfDay = None THEN 9 * 60
                     ELSE Rule.reminderMinuteOfDay
           hour == IF minute < 0 /\ minute % 60 # 0 THEN 60 ELSE 0
<1>1. /\ Rule.reminderDaysBefore \in Int \union {None}
      /\ Rule.reminderMinuteOfDay \in Int \union {None}
  BY RuleSpec DEF RecurrenceSpec
<1>2. minute \in Int /\ hour \in Int
  BY <1>1
<1>3. reminderFor(Rule, due) = IF Rule.reminderDaysBefore = None THEN None
        ELSE (due - Rule.reminderDaysBefore) * Minutes + minute - hour
  BY DEF reminderFor
<1> HIDE DEF minute, hour
<1> QED BY <1>1, <1>2, <1>3 DEF Minutes

LEMMA IdleOK == Idle \in Request /\ Consistent(Idle)
<1>1. <<>> \in Seq(Nat) /\ IsInjective(<<>>)
  BY DEF IsInjective
<1>2. Idle \in Request
  <2>1. ASSUME NEW none \in Seq(Nat)
        PROVE  [op |-> "idle", pc |-> "idle", id |-> 0, anchor |-> 0, at |-> 0, when |-> 0,
                due |-> 0, kids |-> none, links |-> none, base |-> 0] \in Request
    BY DEF Request, Statements
  <2> QED BY <1>1, <2>1 DEF Idle
<1> QED BY <1>1, <1>2 DEF Idle, Consistent

\* The requests and the parts of the state a request is made of.
WorkersOK == worker \in [Workers -> Request] /\ HeldOK

LEMMA BecomeOK ==
  ASSUME WorkersOK, NEW w \in Workers, NEW r \in Request, Consistent(r), Become(w, r)
  PROVE  WorkersOK'
<1>1. worker' \in [Workers -> Request]
  BY DEF WorkersOK, Become
<1>2. \A v \in Workers : worker'[v] = IF v = w THEN r ELSE worker[v]
  BY DEF WorkersOK, Become
<1>3. HeldOK'
  <2> SUFFICES ASSUME NEW v \in Workers PROVE Consistent(worker'[v])
    BY DEF HeldOK, Consistent
  <2> QED BY <1>2 DEF WorkersOK, HeldOK
<1> QED BY <1>1, <1>3 DEF WorkersOK

LEMMA FinishOK ==
  ASSUME WorkersOK, NEW w \in Workers, Finish(w)
  PROVE  WorkersOK'
BY BecomeOK, IdleOK DEF Finish

\* seq.allocate: the block begins after the last number.
LEMMA NumberOK ==
  ASSUME WorkersOK, lastSeq \in Nat, NEW w \in Workers, NEW n \in Nat,
         NEW pc \in Statements, Number(w, n, pc),
         Consistent([worker[w] EXCEPT !.pc = pc, !.base = lastSeq])
  PROVE  WorkersOK' /\ lastSeq' \in Nat /\ UNCHANGED <<tasks, items, activities, rule>>
<1>1. [worker[w] EXCEPT !.pc = pc, !.base = lastSeq] \in Request
  BY DEF WorkersOK, Request
<1>2. /\ Become(w, [worker[w] EXCEPT !.pc = pc, !.base = lastSeq])
      /\ lastSeq' \in Nat /\ UNCHANGED <<tasks, items, activities, rule>>
  BY DEF Number
<1> QED BY <1>1, <1>2, BecomeOK

-----------------------------------------------------------------------------
(* Types                                                                   *)

RowsOK ==
  /\ tasks \in Seq(Task)
  /\ items \in Seq(Item)
  /\ activities \in Seq(Activity)
  /\ rule \in BOOLEAN
  /\ lastSeq \in Nat

LEMMA RequestOf ==
  ASSUME WorkersOK, NEW w \in Workers
  PROVE  worker[w] \in Request /\ Consistent(worker[w])
BY DEF WorkersOK, HeldOK

\* A worker's next statement, what it holds being as it was.
LEMMA Moved ==
  ASSUME WorkersOK, NEW w \in Workers, NEW pc \in Statements,
         Become(w, [worker[w] EXCEPT !.pc = pc]),
         Consistent([worker[w] EXCEPT !.pc = pc])
  PROVE  WorkersOK'
<1>1. [worker[w] EXCEPT !.pc = pc] \in Request
  BY RequestOf DEF Request
<1> QED BY <1>1, BecomeOK

LEMMA ChecklistOK ==
  ASSUME RowsOK, NEW i
  PROVE  Checklist(i) \in Seq(Nat) /\ IsInjective(Checklist(i))
<1> DEFINE S == {k \in DOMAIN items : items[k].task = i /\ ~items[k].deleted}
<1>1. S \subseteq DOMAIN items /\ items \in Seq(Item)
  BY DEF RowsOK
<1>2. Checklist(i) = SetToSeq(S)
  BY DEF Checklist
<1> HIDE DEF S
<1> QED BY <1>1, <1>2, RowList

LEMMA LinksOK ==
  ASSUME RowsOK, NEW i
  PROVE  Links(i) \in Seq(Nat) /\ IsInjective(Links(i))
<1> DEFINE S == {a \in DOMAIN activities : activities[a].task = i}
<1>1. S \subseteq DOMAIN activities /\ activities \in Seq(Activity)
  BY DEF RowsOK
<1>2. Links(i) = SetToSeq(S)
  BY DEF Links
<1> HIDE DEF S
<1> QED BY <1>1, <1>2, RowList

\* What the transaction of a spawn creates.
LEMMA Created ==
  ASSUME RowsOK, WorkersOK, NEW w \in Workers, SpawnCreate(w)
  PROVE  LET r == worker[w] IN
         \E next \in Task, copies \in Seq(Item) :
           /\ tasks' = Append(tasks, next) /\ items' = items \o copies
           /\ next.due = r.due /\ next.at = r.at
           /\ next.reminder = reminderFor(Rule, r.due)
           /\ next.status = "next" /\ ~next.deleted /\ next.from = r.id
           /\ next.seq = r.base + 1
           /\ Len(copies) = Len(r.kids)
           /\ \A k \in 1..Len(r.kids) :
                /\ copies[k].task = Len(tasks) + 1 /\ copies[k].copy = r.kids[k]
                /\ ~copies[k].done /\ ~copies[k].deleted
                /\ copies[k].seq = r.base + 1 + k
<1> DEFINE r == worker[w]
           template == r.kids
           next == [due |-> r.due, at |-> r.at, reminder |-> reminderFor(Rule, r.due),
                    status |-> "next", deleted |-> FALSE, completedAt |-> 0,
                    carried |-> 0, from |-> r.id, seq |-> r.base + 1]
           copy(k) == [task |-> Len(tasks) + 1, done |-> FALSE, deleted |-> FALSE,
                       copy |-> template[k], seq |-> r.base + 1 + k]
           copies == [k \in DOMAIN template |-> copy(k)]
<1>1. r \in Request /\ Consistent(r)
  BY RequestOf
<1>2. tasks' = Append(tasks, next) /\ items' = items \o copies /\ r.pc = "create"
  BY DEF SpawnCreate, Template, At
<1>3. /\ r.due = NextDue(r.anchor) /\ r.id \in Nat /\ r.base \in Nat
      /\ r.anchor \in Nat /\ r.at \in Nat /\ template \in Seq(Nat)
  BY <1>1, <1>2 DEF Consistent, Request
<1>4. DOMAIN template = 1..Len(template) /\ Len(template) \in Nat
  BY <1>3
<1>5. r.due \in Dates /\ reminderFor(Rule, r.due) \in Int \union {None}
  <2>1. r.due \in Dates
    BY <1>3, NextDueOK
  <2>2. Dates \subseteq Int
    BY RuleSpec
  <2> QED BY <2>1, <2>2, ReminderOK
<1>6. next \in Task
  BY <1>3, <1>5 DEF Task
<1>7. ASSUME NEW k \in DOMAIN template PROVE copy(k) \in Item
  <2>1. Len(tasks) + 1 \in Nat
    BY DEF RowsOK
  <2>2. k \in Nat /\ template[k] \in Nat
    BY <1>3, SMTT(20)
  <2>3. r.base + 1 + k \in Nat
    BY <1>3, <2>2, SMTT(20)
  <2> QED BY <2>1, <2>2, <2>3, SMTT(20) DEF Item
<1>8. \A k \in 1..Len(template) :
        /\ copy(k).task = Len(tasks) + 1 /\ copy(k).copy = template[k]
        /\ ~copy(k).done /\ ~copy(k).deleted /\ copy(k).seq = r.base + 1 + k
  OBVIOUS
<1>9. /\ next.due = r.due /\ next.at = r.at
      /\ next.reminder = reminderFor(Rule, r.due)
      /\ next.status = "next" /\ ~next.deleted /\ next.from = r.id
      /\ next.seq = r.base + 1
  OBVIOUS
<1> HIDE DEF copy, next
<1>10. /\ copies \in Seq(Item) /\ Len(copies) = Len(template)
       /\ \A k \in 1..Len(template) : copies[k] = copy(k)
  BY <1>4, <1>7
<1> HIDE DEF copies
<1> QED BY <1>2, <1>6, <1>8, <1>9, <1>10

LEMMA SpawnTypes ==
  ASSUME RowsOK, WorkersOK, NEW w \in Workers, SpawnStep(w)
  PROVE  RowsOK' /\ WorkersOK'
<1> DEFINE r == worker[w]
<1>1. r \in Request /\ Consistent(r)
  BY RequestOf
<1>2. CASE SpawnEnds(w) \/ SpawnFound(w)
  BY <1>2, FinishOK DEF SpawnEnds, SpawnFound, RowsOK, store
<1>3. CASE SpawnRule(w)
  <2> DEFINE q == [r EXCEPT !.pc = "existing", !.due = NextDue(r.anchor)]
  <2>1. NextDue(r.anchor) \in Nat /\ NextDue(r.anchor) # 0
    BY <1>1, <1>3, NextDueOK, RuleSpec DEF Request, SpawnRule
  <2>2. q \in Request
    BY <1>1, <2>1 DEF Request, Statements
  <2>3. Consistent(q)
    BY <1>1, <2>1 DEF Request, Consistent
  <2>4. Become(w, q) /\ UNCHANGED store
    BY <1>3 DEF SpawnRule
  <2> HIDE DEF q
  <2> QED BY <2>2, <2>3, <2>4, BecomeOK DEF RowsOK, store
<1>4. CASE SpawnMissing(w)
  <2>1. Consistent([r EXCEPT !.pc = "template"])
    BY <1>1, <1>4 DEF SpawnMissing, At, Request, Consistent
  <2>2. Become(w, [r EXCEPT !.pc = "template"]) /\ UNCHANGED store
    BY <1>4 DEF SpawnMissing
  <2> QED BY <2>1, <2>2, Moved DEF RowsOK, store, Statements
<1>5. CASE SpawnTemplate(w)
  <2> DEFINE q == [r EXCEPT !.pc = "number", !.kids = Checklist(r.id)]
  <2>1. Checklist(r.id) \in Seq(Nat) /\ IsInjective(Checklist(r.id))
    BY ChecklistOK
  <2>2. q \in Request
    BY <1>1, <2>1 DEF Request, Statements
  <2>3. Consistent(q)
    BY <1>1, <1>5, <2>1 DEF SpawnTemplate, At, Request, Consistent
  <2>4. Become(w, q) /\ UNCHANGED store
    BY <1>5 DEF SpawnTemplate
  <2> HIDE DEF q
  <2> QED BY <2>2, <2>3, <2>4, BecomeOK DEF RowsOK, store
<1>6. CASE SpawnNumber(w)
  <2>1. 1 + Len(r.kids) \in Nat /\ lastSeq \in Nat
    BY <1>1 DEF Request, RowsOK
  <2>2. Consistent([r EXCEPT !.pc = "create", !.base = lastSeq])
    BY <1>1, <1>6 DEF SpawnNumber, At, Request, Consistent
  <2> QED BY <1>6, <2>1, <2>2, NumberOK DEF SpawnNumber, RowsOK, Statements
<1>7. CASE SpawnCreate(w)
  <2>1. PICK next \in Task, copies \in Seq(Item) :
          tasks' = Append(tasks, next) /\ items' = items \o copies
    BY <1>7, Created
  <2>2. Finish(w) /\ UNCHANGED <<activities, rule, lastSeq>>
    BY <1>7 DEF SpawnCreate
  <2>3. tasks' \in Seq(Task) /\ items' \in Seq(Item)
    BY <2>1, ConcatProperties, Appended DEF RowsOK
  <2> QED BY <2>2, <2>3, FinishOK DEF RowsOK
<1> QED BY <1>2, <1>3, <1>4, <1>5, <1>6, <1>7 DEF SpawnStep

LEMMA AnchorOK ==
  ASSUME RowsOK, NEW i \in DOMAIN tasks, NEW when \in Nat
  PROVE  i \in Nat /\ Anchor(i, when) \in Nat /\ TimeOfDay(i, when) \in Nat
<1>1. tasks[i] \in Task /\ i \in Nat
  BY DEF RowsOK
<1> QED BY <1>1, RuleSpec DEF Anchor, TimeOfDay, Task

LEMMA SweepTypes ==
  ASSUME RowsOK, WorkersOK, SweepStep
  PROVE  RowsOK' /\ WorkersOK'
<1> Sweeper \in Workers
  BY DEF Workers
<1>1. CASE SweepList
  <2>1. PICK i \in DOMAIN tasks :
          Become(Sweeper, [Idle EXCEPT !.op = "sweep", !.pc = "open", !.id = i,
                             !.anchor = Anchor(i, tasks[i].completedAt),
                             !.at = TimeOfDay(i, tasks[i].completedAt)])
    BY <1>1 DEF SweepList
  <2> DEFINE q == [Idle EXCEPT !.op = "sweep", !.pc = "open", !.id = i,
                     !.anchor = Anchor(i, tasks[i].completedAt),
                     !.at = TimeOfDay(i, tasks[i].completedAt)]
  <2>2. tasks[i].completedAt \in Nat
    <3>1. tasks[i] \in Task
      BY DEF RowsOK
    <3> QED BY <3>1 DEF Task
  <2>3. /\ i \in Nat /\ Anchor(i, tasks[i].completedAt) \in Nat
        /\ TimeOfDay(i, tasks[i].completedAt) \in Nat
    BY <2>2, AnchorOK
  <2>4. q \in Request
    BY <2>3, IdleOK DEF Request, Statements
  <2>5. Consistent(q)
    BY IdleOK DEF Consistent, Idle
  <2> HIDE DEF q
  <2> QED BY <1>1, <2>1, <2>4, <2>5, BecomeOK DEF SweepList, store, RowsOK, q
<1>2. CASE SweepNothing
  BY <1>2 DEF SweepNothing, RowsOK, store, WorkersOK, HeldOK
<1>3. CASE SweepOpen
  <2>1. CASE SomeOpen
    BY <1>3, <2>1, FinishOK DEF SweepOpen, store, RowsOK
  <2>2. CASE ~SomeOpen
    <3>1. Consistent([worker[Sweeper] EXCEPT !.pc = "rule"])
      BY <1>3, RequestOf DEF SweepOpen, At, Request, Consistent
    <3> QED BY <1>3, <2>2, <3>1, Moved DEF SweepOpen, store, RowsOK, Statements
  <2> QED BY <2>1, <2>2
<1> QED BY <1>1, <1>2, <1>3 DEF SweepStep

BoundsOK ==
  /\ requests \in 0..MaxRequests
  /\ crashes \in 0..MaxCrashes
  /\ overlap \in BOOLEAN

LEMMA ArriveOK ==
  ASSUME BoundsOK, NEW w, NEW op, Arrive(w, op)
  PROVE  BoundsOK' /\ op \in Ops
<1>1. MaxRequests \in Nat /\ requests \in 0..MaxRequests /\ requests' = requests + 1
      /\ requests < MaxRequests
  BY TasksAssumption DEF BoundsOK, Arrive
<1>2. requests' \in 0..MaxRequests
  BY <1>1
<1> QED BY <1>2 DEF BoundsOK, Arrive, Beside

LEMMA BoundsKept ==
  ASSUME BoundsOK, Bounds
  PROVE  BoundsOK'
BY DEF BoundsOK, Bounds

LEMMA InstantsOK ==
  ASSUME BoundsOK, NEW when \in Instants
  PROVE  when \in Nat
<1>1. requests \in Nat /\ Now \in Nat
  BY DEF BoundsOK, Now
<1>2. \A t \in 1..Now : t \in Nat
  BY <1>1
<1> QED BY <1>1, <1>2 DEF Instants

LEMMA CompleteTypes ==
  ASSUME RowsOK, WorkersOK, BoundsOK, NEW w \in Workers, Complete(w)
  PROVE  RowsOK' /\ WorkersOK' /\ BoundsOK'
<1> DEFINE r == worker[w]
<1>1. r \in Request /\ Consistent(r)
  BY RequestOf
<1>2. CASE CompleteFind(w)
  <2>1. BoundsOK' /\ "complete" \in Ops /\ UNCHANGED store
    BY <1>2, ArriveOK DEF CompleteFind
  <2>2. PICK i \in DOMAIN tasks, when \in Instants :
          IF AlreadyDone(i) THEN Finish(w)
          ELSE Become(w, [Idle EXCEPT !.op = "complete", !.pc = "allocate",
                            !.id = i, !.when = when, !.anchor = Anchor(i, when),
                            !.at = TimeOfDay(i, when)])
    BY <1>2 DEF CompleteFind
  <2> DEFINE q == [Idle EXCEPT !.op = "complete", !.pc = "allocate",
                     !.id = i, !.when = when, !.anchor = Anchor(i, when),
                     !.at = TimeOfDay(i, when)]
  <2>3. /\ when \in Nat /\ i \in Nat /\ Anchor(i, when) \in Nat
        /\ TimeOfDay(i, when) \in Nat
    BY InstantsOK, AnchorOK
  <2>4. q \in Request
    BY <2>1, <2>3, IdleOK DEF Request, Statements
  <2>5. Consistent(q)
    BY IdleOK DEF Consistent, Idle
  <2>6. WorkersOK'
    <3>1. CASE AlreadyDone(i)
      BY <2>2, <3>1, FinishOK
    <3>2. CASE ~AlreadyDone(i)
      <4>1. Become(w, q)
        BY <2>2, <3>2
      <4> HIDE DEF q
      <4> QED BY <2>4, <2>5, <4>1, BecomeOK
    <3> QED BY <3>1, <3>2
  <2> QED BY <2>1, <2>6 DEF RowsOK, store
<1>3. CASE CompleteNumber(w)
  <2>1. Consistent([r EXCEPT !.pc = "transaction", !.base = lastSeq])
    BY <1>1, <1>3 DEF CompleteNumber, At, Request, Consistent
  <2>2. Number(w, 2, "transaction") /\ Bounds
    BY <1>3 DEF CompleteNumber
  <2>3. "transaction" \in Statements /\ 2 \in Nat
    BY DEF Statements
  <2> QED BY <2>1, <2>2, <2>3, NumberOK, BoundsKept DEF RowsOK
<1>4. CASE CompleteWrite(w)
  <2> DEFINE done == [tasks[r.id] EXCEPT !.status = "done",
                        !.completedAt = r.when, !.seq = r.base + 1]
             entry == [task |-> r.id, of |-> r.id, seq |-> r.base + 2]
  <2>1. /\ tasks' = [tasks EXCEPT ![r.id] = done]
        /\ activities' = Append(activities, entry)
        /\ Become(w, [r EXCEPT !.pc = "rule"])
        /\ UNCHANGED <<items, rule, lastSeq>> /\ Bounds
    BY <1>4 DEF CompleteWrite
  <2>2. r.id \in Nat /\ r.when \in Nat /\ r.base \in Nat
    BY <1>1 DEF Request
  <2>3. r.id \in DOMAIN tasks => done \in Task
    <3>1. r.id \in DOMAIN tasks => tasks[r.id] \in Task
      BY DEF RowsOK
    <3>2. ASSUME NEW t \in Task, NEW when \in Nat, NEW n \in Nat
          PROVE  [t EXCEPT !.status = "done", !.completedAt = when, !.seq = n] \in Task
      BY DEF Task
    <3>3. r.base + 1 \in Nat
      BY <2>2
    <3> QED BY <2>2, <3>1, <3>2, <3>3
  <2>4. entry \in Activity
    BY <2>2 DEF Activity
  <2>5. Consistent([r EXCEPT !.pc = "rule"])
    BY <1>1, <1>4 DEF CompleteWrite, At, Request, Consistent
  <2>6. WorkersOK'
    BY <2>1, <2>5, Moved DEF Statements
  <2> HIDE DEF done, entry
  <2>7. tasks' \in Seq(Task)
    BY <2>1, <2>3, Written DEF RowsOK
  <2>8. activities' \in Seq(Activity)
    BY <2>1, <2>4, Appended DEF RowsOK
  <2> QED BY <2>1, <2>6, <2>7, <2>8, BoundsKept DEF RowsOK
<1> QED BY <1>2, <1>3, <1>4 DEF Complete

LEMMA EditTypes ==
  ASSUME RowsOK, WorkersOK, BoundsOK, NEW w \in Workers, Edit(w)
  PROVE  RowsOK' /\ WorkersOK' /\ BoundsOK'
<1> DEFINE r == worker[w]
<1>1. r \in Request /\ Consistent(r)
  BY RequestOf
<1>2. ASSUME NEW op \in Ops, EditFind(w, op)
      PROVE  RowsOK' /\ WorkersOK' /\ BoundsOK'
  <2>1. BoundsOK' /\ UNCHANGED store
    BY <1>2, ArriveOK DEF EditFind
  <2>2. PICK i \in DOMAIN tasks, due \in IF op = "move" THEN Deadlines ELSE {0} :
          Become(w, [Idle EXCEPT !.op = op, !.pc = "seq", !.id = i, !.due = due,
                       !.when = IF op = "carry" THEN tasks[i].carried ELSE 0])
    BY <1>2 DEF EditFind
  <2> DEFINE carried == IF op = "carry" THEN tasks[i].carried ELSE 0
             q == [Idle EXCEPT !.op = op, !.pc = "seq", !.id = i, !.due = due,
                     !.when = carried]
  <2>3. i \in Nat /\ carried \in Nat
    <3>1. tasks[i] \in Task /\ i \in Nat
      BY DEF RowsOK
    <3> QED BY <3>1 DEF Task
  <2>4. due \in Nat /\ (op = "move" => due \in Deadlines)
    BY TasksAssumption, RuleSpec
  <2> HIDE DEF carried
  <2>5. q \in Request
    BY <2>3, <2>4, IdleOK DEF Request, Statements
  <2>6. Consistent(q)
    BY <1>2, <2>4, IdleOK DEF Consistent, Idle, EditFind, EditOps
  <2>7. Become(w, q)
    BY <2>2 DEF carried
  <2> HIDE DEF q
  <2>8. WorkersOK'
    BY <2>5, <2>6, <2>7, BecomeOK
  <2> QED BY <2>1, <2>8 DEF RowsOK, store
<1>3. ASSUME NEW op \in Ops, ItemFind(w, op)
      PROVE  RowsOK' /\ WorkersOK' /\ BoundsOK'
  <2>1. BoundsOK' /\ UNCHANGED store /\ op \in {"add", "tick", "discard"}
    BY <1>3, ArriveOK DEF ItemFind
  <2>2. PICK k \in DOMAIN IF op = "add" THEN tasks ELSE items :
          Become(w, [Idle EXCEPT !.op = op, !.pc = "seq", !.id = k])
    BY <1>3 DEF ItemFind
  <2> DEFINE q == [Idle EXCEPT !.op = op, !.pc = "seq", !.id = k]
  <2>3. k \in Nat
    <3>1. CASE op = "add"
      BY <3>1 DEF RowsOK
    <3>2. CASE op # "add"
      BY <3>2 DEF RowsOK
    <3> QED BY <3>1, <3>2
  <2>4. q \in Request
    BY <2>3, IdleOK DEF Request, Statements
  <2>5. Consistent(q)
    BY <2>1, IdleOK DEF Consistent, Idle
  <2>6. Become(w, q)
    BY <2>2
  <2> HIDE DEF q
  <2>7. WorkersOK'
    BY <2>4, <2>5, <2>6, BecomeOK
  <2> QED BY <2>1, <2>7 DEF RowsOK, store
<1>4. ASSUME At(w, "seq"), Number(w, 1, "write"), Bounds
      PROVE  RowsOK' /\ WorkersOK' /\ BoundsOK'
  <2>1. Consistent([r EXCEPT !.pc = "write", !.base = lastSeq])
    BY <1>1, <1>4 DEF At, Request, Consistent
  <2>2. "write" \in Statements /\ 1 \in Nat
    BY DEF Statements
  <2> QED BY <1>4, <2>1, <2>2, NumberOK, BoundsKept DEF RowsOK
<1>5. CASE EditWrite(w)
  <2> DEFINE row == Edited(tasks[r.id], r)
  <2>1. /\ r.op \in EditOps /\ At(w, "write")
        /\ tasks' = [tasks EXCEPT ![r.id] = row]
        /\ Finish(w) /\ UNCHANGED <<items, activities, rule, lastSeq>> /\ Bounds
    BY <1>5 DEF EditWrite
  <2>2. r.when \in Nat /\ r.base + 1 \in Nat /\ r.when + 1 \in Nat
    BY <1>1 DEF Request
  <2>3. r.op = "move" => r.due \in Dates
    BY <1>1, <2>1, TasksAssumption DEF Consistent, At
  <2>4. ASSUME NEW t \in Task PROVE Edited(t, r) \in Task
    <3>1. [t EXCEPT !.seq = r.base + 1] \in Task
      BY <2>2 DEF Task
    <3> DEFINE u == [t EXCEPT !.seq = r.base + 1]
    <3> HIDE DEF u
    <3>2. u \in Task
      BY <3>1 DEF u
    <3>3. /\ [u EXCEPT !.status = "next", !.completedAt = 0] \in Task
          /\ [u EXCEPT !.status = "dropped"] \in Task
          /\ [u EXCEPT !.carried = r.when + 1] \in Task
          /\ [u EXCEPT !.deleted = FALSE] \in Task
          /\ [u EXCEPT !.status = "done"] \in Task
          /\ r.op = "move" => [u EXCEPT !.due = r.due, !.at = 0] \in Task
      BY <2>2, <2>3, <3>2 DEF Task
    <3>4. Edited(t, r) =
            CASE r.op = "reopen"  -> [u EXCEPT !.status = "next", !.completedAt = 0]
              [] r.op = "drop"    -> [u EXCEPT !.status = "dropped"]
              [] r.op = "carry"   -> [u EXCEPT !.carried = r.when + 1]
              [] r.op = "restore" -> [u EXCEPT !.deleted = FALSE]
              [] r.op = "mark"    -> [u EXCEPT !.status = "done"]
              [] r.op = "move"    -> [u EXCEPT !.due = r.due, !.at = 0]
      BY DEF Edited, u
    <3> QED BY <2>1, <3>3, <3>4 DEF EditOps
  <2>5. r.id \in DOMAIN tasks => row \in Task
    <3>1. r.id \in DOMAIN tasks => tasks[r.id] \in Task
      BY DEF RowsOK
    <3> QED BY <2>4, <3>1
  <2> HIDE DEF row
  <2>6. tasks' \in Seq(Task)
    BY <2>1, <2>5, Written DEF RowsOK
  <2> QED BY <2>1, <2>6, FinishOK, BoundsKept DEF RowsOK
<1>6. CASE ItemWrite(w)
  <2>1. Finish(w) /\ UNCHANGED <<tasks, activities, rule, lastSeq>> /\ Bounds
    BY <1>6 DEF ItemWrite
  <2>2. r.id \in Nat /\ r.base + 1 \in Nat
    BY <1>1 DEF Request
  <2>3. items' \in Seq(Item)
    <3>1. PICK done \in BOOLEAN :
          items' = IF r.op = "add"
                   THEN Append(items, [task |-> r.id, done |-> done, deleted |-> FALSE,
                                       copy |-> 0, seq |-> r.base + 1])
                   ELSE [items EXCEPT ![r.id].seq = r.base + 1,
                           ![r.id].done = IF r.op = "tick" THEN done ELSE @,
                           ![r.id].deleted = @ \/ r.op = "discard"]
      BY <1>6 DEF ItemWrite
    <3>2. CASE r.op = "add"
      <4> DEFINE item == [task |-> r.id, done |-> done, deleted |-> FALSE,
                          copy |-> 0, seq |-> r.base + 1]
      <4>1. items' = Append(items, item)
        BY <3>1, <3>2
      <4>2. item \in Item
        BY <2>2 DEF Item
      <4> HIDE DEF item
      <4> QED BY <4>1, <4>2, Appended DEF RowsOK
    <3>3. CASE r.op # "add"
      <4> DEFINE item == [items[r.id] EXCEPT !.seq = r.base + 1,
                            !.done = IF r.op = "tick" THEN done ELSE @,
                            !.deleted = @ \/ r.op = "discard"]
      <4>1. items' = [items EXCEPT ![r.id].seq = r.base + 1,
                          ![r.id].done = IF r.op = "tick" THEN done ELSE @,
                          ![r.id].deleted = @ \/ r.op = "discard"]
        BY <3>1, <3>3
      <4>2. items' = [items EXCEPT ![r.id] = item]
        BY <4>1
      <4>3. r.id \in DOMAIN items => item \in Item
        <5>1. r.id \in DOMAIN items => items[r.id] \in Item
          BY DEF RowsOK
        <5>2. ASSUME NEW t \in Item, NEW n \in Nat, NEW a, NEW b
              PROVE  [t EXCEPT !.seq = n, !.done = IF a = "tick" THEN done ELSE @,
                        !.deleted = @ \/ b = "discard"] \in Item
          BY DEF Item
        <5> QED BY <2>2, <5>1, <5>2
      <4> HIDE DEF item
      <4> QED BY <4>2, <4>3, Written DEF RowsOK
    <3> QED BY <3>2, <3>3
  <2> QED BY <2>1, <2>3, FinishOK, BoundsKept DEF RowsOK
<1> QED BY <1>2, <1>3, <1>4, <1>5, <1>6 DEF Edit

LEMMA PlaceOK ==
  ASSUME NEW s \in Seq(Nat), NEW x, Contains(s, x)
  PROVE  Place(s, x) \in 1..Len(s) /\ s[Place(s, x)] = x
<1>1. DOMAIN s = 1..Len(s)
  OBVIOUS
<1>2. \E n \in DOMAIN s : s[n] = x
  BY <1>1 DEF Contains
<1> QED BY <1>1, <1>2 DEF Place

LEMMA RemoveTypes ==
  ASSUME RowsOK, WorkersOK, BoundsOK, NEW w \in Workers, RemoveTask(w)
  PROVE  RowsOK' /\ WorkersOK' /\ BoundsOK'
<1> DEFINE r == worker[w]
<1>1. r \in Request /\ Consistent(r)
  BY RequestOf
<1>2. CASE RemoveFind(w)
  <2>1. BoundsOK' /\ UNCHANGED store /\ "remove" \in Ops
    BY <1>2, ArriveOK DEF RemoveFind
  <2>2. PICK i \in DOMAIN tasks :
          Become(w, [Idle EXCEPT !.op = "remove", !.pc = "children", !.id = i])
    BY <1>2 DEF RemoveFind
  <2> DEFINE q == [Idle EXCEPT !.op = "remove", !.pc = "children", !.id = i]
  <2>3. i \in Nat
    BY DEF RowsOK
  <2>4. q \in Request /\ Consistent(q)
    BY <2>1, <2>3, IdleOK DEF Request, Statements, Consistent, Idle
  <2>5. Become(w, q)
    BY <2>2
  <2> HIDE DEF q
  <2>6. WorkersOK'
    BY <2>4, <2>5, BecomeOK
  <2> QED BY <2>1, <2>6 DEF RowsOK, store
<1>3. CASE RemoveChildren(w)
  <2> DEFINE q == [r EXCEPT !.pc = "links", !.kids = Children(r.id)]
  <2>1. Children(r.id) \in Seq(Nat) /\ IsInjective(Children(r.id))
    BY ChecklistOK DEF Children
  <2>2. q \in Request
    BY <1>1, <2>1 DEF Request, Statements
  <2>3. Consistent(q)
    BY <1>1, <1>3, <2>1 DEF RemoveChildren, At, Request, Consistent
  <2>4. Become(w, q) /\ UNCHANGED store /\ Bounds
    BY <1>3 DEF RemoveChildren
  <2> HIDE DEF q
  <2> QED BY <2>2, <2>3, <2>4, BecomeOK, BoundsKept DEF RowsOK, store
<1>4. CASE RemoveLinks(w)
  <2> DEFINE q == [r EXCEPT !.pc = "reserve", !.links = Links(r.id)]
  <2>1. Links(r.id) \in Seq(Nat) /\ IsInjective(Links(r.id))
    BY LinksOK
  <2>2. q \in Request
    BY <1>1, <2>1 DEF Request, Statements
  <2>3. Consistent(q)
    BY <1>1, <1>4, <2>1 DEF RemoveLinks, At, Request, Consistent
  <2>4. Become(w, q) /\ UNCHANGED store /\ Bounds
    BY <1>4 DEF RemoveLinks
  <2> HIDE DEF q
  <2> QED BY <2>2, <2>3, <2>4, BecomeOK, BoundsKept DEF RowsOK, store
<1>5. CASE RemoveNumber(w)
  <2>1. 1 + Len(r.kids) + Len(r.links) \in Nat
    <3>1. Len(r.kids) \in Nat /\ Len(r.links) \in Nat
      BY <1>1 DEF Request
    <3>2. \A a, b \in Nat : 1 + a + b \in Nat
      OBVIOUS
    <3> QED BY <3>1, <3>2
  <2>2. Consistent([r EXCEPT !.pc = "delete", !.base = lastSeq])
    BY <1>1, <1>5 DEF RemoveNumber, At, Request, Consistent
  <2>3. Number(w, 1 + Len(r.kids) + Len(r.links), "delete") /\ Bounds
    BY <1>5 DEF RemoveNumber
  <2>4. "delete" \in Statements
    BY DEF Statements
  <2> QED BY <2>1, <2>2, <2>3, <2>4, NumberOK, BoundsKept DEF RowsOK
<1>6. CASE RemoveWrite(w)
  <2> DEFINE n == Len(r.kids)
             gone == [tasks[r.id] EXCEPT !.deleted = TRUE,
                        !.seq = r.base + n + Len(r.links) + 1]
  <2>1. /\ items' = [k \in DOMAIN items |->
              IF Contains(r.kids, k)
              THEN [items[k] EXCEPT !.deleted = TRUE, !.seq = r.base + Place(r.kids, k)]
              ELSE items[k]]
        /\ activities' = [a \in DOMAIN activities |->
              IF Contains(r.links, a)
              THEN [activities[a] EXCEPT !.task = 0,
                      !.seq = r.base + n + Place(r.links, a)]
              ELSE activities[a]]
        /\ tasks' = [tasks EXCEPT ![r.id] = gone]
        /\ Finish(w) /\ UNCHANGED <<rule, lastSeq>> /\ Bounds
    BY <1>6 DEF RemoveWrite
  <2>2. /\ r.base \in Nat /\ n \in Nat /\ Len(r.links) \in Nat
        /\ r.kids \in Seq(Nat) /\ r.links \in Seq(Nat)
    BY <1>1 DEF Request
  <2> DEFINE m == Len(r.links)
  <2> HIDE DEF n, m
  <2>3. tasks' \in Seq(Task)
    <3>1. r.id \in DOMAIN tasks => gone \in Task
      <4>1. r.id \in DOMAIN tasks => tasks[r.id] \in Task
        BY DEF RowsOK
      <4>2. r.base + n + Len(r.links) + 1 \in Nat
        <5>1. r.base \in Nat /\ m \in Nat
          BY <2>2 DEF m
        <5>2. r.base + n + m + 1 \in Nat
          BY <2>2, <5>1
        <5> QED BY <5>2 DEF m
      <4>3. ASSUME NEW t \in Task, NEW number \in Nat
            PROVE  [t EXCEPT !.deleted = TRUE, !.seq = number] \in Task
        BY DEF Task
      <4> QED BY <4>1, <4>2, <4>3
    <3> HIDE DEF gone
    <3> QED BY <2>1, <3>1, Written DEF RowsOK
  <2>4. items' \in Seq(Item)
    <3>1. ASSUME NEW k \in DOMAIN items PROVE items'[k] \in Item
      <4>1. items[k] \in Item
        BY DEF RowsOK
      <4>2. CASE Contains(r.kids, k)
        <5>1. items'[k] = [items[k] EXCEPT !.deleted = TRUE,
                                           !.seq = r.base + Place(r.kids, k)]
          BY <2>1, <4>2
        <5>2. Place(r.kids, k) \in 1..Len(r.kids)
          BY <2>2, <4>2, PlaceOK
        <5>3. r.base + Place(r.kids, k) \in Nat
          BY <2>2, <5>2
        <5> QED BY <4>1, <5>1, <5>3 DEF Item
      <4>3. CASE ~Contains(r.kids, k)
        BY <2>1, <4>1, <4>3
      <4> QED BY <4>2, <4>3
    <3>2. DOMAIN items' = DOMAIN items /\ items' = [k \in DOMAIN items |-> items'[k]]
      BY <2>1
    <3> QED BY <3>1, <3>2, Mapped DEF RowsOK
  <2>5. activities' \in Seq(Activity)
    <3>1. ASSUME NEW a \in DOMAIN activities PROVE activities'[a] \in Activity
      <4>1. activities[a] \in Activity
        BY DEF RowsOK
      <4>2. CASE Contains(r.links, a)
        <5>1. activities'[a] = [activities[a] EXCEPT !.task = 0,
                                  !.seq = r.base + n + Place(r.links, a)]
          BY <2>1, <4>2
        <5>2. Place(r.links, a) \in 1..Len(r.links)
          BY <2>2, <4>2, PlaceOK
        <5>3. r.base + n + Place(r.links, a) \in Nat
          BY <2>2, <5>2, SMTT(20)
        <5>4. ASSUME NEW t \in Activity, NEW number \in Nat
              PROVE  [t EXCEPT !.task = 0, !.seq = number] \in Activity
          BY DEF Activity
        <5> QED BY <4>1, <5>1, <5>3, <5>4
      <4>3. CASE ~Contains(r.links, a)
        BY <2>1, <4>1, <4>3
      <4> QED BY <4>2, <4>3
    <3>2. DOMAIN activities' = DOMAIN activities
          /\ activities' = [a \in DOMAIN activities |-> activities'[a]]
      BY <2>1
    <3> QED BY <3>1, <3>2, Mapped DEF RowsOK
  <2> QED BY <2>1, <2>3, <2>4, <2>5, FinishOK, BoundsKept DEF RowsOK
<1> QED BY <1>2, <1>3, <1>4, <1>5, <1>6 DEF RemoveTask

LEMMA PushTypes ==
  ASSUME RowsOK, WorkersOK, BoundsOK, NEW w \in Workers,
         PushCompletion(w) \/ PushRuleEnd(w)
  PROVE  RowsOK' /\ WorkersOK' /\ BoundsOK'
<1>1. UNCHANGED worker /\ lastSeq' = lastSeq + 1 /\ UNCHANGED <<items, activities>>
  BY DEF PushCompletion, PushRuleEnd
<1>2. BoundsOK'
  BY ArriveOK DEF PushCompletion, PushRuleEnd
<1>3. WorkersOK' /\ lastSeq' \in Nat
  BY <1>1 DEF WorkersOK, HeldOK, RowsOK
<1>4. tasks' \in Seq(Task) /\ rule' \in BOOLEAN
  <2>1. CASE PushCompletion(w)
    <3>1. PICK i \in DOMAIN tasks, when \in Instants :
            tasks' = [tasks EXCEPT ![i] = [@ EXCEPT !.status = "done",
                        !.completedAt = when, !.deleted = FALSE, !.seq = lastSeq + 1]]
      BY <2>1 DEF PushCompletion
    <3> DEFINE row == [tasks[i] EXCEPT !.status = "done", !.completedAt = when,
                         !.deleted = FALSE, !.seq = lastSeq + 1]
    <3>2. row \in Task
      <4>1. tasks[i] \in Task /\ when \in Nat /\ lastSeq + 1 \in Nat
        BY InstantsOK DEF RowsOK
      <4> QED BY <4>1 DEF Task
    <3>3. tasks' = [tasks EXCEPT ![i] = row]
      BY <3>1
    <3> HIDE DEF row
    <3> QED BY <2>1, <3>2, <3>3, Written DEF RowsOK, PushCompletion
  <2>2. CASE PushRuleEnd(w)
    BY <2>2 DEF PushRuleEnd, RowsOK
  <2> QED BY <2>1, <2>2
<1> QED BY <1>1, <1>2, <1>3, <1>4 DEF RowsOK

LEMMA CrashTypes ==
  ASSUME RowsOK, WorkersOK, BoundsOK, NEW w \in Workers, Crash(w)
  PROVE  RowsOK' /\ WorkersOK' /\ BoundsOK'
<1>1. UNCHANGED <<store, requests, overlap>> /\ Finish(w)
  BY DEF Crash
<1>2. crashes' \in 0..MaxCrashes
  BY TasksAssumption DEF Crash, BoundsOK
<1> QED BY <1>1, <1>2, FinishOK DEF RowsOK, store, BoundsOK

\* What a step of Tasks and recurrence does to the types.
LEMMA TaskTypes ==
  ASSUME RowsOK, WorkersOK, BoundsOK, Next
  PROVE  RowsOK' /\ WorkersOK' /\ BoundsOK'
<1> Handlers \subseteq Workers /\ Sweeper \in Workers
  BY DEF Workers
<1>1. ASSUME NEW w \in Handlers,
             Complete(w) \/ Edit(w) \/ RemoveTask(w) \/ PushCompletion(w) \/ PushRuleEnd(w)
      PROVE  RowsOK' /\ WorkersOK' /\ BoundsOK'
  BY <1>1, CompleteTypes, EditTypes, RemoveTypes, PushTypes
<1>2. ASSUME NEW w \in Workers, SpawnStep(w), Bounds
      PROVE  RowsOK' /\ WorkersOK' /\ BoundsOK'
  BY <1>2, SpawnTypes, BoundsKept
<1>3. ASSUME SweepStep, Beside(Sweeper), UNCHANGED <<requests, crashes>>
      PROVE  RowsOK' /\ WorkersOK' /\ BoundsOK'
  <2>1. BoundsOK'
    BY <1>3 DEF BoundsOK, Beside
  <2> QED BY <1>3, <2>1, SweepTypes
<1>4. ASSUME NEW w \in Workers, Crash(w)
      PROVE  RowsOK' /\ WorkersOK' /\ BoundsOK'
  BY <1>4, CrashTypes
<1> QED BY <1>1, <1>2, <1>3, <1>4 DEF Next, Sweep

-----------------------------------------------------------------------------
(* Types of the meeting                                                    *)

LEMMA MeetingTypes ==
  ASSUME RowsOK, WorkersOK, BoundsOK, NotesOK, NEW w \in Workers, MeetingStep(w)
  PROVE  RowsOK' /\ WorkersOK' /\ BoundsOK' /\ NotesOK'
<1> DEFINE r == worker[w]
<1>1. r \in Request /\ Consistent(r)
  BY RequestOf
<1>2. /\ r.id \in Nat /\ r.when \in Nat /\ r.base \in Nat /\ r.base + 1 \in Nat
      /\ r.kids \in Seq(Nat) /\ Len(r.kids) \in Nat
  BY <1>1, SMTT(20) DEF Request
<1>3. ASSUME NEW op \in Ops, MeetingFind(w, op)
      PROVE  RowsOK' /\ WorkersOK' /\ BoundsOK' /\ NotesOK'
  <2>1. /\ BoundsOK' /\ UNCHANGED <<store, meeting, notes>>
        /\ op \in MeetingOps
    BY <1>3, ArriveOK DEF MeetingFind, Read, OtherRows, store
  <2>2. WorkersOK'
    <3>1. CASE op \in {"review", "process", "scratch"}
      <4>1. PICK n \in DOMAIN notes :
              Become(w, [Idle EXCEPT !.op = op, !.pc = "seq", !.id = n])
        BY <1>3, <3>1 DEF MeetingFind
      <4> DEFINE q == [Idle EXCEPT !.op = op, !.pc = "seq", !.id = n]
      <4>2. n \in Nat
        BY DEF NotesOK
      <4>3. q \in Request
        BY <4>2, IdleOK DEF Request, Statements
      <4>4. Consistent(q)
        BY <3>1, IdleOK DEF Consistent, Idle
      <4>5. Become(w, q)
        BY <4>1
      <4> HIDE DEF q
      <4> QED BY <4>3, <4>4, <4>5, BecomeOK
    <3>2. CASE op \notin {"review", "process", "scratch"}
      <4>1. PICK lines \in IF op = "minutes" THEN 0..MaxLines ELSE {meeting.lines} :
              Become(w, [Idle EXCEPT !.op = op, !.when = lines,
                           !.pc = IF op \in {"split", "rebuild"} THEN "notes" ELSE "seq"])
        BY <1>3, <3>2 DEF MeetingFind
      <4> DEFINE pc == IF op \in {"split", "rebuild"} THEN "notes" ELSE "seq"
                 q == [Idle EXCEPT !.op = op, !.when = lines, !.pc = pc]
      <4>2. lines \in 0..MaxLines /\ lines \in Nat
        <5>1. meeting.lines \in 0..MaxLines
          BY DEF NotesOK, Meeting
        <5>2. lines \in 0..MaxLines
          BY <5>1
        <5> QED BY <5>2, MeetingsAssumption
      <4>3. pc \in {"notes", "seq"}
        OBVIOUS
      <4> HIDE DEF pc
      <4>4. q \in Request
        BY <4>2, <4>3, IdleOK DEF Request, Statements
      <4>5. Consistent(q)
        BY <2>1, <4>2, <4>3, IdleOK DEF Consistent, Idle, MeetingOps
      <4>6. Become(w, q)
        BY <4>1 DEF pc
      <4> HIDE DEF q
      <4> QED BY <4>4, <4>5, <4>6, BecomeOK
    <3> QED BY <3>1, <3>2
  <2> QED BY <2>1, <2>2 DEF RowsOK, store, NotesOK
<1>4. CASE MeetingWrite(w)
  <2>1. meeting' \in Meeting
    <3>1. r.op = "minutes" => r.when \in 0..MaxLines
      BY <1>1 DEF Consistent
    <3>2. ASSUME NEW m \in Meeting
          PROVE  /\ r.op = "minutes" =>
                      [m EXCEPT !.lines = r.when, !.seq = r.base + 1] \in Meeting
                 /\ [m EXCEPT !.deleted = TRUE, !.seq = r.base + 1] \in Meeting
      BY <1>2, <3>1 DEF Meeting
    <3> QED BY <1>4, <3>2 DEF MeetingWrite, NotesOK
  <2>2. Finish(w) /\ OtherRows /\ UNCHANGED <<lastSeq, notes>> /\ Bounds
    BY <1>4 DEF MeetingWrite
  <2> QED BY <2>1, <2>2, FinishOK, BoundsKept DEF RowsOK, NotesOK, OtherRows
<1>5. CASE NoteAdd(w)
  <2> DEFINE note == [line |-> 0, processed |-> FALSE, result |-> FALSE,
                      deleted |-> FALSE, seq |-> r.base + 1]
  <2>1. /\ notes' = Append(notes, note)
        /\ Finish(w) /\ OtherRows /\ UNCHANGED <<lastSeq, meeting>> /\ Bounds
    BY <1>5 DEF NoteAdd
  <2>2. note \in NoteItem
    BY <1>2, MeetingsAssumption DEF NoteItem
  <2> HIDE DEF note
  <2>3. notes' \in Seq(NoteItem)
    BY <2>1, <2>2, Appended DEF NotesOK
  <2> QED BY <2>1, <2>3, FinishOK, BoundsKept DEF RowsOK, NotesOK, OtherRows
<1>6. CASE NoteWrite(w)
  <2>1. PICK note \in NoteEdited(notes[r.id], r) : notes' = [notes EXCEPT ![r.id] = note]
    BY <1>6 DEF NoteWrite
  <2>2. /\ r.op \in {"review", "process", "scratch"}
        /\ Finish(w) /\ OtherRows /\ UNCHANGED <<lastSeq, meeting>> /\ Bounds
    BY <1>6 DEF NoteWrite
  <2>3. ASSUME NEW old \in NoteItem, NEW new \in NoteEdited(old, r)
        PROVE  new \in NoteItem
    <3>1. PICK p \in CASE r.op = "review" -> BOOLEAN
                       [] r.op = "process" -> {TRUE}
                       [] r.op = "scratch" -> {old.processed} :
            new = [old EXCEPT !.processed = p, !.result = @ \/ r.op = "process",
                     !.deleted = @ \/ r.op = "scratch", !.seq = r.base + 1]
      BY DEF NoteEdited
    <3>2. p \in BOOLEAN
      BY <2>2 DEF NoteItem
    <3> QED BY <1>2, <3>1, <3>2 DEF NoteItem
  <2>4. r.id \in DOMAIN notes => note \in NoteItem
    <3>1. r.id \in DOMAIN notes => notes[r.id] \in NoteItem
      BY DEF NotesOK
    <3> QED BY <2>3, <3>1
  <2>5. notes' \in Seq(NoteItem)
    BY <2>1, <2>4, Written DEF NotesOK
  <2> QED BY <2>2, <2>5, FinishOK, BoundsKept DEF RowsOK, NotesOK, OtherRows
<1>7. CASE SplitRead(w)
  <2>1. Standing \in Seq(Nat) /\ IsInjective(Standing)
    <3> DEFINE S == {n \in DOMAIN notes : ~notes[n].deleted}
    <3>1. S \subseteq DOMAIN notes /\ notes \in Seq(NoteItem)
      BY DEF NotesOK
    <3>2. Standing = SetToSeq(S)
      BY DEF Standing, NoteItems
    <3> HIDE DEF S
    <3> QED BY <3>1, <3>2, RowList
  <2> DEFINE q == [r EXCEPT !.pc = "numbers", !.kids = Standing]
  <2>2. q \in Request
    BY <1>1, <2>1 DEF Request, Statements
  <2>3. Consistent(q)
    BY <1>1, <1>7, <2>1 DEF SplitRead, At, Request, Consistent
  <2>4. Read /\ Bounds /\ (Finish(w) \/ Become(w, q))
    BY <1>7 DEF SplitRead
  <2> HIDE DEF q
  <2>5. WorkersOK'
    BY <2>2, <2>3, <2>4, FinishOK, BecomeOK
  <2> QED BY <2>4, <2>5, BoundsKept DEF RowsOK, NotesOK, Read, OtherRows
<1>8. CASE SplitNumber(w)
  <2>1. Number(w, SplitSize(w), "split") /\ UNCHANGED <<meeting, notes>> /\ Bounds
    BY <1>8 DEF SplitNumber
  <2>2. SplitSize(w) \in Nat /\ "split" \in Statements
    BY <1>2 DEF SplitSize, Statements
  <2>3. Consistent([r EXCEPT !.pc = "split", !.base = lastSeq])
    BY <1>1, <1>8 DEF SplitNumber, At, Request, Consistent
  <2> QED BY <2>1, <2>2, <2>3, NumberOK, BoundsKept DEF RowsOK, NotesOK
<1>9. CASE SplitWrite(w)
  <2> DEFINE old == Len(r.kids)
             keep(n) == IF Contains(r.kids, n)
                        THEN [notes[n] EXCEPT !.deleted = TRUE,
                                              !.seq = r.base + Place(r.kids, n)]
                        ELSE notes[n]
             kept == [n \in DOMAIN notes |-> keep(n)]
             line(k) == [line |-> k, processed |-> FALSE, result |-> FALSE,
                         deleted |-> FALSE, seq |-> r.base + old + k]
             lines == [k \in 1..r.when |-> line(k)]
  <2>1. /\ notes' = kept \o lines
        /\ Finish(w) /\ OtherRows /\ UNCHANGED <<lastSeq, meeting>> /\ Bounds
    BY <1>9 DEF SplitWrite, Lines
  <2>2. kept \in Seq(NoteItem)
    <3>1. ASSUME NEW n \in DOMAIN notes PROVE keep(n) \in NoteItem
      <4>1. notes[n] \in NoteItem
        BY DEF NotesOK
      <4>2. CASE Contains(r.kids, n)
        <5>1. Place(r.kids, n) \in 1..Len(r.kids)
          BY <1>2, <4>2, PlaceOK
        <5>2. r.base + Place(r.kids, n) \in Nat
          BY <1>2, <5>1
        <5>3. ASSUME NEW t \in NoteItem, NEW number \in Nat
              PROVE  [t EXCEPT !.deleted = TRUE, !.seq = number] \in NoteItem
          BY DEF NoteItem
        <5> QED BY <4>1, <4>2, <5>2, <5>3
      <4>3. CASE ~Contains(r.kids, n)
        BY <4>1, <4>3
      <4> QED BY <4>2, <4>3
    <3> HIDE DEF keep
    <3> QED BY <3>1, Mapped DEF NotesOK
  <2>3. lines \in Seq(NoteItem)
    <3>1. ASSUME NEW k \in 1..r.when PROVE line(k) \in NoteItem
      <4>1. r.when \in 0..MaxLines
        BY <1>1, <1>9 DEF Consistent, SplitWrite, At
      <4>2. k \in 0..MaxLines /\ k \in Nat
        BY <4>1, MeetingsAssumption
      <4> HIDE DEF old
      <4>3. old \in Nat
        BY <1>2 DEF old
      <4>4. r.base + old + k \in Nat
        BY <1>2, <4>2, <4>3, SMTT(20)
      <4> QED BY <4>2, <4>4 DEF NoteItem
    <3> HIDE DEF line
    <3> QED BY <1>2, <3>1, SMTT(20)
  <2> HIDE DEF kept, lines
  <2>4. notes' \in Seq(NoteItem)
    BY <2>1, <2>2, <2>3, ConcatProperties
  <2> QED BY <2>1, <2>4, FinishOK, BoundsKept DEF RowsOK, NotesOK, OtherRows
<1> QED BY <1>3, <1>4, <1>5, <1>6, <1>7, <1>8, <1>9 DEF MeetingStep

LEMMA InitTypes ==
  ASSUME NEW n \in Nat, InitAfter(n)
  PROVE  RowsOK /\ WorkersOK /\ BoundsOK
<1> DEFINE first == [due |-> FirstDue, at |-> 0,
                     reminder |-> IF FirstDue = 0 THEN None ELSE reminderFor(Rule, FirstDue),
                     status |-> "next", deleted |-> FALSE, completedAt |-> 0,
                     carried |-> 0, from |-> 0, seq |-> n + 2]
           item == [task |-> 1, done |-> FALSE, deleted |-> FALSE, copy |-> 0,
                    seq |-> n + 3]
<1>1. first \in Task
  <2>1. FirstDue \in Dates /\ FirstDue \in Int
    BY RuleSpec
  <2>2. (IF FirstDue = 0 THEN None ELSE reminderFor(Rule, FirstDue)) \in Int \union {None}
    BY <2>1, ReminderOK
  <2> QED BY <2>1, <2>2 DEF Task
<1>2. item \in Item
  BY DEF Item
<1>3. tasks = <<first>> /\ items = <<item>> /\ activities = <<>>
  BY DEF InitAfter
<1> HIDE DEF first, item
<1>4. RowsOK
  <2>1. \A T : \A t \in T : <<t>> \in Seq(T)
    OBVIOUS
  <2>2. activities \in Seq(Activity)
    BY <1>3, EmptySeq
  <2>3. rule = TRUE /\ lastSeq = n + 3
    BY DEF InitAfter
  <2> QED BY <1>1, <1>2, <1>3, <2>1, <2>2, <2>3 DEF RowsOK
<1>5. WorkersOK
  BY IdleOK DEF WorkersOK, HeldOK, InitAfter
<1>6. BoundsOK
  <2>1. MaxRequests \in Nat /\ MaxCrashes \in Nat
    BY TasksAssumption
  <2>2. requests = 0 /\ crashes = 0 /\ overlap = FALSE
    BY DEF InitAfter
  <2>3. requests \in 0..MaxRequests /\ crashes \in 0..MaxCrashes
    BY <2>1, <2>2
  <2> QED BY <2>2, <2>3 DEF BoundsOK
<1> QED BY <1>4, <1>5, <1>6

\* A worker's request and the rows stay what they are declared to be, for any
\* number of handlers and any mix of the operations of TasksService.
TaskTypeInv == RowsOK /\ WorkersOK /\ BoundsOK

LEMMA TypeInvSays == TaskTypeInv => TypeOK
BY DEF TaskTypeInv, RowsOK, WorkersOK, BoundsOK, TypeOK

\* The types of a series of occurrences.
THEOREM TaskTypesCorrect == Spec => []TypeOK
<1>1. Init => TaskTypeInv
  BY InitTypes DEF Init, TaskTypeInv
<1>2. TaskTypeInv /\ [Next]_vars => TaskTypeInv'
  <2>1. CASE Next
    BY <2>1, TaskTypes DEF TaskTypeInv
  <2>2. CASE UNCHANGED vars
    BY <2>2 DEF TaskTypeInv, RowsOK, WorkersOK, HeldOK, BoundsOK, vars, store
  <2> QED BY <2>1, <2>2
<1> QED BY <1>1, <1>2, TypeInvSays, PTL DEF Spec

TypeInv == TaskTypeInv /\ NotesOK

LEMMA TypeInvInit == MeetingInit => TypeInv
<1> SUFFICES ASSUME MeetingInit PROVE TypeInv
  OBVIOUS
<1>1. MaxLines \in Nat /\ MaxLines + 1 \in Nat
  BY MeetingsAssumption
<1>2. TaskTypeInv
  BY <1>1, InitTypes DEF MeetingInit, TaskTypeInv
<1>3. meeting \in Meeting
  BY <1>1 DEF MeetingInit, Meeting
<1> DEFINE line(k) == [line |-> k, processed |-> k = 1, result |-> k = 1,
                       deleted |-> FALSE, seq |-> 1 + k]
<1>4. \A k \in 1..MaxLines : line(k) \in NoteItem
  BY <1>1 DEF NoteItem
<1>5. notes = <<>> \/ notes = [k \in 1..MaxLines |-> line(k)]
  BY DEF MeetingInit
<1> HIDE DEF line
<1>6. notes \in Seq(NoteItem)
  <2>1. CASE notes = <<>>
    BY <2>1, EmptySeq
  <2>2. CASE notes = [k \in 1..MaxLines |-> line(k)]
    BY <1>1, <1>4, <2>2
  <2> QED BY <1>5, <2>1, <2>2
<1> QED BY <1>2, <1>3, <1>6 DEF TypeInv, NotesOK

LEMMA TypeInvStep == TypeInv /\ [MeetingNext]_allVars => TypeInv'
<1> SUFFICES ASSUME TypeInv, [MeetingNext]_allVars PROVE TypeInv'
  OBVIOUS
<1>1. CASE Next /\ UNCHANGED <<meeting, notes>>
  BY <1>1, TaskTypes DEF TypeInv, TaskTypeInv, NotesOK
<1>2. ASSUME NEW w \in Handlers, MeetingStep(w) PROVE TypeInv'
  BY <1>2, MeetingTypes DEF TypeInv, TaskTypeInv, Workers
<1>3. CASE UNCHANGED allVars
  BY <1>3 DEF TypeInv, TaskTypeInv, RowsOK, WorkersOK, HeldOK, BoundsOK, NotesOK,
              allVars, vars, store
<1> QED BY <1>1, <1>2, <1>3 DEF MeetingNext

\* The same of the account with a meeting in it: the inductive invariant of the types.
THEOREM TypeInvariant == MeetingSpec => []TypeInv
BY TypeInvInit, TypeInvStep, PTL DEF MeetingSpec

\* The types of the tasks, beside a meeting.
THEOREM TypesCorrect == MeetingSpec => []TypeOK
<1>1. TypeInv => TypeOK
  BY TypeInvSays DEF TypeInv
<1> QED BY <1>1, TypeInvariant, PTL

\* The types of the meeting and its notes.
THEOREM NotesTyped == MeetingSpec => []NotesOK
<1>1. TypeInv => NotesOK
  BY DEF TypeInv
<1> QED BY <1>1, TypeInvariant, PTL

-----------------------------------------------------------------------------
(* Whose step it is                                                        *)

TaskStep(w) ==
  \/ Complete(w) \/ Edit(w) \/ RemoveTask(w) \/ PushCompletion(w) \/ PushRuleEnd(w)
  \/ SpawnStep(w) /\ Bounds
  \/ w = Sweeper /\ SweepStep /\ Beside(Sweeper) /\ UNCHANGED <<requests, crashes>>
  \/ Crash(w)

StepOf(w) == (TaskStep(w) /\ UNCHANGED <<meeting, notes>>) \/ MeetingStep(w)

LEMMA SomeonesStep == MeetingNext => \E w \in Workers : StepOf(w)
<1>1. Next => \E w \in Workers : TaskStep(w)
  BY DEF Next, Sweep, TaskStep, Workers
<1> QED BY <1>1 DEF MeetingNext, StepOf, Workers

\* A step changes one worker.
LEMMA OthersWait ==
  ASSUME WorkersOK, NEW w \in Workers, TaskStep(w) \/ MeetingStep(w),
         NEW v \in Workers, v # w
  PROVE  worker'[v] = worker[v]
<1>1. ASSUME NEW r, Become(w, r) PROVE worker'[v] = worker[v]
  BY <1>1 DEF Become, WorkersOK
<1>2. ASSUME Finish(w) PROVE worker'[v] = worker[v]
  BY <1>1, <1>2 DEF Finish
<1>3. ASSUME NEW n, NEW pc, Number(w, n, pc) PROVE worker'[v] = worker[v]
  BY <1>1, <1>3 DEF Number
<1>4. CASE Complete(w)
  BY <1>1, <1>2, <1>3, <1>4 DEF Complete, CompleteFind, CompleteNumber, CompleteWrite
<1>5. CASE Edit(w)
  BY <1>1, <1>2, <1>3, <1>5 DEF Edit, EditFind, ItemFind, EditWrite, ItemWrite
<1>6. CASE RemoveTask(w)
  BY <1>1, <1>2, <1>3, <1>6 DEF RemoveTask, RemoveFind, RemoveChildren, RemoveLinks,
                                RemoveNumber, RemoveWrite
<1>7. CASE PushCompletion(w) \/ PushRuleEnd(w)
  BY <1>7 DEF PushCompletion, PushRuleEnd
<1>8. CASE SpawnStep(w)
  BY <1>1, <1>2, <1>3, <1>8 DEF SpawnStep, SpawnEnds, SpawnRule, SpawnFound,
       SpawnMissing, SpawnTemplate, SpawnNumber, SpawnCreate
<1>9. CASE w = Sweeper /\ SweepStep
  BY <1>1, <1>2, <1>9 DEF SweepStep, SweepList, SweepNothing, SweepOpen
<1>10. CASE Crash(w)
  BY <1>2, <1>10 DEF Crash
<1>11. CASE MeetingStep(w)
  BY <1>1, <1>2, <1>3, <1>11 DEF MeetingStep, MeetingFind, MeetingWrite, NoteAdd,
       NoteWrite, SplitRead, SplitNumber, SplitWrite
<1> QED BY <1>4, <1>5, <1>6, <1>7, <1>8, <1>9, <1>10, <1>11 DEF TaskStep

LEMMA OthersStand ==
  ASSUME WorkersOK, NEW w \in Workers, StepOf(w), NEW v \in Workers, v # w
  PROVE  worker'[v] = worker[v]
BY OthersWait DEF StepOf

-----------------------------------------------------------------------------
(* The occurrences are on schedule                                         *)

\* A request that was to bring about the next occurrence ends with a step of
\* spawnNextOccurrence, unless it dies.
LEMMA SpawnEndsItself ==
  ASSUME WorkersOK, BoundsOK, NEW v \in Workers, TaskStep(v) \/ MeetingStep(v),
         NEW w \in Workers, Ends(w), worker[w].pc \in {"rule", "existing", "create"}
  PROVE  SpawnStep(w)
<1>1. worker'[w] # worker[w] /\ crashes' = crashes
  BY DEF Ends, At, Idle
<1>2. v = w
  BY <1>1, OthersWait
<1>3. \A pc : pc \notin {"rule", "existing", "create"} => ~At(w, pc)
  BY DEF At
<1>4. \A op : ~Arrive(w, op)
  BY <1>3 DEF Arrive
<1>5. ~Complete(w)
  BY <1>3, <1>4 DEF Complete, CompleteFind, CompleteNumber, CompleteWrite
<1>6. ~Edit(w)
  BY <1>3, <1>4 DEF Edit, EditFind, ItemFind, EditWrite, ItemWrite
<1>7. ~RemoveTask(w)
  BY <1>3, <1>4 DEF RemoveTask, RemoveFind, RemoveChildren, RemoveLinks,
                    RemoveNumber, RemoveWrite
<1>8. ~PushCompletion(w) /\ ~PushRuleEnd(w)
  BY <1>4 DEF PushCompletion, PushRuleEnd
<1>9. ~(w = Sweeper /\ SweepStep /\ Beside(Sweeper))
  <2>1. w # Sweeper \/ ~SweepNothing
    BY <1>3 DEF SweepNothing
  <2> QED BY <1>3, <2>1 DEF SweepStep, SweepList, SweepOpen
<1>10. ~Crash(w)
  <2>1. crashes \in Int
    BY DEF BoundsOK
  <2> QED BY <1>1, <2>1 DEF Crash
<1>11. ~MeetingStep(w)
  BY <1>3, <1>4 DEF MeetingStep, MeetingFind, MeetingWrite, NoteAdd, NoteWrite,
                    SplitRead, SplitNumber, SplitWrite
<1> QED BY <1>2, <1>5, <1>6, <1>7, <1>8, <1>9, <1>10, <1>11 DEF TaskStep

LEMMA CreateEnds ==
  ASSUME WorkersOK, BoundsOK, MeetingNext, NEW w \in Workers, Ends(w), At(w, "create")
  PROVE  SpawnCreate(w)
<1>1. PICK v \in Workers : StepOf(v)
  BY SomeonesStep
<1>2. SpawnStep(w)
  BY <1>1, SpawnEndsItself DEF StepOf, At
<1>3. \A pc : pc # "create" => ~At(w, pc)
  BY DEF At
<1> QED BY <1>2, <1>3 DEF SpawnStep, SpawnEnds, SpawnRule, SpawnFound, SpawnMissing,
                         SpawnTemplate, SpawnNumber

\* The reminder comes so many days before the deadline.
LEMMA ReminderDays ==
  ASSUME NEW due \in Int, Rule.reminderDaysBefore # None
  PROVE  reminderFor(Rule, due) \div Minutes = due - Rule.reminderDaysBefore
<1>1. /\ Rule.reminderDaysBefore \in Int
      /\ Rule.reminderMinuteOfDay \in (0..Minutes - 1) \union {None}
  BY TasksAssumption DEF RecurrenceSpecDto
<1> DEFINE minute == IF Rule.reminderMinuteOfDay = None THEN 9 * 60
                     ELSE Rule.reminderMinuteOfDay
           day == due - Rule.reminderDaysBefore
<1>2. minute \in Int /\ 0 <= minute /\ minute < 1440 /\ day \in Int
  <2>1. Minutes = 1440
    BY DEF Minutes
  <2>2. day \in Int
    BY <1>1
  <2>3. CASE Rule.reminderMinuteOfDay = None
    BY <2>2, <2>3
  <2>4. CASE Rule.reminderMinuteOfDay # None
    <3>1. Rule.reminderMinuteOfDay \in 0..Minutes - 1
      BY <1>1, <2>4
    <3>2. Minutes - 1 = 1439
      BY <2>1
    <3> QED BY <2>2, <2>4, <3>1, <3>2
  <2> QED BY <2>3, <2>4
<1>3. reminderFor(Rule, due) = day * 1440 + minute
  <2>1. ~(minute < 0 /\ minute % 60 # 0)
    BY <1>2
  <2>2. reminderFor(Rule, due) =
          day * Minutes + minute - (IF minute < 0 /\ minute % 60 # 0 THEN 60 ELSE 0)
    BY DEF reminderFor
  <2> HIDE DEF minute, day
  <2> QED BY <1>2, <2>1, <2>2 DEF Minutes
<1> HIDE DEF minute, day
<1>4. (day * 1440 + minute) \div 1440 = day
  BY <1>2
<1> QED BY <1>3, <1>4 DEF day, Minutes

\* Every occurrence the server creates is due on the date that the rule promises,
\* for every rule createTask accepts.
THEOREM OccurrencesOnSchedule == MeetingSpec => OnSchedule
<1> DEFINE Right(w) ==
      LET new == tasks'[Len(tasks')]
          days == Rule.reminderDaysBefore
      IN  /\ Fits(Rule, worker[w].anchor, new.due)
          /\ ~Over(Rule, new.due)
          /\ days = None \/ new.reminder \div Minutes = new.due - days
<1>1. ASSUME TypeInv, MeetingNext, NEW w \in Workers, Ends(w), At(w, "create")
      PROVE  Right(w)
  <2> DEFINE r == worker[w]
  <2>1. r \in Request /\ Consistent(r) /\ RowsOK /\ WorkersOK /\ tasks \in Seq(Task)
    BY <1>1, RequestOf DEF TypeInv, TaskTypeInv, RowsOK
  <2>2. SpawnCreate(w)
    BY <1>1, CreateEnds DEF TypeInv, TaskTypeInv
  <2>3. PICK next \in Task :
          /\ tasks' = Append(tasks, next)
          /\ next.due = r.due /\ next.reminder = reminderFor(Rule, r.due)
    BY <2>1, <2>2, Created
  <2>4. r.due = nextAfter(Rule, r.anchor) /\ r.due # 0 /\ r.anchor \in Int
    BY <1>1, <2>1, NextDueOK DEF Consistent, At, Request
  <2>5. /\ r.due \in Int
        /\ Fits(Rule, r.anchor, r.due)
        /\ ~Over(Rule, r.due)
    BY <2>4, NextFits, RuleSpec
  <2>6. tasks'[Len(tasks')] = next
    BY <2>1, <2>3
  <2> QED BY <2>3, <2>5, <2>6, ReminderDays
<1>2. TypeInv /\ [MeetingNext]_allVars =>
        [\A w \in Workers : Ends(w) /\ At(w, "create") => Right(w)]_vars
  <2> HIDE DEF Right
  <2> QED BY <1>1 DEF allVars
<1> QED BY <1>2, TypeInvariant, PTL DEF MeetingSpec, OnSchedule
=============================================================================
