----------------------------- MODULE NumberProofs -----------------------------
(***************************************************************************)
(* The numbers of the rows of an account: whichever requests overlap, each *)
(* write stays inside the block of numbers its request has taken, so that  *)
(* no two rows carry one number.                                           *)
(***************************************************************************)
EXTENDS TaskProofs

-----------------------------------------------------------------------------
(* Blocks                                                                  *)

LEMMA HeldNat ==
  ASSUME NEW r \in Request
  PROVE  Held(r) \in Nat /\ r.base \in Nat
<1>1. /\ Len(r.kids) \in Nat /\ Len(r.links) \in Nat /\ r.when \in Nat
      /\ r.base \in Nat
  BY DEF Request
<1>2. \A a, b \in Nat : 1 + a \in Nat /\ 1 + a + b \in Nat /\ a + b \in Nat
  OBVIOUS
<1> QED BY <1>1, <1>2 DEF Held

LEMMA TakenNone ==
  ASSUME NEW base \in Nat
  PROVE  Taken(base, 0) = {}
BY DEF Taken

\* A request that holds no numbers: what its statement reads or writes, it gives
\* every number it had to rows or lets it go.
LEMMA BlocksShrink ==
  ASSUME WorkersOK, NEW w \in Workers, NEW q \in Request, Become(w, q), Held(q) = 0
  PROVE  /\ Block(w)' = {}
         /\ \A v \in Workers : v # w => Block(v)' = Block(v)
<1>1. worker'[w] = q /\ \A v \in Workers : v # w => worker'[v] = worker[v]
  BY DEF WorkersOK, Become
<1>2. Taken(q.base, 0) = {}
  BY HeldNat, TakenNone
<1> QED BY <1>1, <1>2 DEF Block, Held

-----------------------------------------------------------------------------
(* What a step does to the numbers                                         *)

\* Rows are given numbers of the writer's block, each its own.
LEMMA Given ==
  ASSUME NumbersInv, WorkersOK, NEW w \in Workers, NEW q \in Request,
         Become(w, q), Held(q) = 0, lastSeq' = lastSeq,
         NEW New, AllNumbers' \subseteq AllNumbers \union New,
         \A x \in New : x[3] \in Block(w),
         \A x, y \in New : x[3] = y[3] => x = y
  PROVE  NumbersInv'
<1>1. /\ Block(w)' = {}
      /\ \A v \in Workers : v # w => Block(v)' = Block(v)
  BY BlocksShrink
<1>2. \A v \in Workers : Block(v)' \subseteq Block(v)
  BY <1>1
<1>3. \A v \in Workers : Block(v)' \subseteq 1..lastSeq'
  BY <1>2 DEF NumbersInv
<1>4. \A u, v \in Workers : u # v => Block(u)' \intersect Block(v)' = {}
  BY <1>2 DEF NumbersInv
<1>5. \A x \in AllNumbers' :
        x[3] \in 1..lastSeq' /\ \A v \in Workers : x[3] \notin Block(v)'
  <2> SUFFICES ASSUME NEW x \in AllNumbers'
               PROVE  x[3] \in 1..lastSeq /\ \A v \in Workers : x[3] \notin Block(v)'
    OBVIOUS
  <2>1. CASE x \in AllNumbers
    BY <1>2, <2>1 DEF NumbersInv
  <2>2. CASE x \in New
    <3>1. x[3] \in 1..lastSeq
      BY <2>2 DEF NumbersInv
    <3>2. \A v \in Workers : v # w => x[3] \notin Block(v)
      BY <2>2 DEF NumbersInv
    <3> QED BY <1>1, <3>1, <3>2
  <2> QED BY <2>1, <2>2
<1>6. \A x, y \in AllNumbers' : x[3] = y[3] => x = y
  <2>1. \A x \in AllNumbers : x[3] \notin Block(w)
    BY DEF NumbersInv
  <2>2. \A x, y \in AllNumbers : x[3] = y[3] => x = y
    BY DEF NumbersInv
  <2> QED BY <2>1, <2>2
<1> QED BY <1>3, <1>4, <1>5, <1>6 DEF NumbersInv

\* A statement that gives no number to a row.
LEMMA Quiet ==
  ASSUME NumbersInv, WorkersOK, NEW w \in Workers, NEW q \in Request,
         Become(w, q), Held(q) = 0, lastSeq' = lastSeq, AllNumbers' = AllNumbers
  PROVE  NumbersInv'
<1> DEFINE New == {}
<1>1. AllNumbers' \subseteq AllNumbers \union New
  OBVIOUS
<1>2. /\ \A x \in New : x[3] \in Block(w)
      /\ \A x, y \in New : x[3] = y[3] => x = y
  OBVIOUS
<1> HIDE DEF New
<1> QED BY <1>1, <1>2, Given

\* seq.allocate takes the numbers after the last.
LEMMA Allocated ==
  ASSUME NumbersInv, WorkersOK, lastSeq \in Nat, NEW w \in Workers, NEW n \in Nat,
         NEW pc \in Statements, Number(w, n, pc),
         Held([worker[w] EXCEPT !.pc = pc, !.base = lastSeq]) = n,
         AllNumbers' = AllNumbers
  PROVE  NumbersInv'
<1> DEFINE q == [worker[w] EXCEPT !.pc = pc, !.base = lastSeq]
<1>1. worker[w] \in Request
  BY RequestOf
<1>2. q.base = lastSeq
  BY <1>1 DEF Request
<1>3. lastSeq' = lastSeq + n /\ Become(w, q)
  BY DEF Number
<1>4. Held(q) = n
  OBVIOUS
<1> HIDE DEF q
<1>5. worker'[w] = q /\ \A v \in Workers : v # w => worker'[v] = worker[v]
  BY <1>3 DEF WorkersOK, Become
<1>6. /\ Block(w)' = Taken(lastSeq, n)
      /\ \A v \in Workers : v # w => Block(v)' = Block(v)
  BY <1>2, <1>4, <1>5 DEF Block, Held
<1>7. /\ \A b \in Taken(lastSeq, n) : b \in 1..lastSeq' /\ b > lastSeq
      /\ \A b \in 1..lastSeq : b \in 1..lastSeq' /\ ~(b > lastSeq)
      /\ lastSeq <= lastSeq'
  BY <1>3 DEF Taken
<1>8. \A v \in Workers : Block(v)' \subseteq 1..lastSeq'
  BY <1>6, <1>7 DEF NumbersInv
<1>9. \A u, v \in Workers : u # v => Block(u)' \intersect Block(v)' = {}
  BY <1>6, <1>7 DEF NumbersInv
<1>10. \A x \in AllNumbers' :
         x[3] \in 1..lastSeq' /\ \A v \in Workers : x[3] \notin Block(v)'
  <2> SUFFICES ASSUME NEW x \in AllNumbers
               PROVE  x[3] \in 1..lastSeq' /\ \A v \in Workers : x[3] \notin Block(v)'
    OBVIOUS
  <2>1. x[3] \in 1..lastSeq /\ \A v \in Workers : x[3] \notin Block(v)
    BY DEF NumbersInv
  <2> QED BY <1>6, <1>7, <2>1
<1>11. \A x, y \in AllNumbers' : x[3] = y[3] => x = y
  BY DEF NumbersInv
<1> QED BY <1>8, <1>9, <1>10, <1>11 DEF NumbersInv

\* A pushed row takes the next number.
LEMMA Pushed ==
  ASSUME NumbersInv, lastSeq \in Nat, UNCHANGED worker, lastSeq' = lastSeq + 1,
         NEW n, AllNumbers' \subseteq AllNumbers \union {n}, n[3] = lastSeq + 1
  PROVE  NumbersInv'
<1>1. \A v \in Workers : Block(v)' = Block(v)
  BY DEF Block, Held
<1>2. /\ \A b \in 1..lastSeq : b \in 1..lastSeq' /\ b # lastSeq + 1
      /\ lastSeq + 1 \in 1..lastSeq'
  OBVIOUS
<1>3. \A v \in Workers : Block(v)' \subseteq 1..lastSeq' /\ lastSeq + 1 \notin Block(v)'
  BY <1>1, <1>2 DEF NumbersInv
<1>4. \A u, v \in Workers : u # v => Block(u)' \intersect Block(v)' = {}
  BY <1>1 DEF NumbersInv
<1>5. \A x \in AllNumbers :
        x[3] \in 1..lastSeq /\ \A v \in Workers : x[3] \notin Block(v)
  BY DEF NumbersInv
<1>6. \A x \in AllNumbers' :
        x[3] \in 1..lastSeq' /\ \A v \in Workers : x[3] \notin Block(v)'
  BY <1>1, <1>2, <1>3, <1>5
<1>7. \A x, y \in AllNumbers : x[3] = y[3] => x = y
  BY DEF NumbersInv
<1>8. \A x, y \in AllNumbers' : x[3] = y[3] => x = y
  BY <1>2, <1>5, <1>7
<1> QED BY <1>3, <1>4, <1>6, <1>8 DEF NumbersInv

-----------------------------------------------------------------------------
(* The numbers of a table                                                  *)

LEMMA NumbersWritten ==
  ASSUME NEW rows, NEW id, NEW row, NEW n, NEW kind,
         id \in DOMAIN rows => row.seq = n
  PROVE  NumbersOf(kind, [rows EXCEPT ![id] = row])
           \subseteq NumbersOf(kind, rows) \union {<<kind, id, n>>}
BY DEF NumbersOf

LEMMA NumbersAppended ==
  ASSUME NEW T, NEW rows \in Seq(T), NEW row \in T, NEW kind
  PROVE  NumbersOf(kind, Append(rows, row))
           \subseteq NumbersOf(kind, rows) \union {<<kind, Len(rows) + 1, row.seq>>}
<1>1. /\ DOMAIN Append(rows, row) = 1..(Len(rows) + 1) /\ DOMAIN rows = 1..Len(rows)
      /\ Append(rows, row)[Len(rows) + 1] = row
      /\ \A i \in DOMAIN rows : Append(rows, row)[i] = rows[i]
      /\ Len(rows) \in Nat
  OBVIOUS
<1>2. \A i \in 1..(Len(rows) + 1) : i \in 1..Len(rows) \/ i = Len(rows) + 1
  BY <1>1
<1> QED BY <1>1, <1>2 DEF NumbersOf

LEMMA NumbersJoined ==
  ASSUME NEW T, NEW rows \in Seq(T), NEW more \in Seq(T), NEW kind
  PROVE  NumbersOf(kind, rows \o more)
           \subseteq NumbersOf(kind, rows) \union
                      {<<kind, Len(rows) + k, more[k].seq>> : k \in DOMAIN more}
<1> DEFINE all == rows \o more
<1>1. /\ Len(rows) \in Nat /\ Len(more) \in Nat
      /\ DOMAIN rows = 1..Len(rows) /\ DOMAIN more = 1..Len(more)
      /\ all \in Seq(T) /\ Len(all) = Len(rows) + Len(more)
      /\ \A i \in 1..(Len(rows) + Len(more)) :
           all[i] = IF i <= Len(rows) THEN rows[i] ELSE more[i - Len(rows)]
  BY ConcatProperties
<1> HIDE DEF all
<1>2. DOMAIN all = 1..(Len(rows) + Len(more))
  BY <1>1
<1>3. ASSUME NEW i \in DOMAIN all
      PROVE  \/ i \in DOMAIN rows /\ all[i] = rows[i]
             \/ \E k \in DOMAIN more : i = Len(rows) + k /\ all[i] = more[k]
  <2>1. CASE i <= Len(rows)
    BY <1>1, <1>2, <2>1
  <2>2. CASE ~(i <= Len(rows))
    <3>1. i - Len(rows) \in DOMAIN more /\ i = Len(rows) + (i - Len(rows))
      BY <1>1, <1>2, <2>2
    <3> QED BY <1>1, <1>2, <2>2, <3>1
  <2> QED BY <2>1, <2>2
<1> QED BY <1>3 DEF NumbersOf, all

LEMMA Listed ==
  ASSUME NEW T, NEW n \in Nat, NEW s, s = [k \in 1..n |-> s[k]],
         \A k \in 1..n : s[k] \in T
  PROVE  s \in Seq(T)
OBVIOUS

LEMMA NumbersMapped ==
  ASSUME NEW rows, NEW new, DOMAIN new = DOMAIN rows, NEW S, NEW kind,
         \A i \in DOMAIN rows : i \in S \/ new[i] = rows[i]
  PROVE  NumbersOf(kind, new)
           \subseteq NumbersOf(kind, rows) \union
                      {<<kind, i, new[i].seq>> : i \in S \intersect DOMAIN rows}
BY DEF NumbersOf

-----------------------------------------------------------------------------
(* The steps                                                               *)

Holding == {"write", "transaction", "create", "delete", "split"}

LEMMA HoldsNone ==
  ASSUME NEW r, r.pc \notin Holding
  PROVE  Held(r) = 0
BY DEF Held, Holding

SameNumbers == UNCHANGED <<tasks, items, activities, meeting, notes>>

LEMMA SameAll == SameNumbers => AllNumbers' = AllNumbers
BY DEF SameNumbers, AllNumbers, Numbers, NoteNumbers, NumbersOf

LEMMA ItsRequest ==
  ASSUME WorkersOK, NEW w \in Workers, NEW q, Become(w, q)
  PROVE  worker'[w] = q
BY DEF WorkersOK, Become

LEMMA ItsFields ==
  ASSUME WorkersOK, NEW w \in Workers
  PROVE  /\ worker[w] \in Request /\ Consistent(worker[w])
         /\ worker[w].id \in Nat /\ worker[w].when \in Nat
         /\ worker[w].base \in Nat /\ worker[w].base + 1 \in Nat
         /\ worker[w].kids \in Seq(Nat) /\ Len(worker[w].kids) \in Nat
         /\ worker[w].links \in Seq(Nat) /\ Len(worker[w].links) \in Nat
<1>1. worker[w] \in Request /\ Consistent(worker[w])
  BY RequestOf
<1>2. /\ worker[w].id \in Nat /\ worker[w].when \in Nat /\ worker[w].base \in Nat
      /\ worker[w].kids \in Seq(Nat) /\ worker[w].links \in Seq(Nat)
  BY <1>1 DEF Request
<1>3. \A s \in Seq(Nat) : Len(s) \in Nat
  OBVIOUS
<1>4. worker[w].base + 1 \in Nat
  BY <1>2
<1> QED BY <1>1, <1>2, <1>3, <1>4

LEMMA LastSeqNat ==
  ASSUME RowsOK
  PROVE  lastSeq \in Nat
BY DEF RowsOK

LEMMA ItsEnd ==
  ASSUME WorkersOK, NEW w \in Workers, Finish(w)
  PROVE  worker'[w].pc \notin Holding
BY ItsRequest DEF Finish, Idle, Holding

LEMMA StepBecomes ==
  ASSUME WorkersOK, WorkersOK', NEW w \in Workers, StepOf(w)
  PROVE  Become(w, worker'[w]) /\ worker'[w] \in Request
<1>1. \A v \in Workers : v # w => worker'[v] = worker[v]
  BY OthersStand
<1> QED BY <1>1 DEF WorkersOK, Become

\* A statement that reads, or ends a request without writing.
LEMMA QuietStep ==
  ASSUME WorkersOK, WorkersOK', NumbersInv, NEW w \in Workers, StepOf(w),
         worker'[w].pc \notin Holding, SameNumbers, lastSeq' = lastSeq
  PROVE  NumbersInv'
<1> DEFINE q == worker'[w]
<1>1. Become(w, q) /\ q \in Request /\ Held(q) = 0
  BY StepBecomes, HoldsNone
<1> HIDE DEF q
<1> QED BY <1>1, SameAll, Quiet

\* A statement that gives the numbers of New to rows.
LEMMA GivingStep ==
  ASSUME WorkersOK, WorkersOK', NumbersInv, NEW w \in Workers, StepOf(w),
         worker'[w].pc \notin Holding, lastSeq' = lastSeq,
         NEW New, AllNumbers' \subseteq AllNumbers \union New,
         \A x \in New : x[3] \in Block(w),
         \A x, y \in New : x[3] = y[3] => x = y
  PROVE  NumbersInv'
<1> DEFINE q == worker'[w]
<1>1. Become(w, q) /\ q \in Request /\ Held(q) = 0
  BY StepBecomes, HoldsNone
<1> HIDE DEF q
<1> QED BY <1>1, Given

\* A statement that takes numbers.
LEMMA TakingStep ==
  ASSUME WorkersOK, NumbersInv, lastSeq \in Nat, NEW w \in Workers,
         NEW n \in Nat, NEW pc \in Statements, Number(w, n, pc),
         UNCHANGED <<meeting, notes>>,
         Held([worker[w] EXCEPT !.pc = pc, !.base = lastSeq]) = n
  PROVE  NumbersInv'
<1>1. SameNumbers
  BY DEF Number, SameNumbers
<1> QED BY <1>1, SameAll, Allocated

LEMMA SpawnNumbers ==
  ASSUME RowsOK, WorkersOK, WorkersOK', NumbersInv, NEW w \in Workers, StepOf(w),
         SpawnStep(w), UNCHANGED <<meeting, notes>>
  PROVE  NumbersInv'
<1> DEFINE r == worker[w]
<1>1. /\ r \in Request /\ r.base \in Nat /\ r.kids \in Seq(Nat) /\ Len(r.kids) \in Nat
      /\ lastSeq \in Nat
  BY ItsFields, LastSeqNat
<1>2. CASE SpawnEnds(w) \/ SpawnFound(w)
  BY <1>2, ItsEnd, QuietStep DEF SpawnEnds, SpawnFound, store, SameNumbers
<1>3. CASE SpawnRule(w)
  <2>1. worker'[w].pc = "existing"
    BY <1>1, <1>3, ItsRequest DEF SpawnRule, Request
  <2> QED BY <1>3, <2>1, QuietStep DEF SpawnRule, store, SameNumbers, Holding
<1>4. CASE SpawnMissing(w)
  <2>1. worker'[w].pc = "template"
    BY <1>1, <1>4, ItsRequest DEF SpawnMissing, Request
  <2> QED BY <1>4, <2>1, QuietStep DEF SpawnMissing, store, SameNumbers, Holding
<1>5. CASE SpawnTemplate(w)
  <2>1. worker'[w].pc = "number"
    BY <1>1, <1>5, ItsRequest DEF SpawnTemplate, Request
  <2> QED BY <1>5, <2>1, QuietStep DEF SpawnTemplate, store, SameNumbers, Holding
<1>6. CASE SpawnNumber(w)
  <2>1. Held([r EXCEPT !.pc = "create", !.base = lastSeq]) = 1 + Len(r.kids)
    BY <1>1 DEF Held, Request
  <2>2. 1 + Len(r.kids) \in Nat /\ "create" \in Statements
    BY <1>1 DEF Statements
  <2> QED BY <1>1, <1>6, <2>1, <2>2, TakingStep DEF SpawnNumber
<1>7. CASE SpawnCreate(w)
  <2> DEFINE n == Len(r.kids)
             New == {<<"task", Len(tasks) + 1, r.base + 1>>} \union
                    {<<"item", Len(items) + k, r.base + 1 + k>> : k \in 1..n}
  <2>1. PICK next \in Task, copies \in Seq(Item) :
          /\ tasks' = Append(tasks, next) /\ items' = items \o copies
          /\ next.seq = r.base + 1 /\ Len(copies) = n
          /\ \A k \in 1..n : copies[k].seq = r.base + 1 + k
    BY <1>7, Created
  <2>2. /\ Finish(w) /\ UNCHANGED <<activities, rule, lastSeq>> /\ r.pc = "create"
    BY <1>7 DEF SpawnCreate, At
  <2>3. AllNumbers' \subseteq AllNumbers \union New
    <3>1. NumbersOf("task", tasks')
            \subseteq NumbersOf("task", tasks) \union {<<"task", Len(tasks) + 1, r.base + 1>>}
      BY <2>1, NumbersAppended DEF RowsOK
    <3>2. NumbersOf("item", items')
            \subseteq NumbersOf("item", items) \union
              {<<"item", Len(items) + k, r.base + 1 + k>> : k \in 1..n}
      <4>1. DOMAIN copies = 1..n
        BY <2>1
      <4>2. NumbersOf("item", items')
              \subseteq NumbersOf("item", items) \union
                {<<"item", Len(items) + k, copies[k].seq>> : k \in DOMAIN copies}
        BY <2>1, NumbersJoined DEF RowsOK
      <4> HIDE DEF n
      <4>3. \A k \in 1..n : copies[k].seq = r.base + 1 + k
        BY <2>1
      <4> QED BY <4>1, <4>2, <4>3
    <3> HIDE DEF n
    <3> QED BY <1>7, <2>2, <3>1, <3>2 DEF AllNumbers, Numbers, NoteNumbers
  <2>4. Block(w) = Taken(r.base, 1 + n)
    BY <2>2 DEF Block, Held
  <2> HIDE DEF n
  <2>5. \A x \in New : x[3] \in Taken(r.base, 1 + n)
    <3>1. n \in Nat
      BY <1>1 DEF n
    <3>2. \A k \in 1..n : r.base + 1 + k \in Taken(r.base, 1 + n)
      BY <1>1, <3>1 DEF Taken
    <3>3. r.base + 1 \in Taken(r.base, 1 + n)
      BY <1>1, <3>1 DEF Taken
    <3> QED BY <3>2, <3>3
  <2>6. \A x, y \in New : x[3] = y[3] => x = y
    <3>1. \A k, m \in 1..n : r.base + 1 + k # r.base + 1 /\
                             (r.base + 1 + k = r.base + 1 + m => k = m)
      BY <1>1
    <3> QED BY <3>1
  <2> HIDE DEF New
  <2>7. worker'[w].pc \notin Holding /\ lastSeq' = lastSeq
    BY <2>2, ItsEnd
  <2>8. \A x \in New : x[3] \in Block(w)
    BY <2>4, <2>5
  <2> QED BY <2>3, <2>6, <2>7, <2>8, GivingStep
<1> QED BY <1>2, <1>3, <1>4, <1>5, <1>6, <1>7 DEF SpawnStep

\* One row is given the first number of the block.
LEMMA OneGiven ==
  ASSUME WorkersOK, WorkersOK', NumbersInv, NEW w \in Workers, StepOf(w),
         worker[w].pc = "write", Finish(w), lastSeq' = lastSeq,
         NEW kind, NEW id,
         AllNumbers' \subseteq AllNumbers \union {<<kind, id, worker[w].base + 1>>}
  PROVE  NumbersInv'
<1> DEFINE New == {<<kind, id, worker[w].base + 1>>}
<1>1. worker[w].base \in Nat
  BY RequestOf, HeldNat
<1>2. Block(w) = Taken(worker[w].base, 1)
  BY DEF Block, Held
<1>3. \A x \in New : x[3] \in Block(w)
  BY <1>1, <1>2 DEF Taken
<1>4. \A x, y \in New : x[3] = y[3] => x = y
  OBVIOUS
<1>5. AllNumbers' \subseteq AllNumbers \union New
  OBVIOUS
<1>6. worker'[w].pc \notin Holding
  BY ItsEnd
<1> HIDE DEF New
<1> QED BY <1>3, <1>4, <1>5, <1>6, GivingStep

LEMMA CompleteNumbers ==
  ASSUME RowsOK, WorkersOK, WorkersOK', NumbersInv, NEW w \in Workers, StepOf(w),
         Complete(w), UNCHANGED <<meeting, notes>>
  PROVE  NumbersInv'
<1> DEFINE r == worker[w]
<1>1. r \in Request /\ r.base \in Nat /\ r.id \in Nat /\ lastSeq \in Nat
  BY ItsFields, LastSeqNat
<1>2. CASE CompleteFind(w)
  <2>1. UNCHANGED store
    BY <1>2 DEF CompleteFind
  <2>2. worker'[w].pc \notin Holding
    <3>1. PICK i \in DOMAIN tasks, when \in Instants :
            IF AlreadyDone(i) THEN Finish(w)
            ELSE Become(w, [Idle EXCEPT !.op = "complete", !.pc = "allocate",
                              !.id = i, !.when = when, !.anchor = Anchor(i, when),
                              !.at = TimeOfDay(i, when)])
      BY <1>2 DEF CompleteFind
    <3>2. CASE AlreadyDone(i)
      BY <3>1, <3>2, ItsEnd
    <3>3. CASE ~AlreadyDone(i)
      <4> DEFINE q == [Idle EXCEPT !.op = "complete", !.pc = "allocate",
                         !.id = i, !.when = when, !.anchor = Anchor(i, when),
                         !.at = TimeOfDay(i, when)]
      <4>1. worker'[w].pc = "allocate"
        <5>1. q.pc = "allocate"
          BY DEF Idle
        <5>2. Become(w, q)
          BY <3>1, <3>3
        <5> HIDE DEF q
        <5> QED BY <5>1, <5>2, ItsRequest
      <4> QED BY <4>1 DEF Holding
    <3> QED BY <3>2, <3>3
  <2> QED BY <2>1, <2>2, QuietStep DEF store, SameNumbers
<1>3. CASE CompleteNumber(w)
  <2>1. Held([r EXCEPT !.pc = "transaction", !.base = lastSeq]) = 2
    BY <1>1 DEF Held, Request
  <2>2. 2 \in Nat /\ "transaction" \in Statements /\ Number(w, 2, "transaction")
    BY <1>3 DEF Statements, CompleteNumber
  <2> QED BY <1>1, <2>1, <2>2, TakingStep
<1>4. CASE CompleteWrite(w)
  <2> DEFINE done == [tasks[r.id] EXCEPT !.status = "done",
                        !.completedAt = r.when, !.seq = r.base + 1]
             entry == [task |-> r.id, of |-> r.id, seq |-> r.base + 2]
             New == {<<"task", r.id, r.base + 1>>,
                     <<"activity", Len(activities) + 1, r.base + 2>>}
  <2>1. /\ tasks' = [tasks EXCEPT ![r.id] = done]
        /\ activities' = Append(activities, entry)
        /\ Become(w, [r EXCEPT !.pc = "rule"]) /\ r.pc = "transaction"
        /\ UNCHANGED <<items, lastSeq>>
    BY <1>4 DEF CompleteWrite, At
  <2>2. worker'[w].pc = "rule"
    BY <1>1, <2>1, ItsRequest DEF Request
  <2>3. entry \in Activity /\ entry.seq = r.base + 2
    BY <1>1 DEF Activity
  <2>4. NumbersOf("activity", activities')
          \subseteq NumbersOf("activity", activities) \union
                    {<<"activity", Len(activities) + 1, r.base + 2>>}
    <3> HIDE DEF entry
    <3> QED BY <2>1, <2>3, NumbersAppended DEF RowsOK
  <2>5. NumbersOf("task", tasks')
          \subseteq NumbersOf("task", tasks) \union {<<"task", r.id, r.base + 1>>}
    <3>1. r.id \in DOMAIN tasks => tasks[r.id] \in Task
      BY DEF RowsOK
    <3>2. r.id \in DOMAIN tasks => done.seq = r.base + 1
      BY <3>1 DEF Task
    <3> HIDE DEF done
    <3> QED BY <2>1, <3>2, NumbersWritten
  <2>6. AllNumbers' \subseteq AllNumbers \union New
    BY <2>1, <2>4, <2>5 DEF AllNumbers, Numbers, NoteNumbers
  <2>7. Block(w) = Taken(r.base, 2)
    BY <2>1 DEF Block, Held
  <2>8. \A x \in New : x[3] \in Block(w)
    BY <1>1, <2>7 DEF Taken
  <2>9. \A x, y \in New : x[3] = y[3] => x = y
    BY <1>1
  <2> HIDE DEF New
  <2> QED BY <2>1, <2>2, <2>6, <2>8, <2>9, GivingStep DEF Holding
<1> QED BY <1>2, <1>3, <1>4 DEF Complete

LEMMA EditNumbers ==
  ASSUME RowsOK, WorkersOK, WorkersOK', NumbersInv, NEW w \in Workers, StepOf(w),
         Edit(w), UNCHANGED <<meeting, notes>>
  PROVE  NumbersInv'
<1> DEFINE r == worker[w]
<1>1. r \in Request /\ r.base \in Nat /\ lastSeq \in Nat
  BY ItsFields, LastSeqNat
<1>2. ASSUME NEW op, EditFind(w, op) PROVE NumbersInv'
  <2>1. UNCHANGED store
    BY <1>2 DEF EditFind
  <2>2. worker'[w].pc = "seq"
    <3>1. PICK i \in DOMAIN tasks, due \in IF op = "move" THEN Deadlines ELSE {0} :
            Become(w, [Idle EXCEPT !.op = op, !.pc = "seq", !.id = i, !.due = due,
                         !.when = IF op = "carry" THEN tasks[i].carried ELSE 0])
      BY <1>2 DEF EditFind
    <3> DEFINE q == [Idle EXCEPT !.op = op, !.pc = "seq", !.id = i, !.due = due,
                       !.when = IF op = "carry" THEN tasks[i].carried ELSE 0]
    <3>2. q.pc = "seq"
      BY DEF Idle
    <3>3. worker'[w] = q
      BY <3>1, ItsRequest
    <3> QED BY <3>2, <3>3
  <2> QED BY <2>1, <2>2, QuietStep DEF store, SameNumbers, Holding
<1>3. ASSUME NEW op, ItemFind(w, op) PROVE NumbersInv'
  <2>1. UNCHANGED store
    BY <1>3 DEF ItemFind
  <2>2. worker'[w].pc = "seq"
    <3>1. PICK k \in DOMAIN IF op = "add" THEN tasks ELSE items :
            Become(w, [Idle EXCEPT !.op = op, !.pc = "seq", !.id = k])
      BY <1>3 DEF ItemFind
    <3> DEFINE q == [Idle EXCEPT !.op = op, !.pc = "seq", !.id = k]
    <3>2. q.pc = "seq" /\ Become(w, q)
      BY <3>1 DEF Idle
    <3> HIDE DEF q
    <3> QED BY <3>2, ItsRequest
  <2> QED BY <2>1, <2>2, QuietStep DEF store, SameNumbers, Holding
<1>4. ASSUME Number(w, 1, "write") PROVE NumbersInv'
  <2>1. Held([r EXCEPT !.pc = "write", !.base = lastSeq]) = 1
    BY <1>1 DEF Held, Request
  <2>2. 1 \in Nat /\ "write" \in Statements
    BY DEF Statements
  <2> QED BY <1>1, <1>4, <2>1, <2>2, TakingStep
<1>5. CASE EditWrite(w)
  <2> DEFINE row == Edited(tasks[r.id], r)
  <2>1. /\ r.op \in EditOps /\ r.pc = "write" /\ Finish(w)
        /\ tasks' = [tasks EXCEPT ![r.id] = row]
        /\ UNCHANGED <<items, activities, lastSeq>>
    BY <1>5 DEF EditWrite, At
  <2>2. r.id \in DOMAIN tasks => row.seq = r.base + 1
    <3>1. r.id \in DOMAIN tasks => tasks[r.id] \in Task
      BY DEF RowsOK
    <3>2. ASSUME NEW t \in Task PROVE Edited(t, r).seq = r.base + 1
      BY <2>1 DEF Edited, EditOps, Task
    <3> QED BY <3>1, <3>2
  <2> HIDE DEF row
  <2>3. NumbersOf("task", tasks')
          \subseteq NumbersOf("task", tasks) \union {<<"task", r.id, r.base + 1>>}
    BY <2>1, <2>2, NumbersWritten
  <2>4. AllNumbers' \subseteq AllNumbers \union {<<"task", r.id, r.base + 1>>}
    BY <2>1, <2>3 DEF AllNumbers, Numbers, NoteNumbers
  <2> QED BY <2>1, <2>4, OneGiven
<1>6. CASE ItemWrite(w)
  <2>1. /\ r.pc = "write" /\ Finish(w)
        /\ UNCHANGED <<tasks, activities, lastSeq>>
    BY <1>6 DEF ItemWrite, At
  <2>2. \E id : NumbersOf("item", items')
                 \subseteq NumbersOf("item", items) \union {<<"item", id, r.base + 1>>}
    <3>1. PICK done \in BOOLEAN :
          items' = IF r.op = "add"
                   THEN Append(items, [task |-> r.id, done |-> done, deleted |-> FALSE,
                                       copy |-> 0, seq |-> r.base + 1])
                   ELSE [items EXCEPT ![r.id].seq = r.base + 1,
                           ![r.id].done = IF r.op = "tick" THEN done ELSE @,
                           ![r.id].deleted = @ \/ r.op = "discard"]
      BY <1>6 DEF ItemWrite
    <3>2. CASE r.op = "add"
      <4> DEFINE item == [task |-> r.id, done |-> done, deleted |-> FALSE,
                          copy |-> 0, seq |-> r.base + 1]
      <4>1. items' = Append(items, item)
        BY <3>1, <3>2
      <4>2. item \in Item /\ item.seq = r.base + 1
        BY <1>1 DEF Item, Request
      <4> HIDE DEF item
      <4>3. items \in Seq(Item)
        BY DEF RowsOK
      <4>4. NumbersOf("item", items') \subseteq
              NumbersOf("item", items) \union {<<"item", Len(items) + 1, r.base + 1>>}
        BY <4>1, <4>2, <4>3, NumbersAppended
      <4> QED BY <4>4
    <3>3. CASE r.op # "add"
      <4> DEFINE item == [items[r.id] EXCEPT !.seq = r.base + 1,
                            !.done = IF r.op = "tick" THEN done ELSE @,
                            !.deleted = @ \/ r.op = "discard"]
      <4>1. items' = [items EXCEPT ![r.id].seq = r.base + 1,
                          ![r.id].done = IF r.op = "tick" THEN done ELSE @,
                          ![r.id].deleted = @ \/ r.op = "discard"]
        BY <3>1, <3>3
      <4>2. items' = [items EXCEPT ![r.id] = item]
        BY <4>1
      <4>3. r.id \in DOMAIN items => item.seq = r.base + 1
        <5>1. r.id \in DOMAIN items => items[r.id] \in Item
          BY DEF RowsOK
        <5> QED BY <5>1 DEF Item
      <4> HIDE DEF item
      <4> QED BY <4>2, <4>3, NumbersWritten
    <3> QED BY <3>2, <3>3
  <2>3. PICK id : NumbersOf("item", items')
                 \subseteq NumbersOf("item", items) \union {<<"item", id, r.base + 1>>}
    BY <2>2
  <2>4. AllNumbers' \subseteq AllNumbers \union {<<"item", id, r.base + 1>>}
    BY <2>1, <2>3 DEF AllNumbers, Numbers, NoteNumbers
  <2> QED BY <2>1, <2>4, OneGiven
<1> QED BY <1>2, <1>3, <1>4, <1>5, <1>6 DEF Edit

LEMMA PlaceOne ==
  ASSUME NEW s \in Seq(Nat), NEW x, NEW y, Contains(s, x), Contains(s, y),
         Place(s, x) = Place(s, y)
  PROVE  x = y
BY PlaceOK

LEMMA RemoveNumbers ==
  ASSUME RowsOK, WorkersOK, WorkersOK', NumbersInv, NEW w \in Workers, StepOf(w),
         RemoveTask(w), UNCHANGED <<meeting, notes>>
  PROVE  NumbersInv'
<1> DEFINE r == worker[w]
<1>1. /\ r \in Request /\ r.base \in Nat /\ lastSeq \in Nat
      /\ r.kids \in Seq(Nat) /\ r.links \in Seq(Nat)
      /\ Len(r.kids) \in Nat /\ Len(r.links) \in Nat
  BY ItsFields, LastSeqNat
<1>2. CASE RemoveFind(w)
  <2>1. UNCHANGED store
    BY <1>2 DEF RemoveFind
  <2>2. worker'[w].pc = "children"
    <3>1. PICK i \in DOMAIN tasks :
            Become(w, [Idle EXCEPT !.op = "remove", !.pc = "children", !.id = i])
      BY <1>2 DEF RemoveFind
    <3> DEFINE q == [Idle EXCEPT !.op = "remove", !.pc = "children", !.id = i]
    <3>2. q.pc = "children" /\ Become(w, q)
      BY <3>1 DEF Idle
    <3> HIDE DEF q
    <3> QED BY <3>2, ItsRequest
  <2> QED BY <2>1, <2>2, QuietStep DEF store, SameNumbers, Holding
<1>3. CASE RemoveChildren(w)
  <2>1. worker'[w].pc = "links" /\ UNCHANGED store
    BY <1>1, <1>3, ItsRequest DEF RemoveChildren, Request
  <2> QED BY <2>1, QuietStep DEF store, SameNumbers, Holding
<1>4. CASE RemoveLinks(w)
  <2>1. worker'[w].pc = "reserve" /\ UNCHANGED store
    BY <1>1, <1>4, ItsRequest DEF RemoveLinks, Request
  <2> QED BY <2>1, QuietStep DEF store, SameNumbers, Holding
<1>5. CASE RemoveNumber(w)
  <2> DEFINE n == 1 + Len(r.kids) + Len(r.links)
  <2>1. n \in Nat
    <3>1. \A a, b \in Nat : 1 + a + b \in Nat
      OBVIOUS
    <3> QED BY <1>1, <3>1
  <2>2. Held([r EXCEPT !.pc = "delete", !.base = lastSeq]) = n
    BY <1>1 DEF Held, Request
  <2>3. Number(w, n, "delete") /\ "delete" \in Statements
    BY <1>5 DEF RemoveNumber, Statements
  <2> HIDE DEF n
  <2> QED BY <1>1, <2>1, <2>2, <2>3, TakingStep
<1>6. CASE RemoveWrite(w)
  <2> DEFINE n == Len(r.kids)
             m == Len(r.links)
             gone == [tasks[r.id] EXCEPT !.deleted = TRUE, !.seq = r.base + n + m + 1]
             Kids == {k \in DOMAIN items : Contains(r.kids, k)}
             Entries == {a \in DOMAIN activities : Contains(r.links, a)}
             NewItems == {<<"item", k, r.base + Place(r.kids, k)>> : k \in Kids}
             NewLinks == {<<"activity", a, r.base + n + Place(r.links, a)>> : a \in Entries}
             New == NewItems \union NewLinks \union {<<"task", r.id, r.base + n + m + 1>>}
  <2>1. /\ items' = [k \in DOMAIN items |->
              IF Contains(r.kids, k)
              THEN [items[k] EXCEPT !.deleted = TRUE, !.seq = r.base + Place(r.kids, k)]
              ELSE items[k]]
        /\ activities' = [a \in DOMAIN activities |->
              IF Contains(r.links, a)
              THEN [activities[a] EXCEPT !.task = 0,
                      !.seq = r.base + n + Place(r.links, a)]
              ELSE activities[a]]
        /\ tasks' = [tasks EXCEPT ![r.id] = gone]
        /\ Finish(w) /\ UNCHANGED <<rule, lastSeq>> /\ r.pc = "delete"
    BY <1>6 DEF RemoveWrite, At
  <2>2. NumbersOf("task", tasks') \subseteq NumbersOf("task", tasks) \union New
    <3>1. r.id \in DOMAIN tasks => gone.seq = r.base + n + m + 1
      <4>1. r.id \in DOMAIN tasks => tasks[r.id] \in Task
        BY DEF RowsOK
      <4> QED BY <4>1 DEF Task
    <3> HIDE DEF gone, n, m
    <3>2. NumbersOf("task", tasks')
            \subseteq NumbersOf("task", tasks) \union {<<"task", r.id, r.base + n + m + 1>>}
      BY <2>1, <3>1, NumbersWritten
    <3> HIDE DEF NewItems, NewLinks
    <3> QED BY <3>2
  <2>3. NumbersOf("item", items') \subseteq NumbersOf("item", items) \union NewItems
    <3>1. /\ DOMAIN items' = DOMAIN items
          /\ \A k \in DOMAIN items : k \in Kids \/ items'[k] = items[k]
      BY <2>1
    <3>2. ASSUME NEW k \in Kids PROVE items'[k].seq = r.base + Place(r.kids, k)
      <4>1. items[k] \in Item
        BY DEF RowsOK
      <4> QED BY <2>1, <4>1 DEF Item
    <3> HIDE DEF Kids
    <3>3. NumbersOf("item", items')
            \subseteq NumbersOf("item", items) \union
                      {<<"item", k, items'[k].seq>> : k \in Kids \intersect DOMAIN items}
      BY <3>1, NumbersMapped
    <3> QED BY <3>2, <3>3
  <2>4. NumbersOf("activity", activities')
          \subseteq NumbersOf("activity", activities) \union NewLinks
    <3>1. /\ DOMAIN activities' = DOMAIN activities
          /\ \A a \in DOMAIN activities : a \in Entries \/ activities'[a] = activities[a]
      BY <2>1
    <3>2. ASSUME NEW a \in Entries
          PROVE  activities'[a].seq = r.base + n + Place(r.links, a)
      <4>1. activities[a] \in Activity
        BY DEF RowsOK
      <4> QED BY <2>1, <4>1 DEF Activity
    <3> HIDE DEF Entries, n
    <3>3. NumbersOf("activity", activities')
            \subseteq NumbersOf("activity", activities) \union
                {<<"activity", a, activities'[a].seq>> : a \in Entries \intersect DOMAIN activities}
      BY <3>1, NumbersMapped
    <3> QED BY <3>2, <3>3
  <2>5. AllNumbers' \subseteq AllNumbers \union New
    <3> HIDE DEF NewItems, NewLinks
    <3>1. NewItems \subseteq New /\ NewLinks \subseteq New
      OBVIOUS
    <3> HIDE DEF New
    <3> QED BY <2>2, <2>3, <2>4, <3>1 DEF AllNumbers, Numbers, NoteNumbers
  <2>6. Block(w) = Taken(r.base, 1 + n + m)
    BY <2>1 DEF Block, Held
  <2>7. n \in Nat /\ m \in Nat /\ r.base \in Nat
    BY <1>1
  <2>8. \A k \in Kids : /\ Place(r.kids, k) \in Nat
                        /\ 1 <= Place(r.kids, k) /\ Place(r.kids, k) <= n
    <3> SUFFICES ASSUME NEW k \in Kids PROVE Place(r.kids, k) \in 1..n
      BY <2>7
    <3> QED BY <1>1, PlaceOK
  <2>9. \A a \in Entries : /\ Place(r.links, a) \in Nat
                         /\ 1 <= Place(r.links, a) /\ Place(r.links, a) <= m
    <3> SUFFICES ASSUME NEW a \in Entries PROVE Place(r.links, a) \in 1..m
      BY <2>7
    <3> QED BY <1>1, PlaceOK
  <2>10. /\ \A k, j \in Kids : Place(r.kids, k) = Place(r.kids, j) => k = j
         /\ \A a, b \in Entries : Place(r.links, a) = Place(r.links, b) => a = b
    BY <1>1, PlaceOne
  <2> DEFINE base == r.base
             P(k) == Place(r.kids, k)
             Q(a) == Place(r.links, a)
  <2> HIDE DEF n, m, Kids, Entries, P, Q, base
  <2>11. /\ \A k \in Kids : base + P(k) \in Taken(base, 1 + n + m)
                             /\ base + P(k) <= base + n
         /\ \A a \in Entries : base + n + Q(a) \in Taken(base, 1 + n + m)
                              /\ base + n < base + n + Q(a)
                              /\ base + n + Q(a) <= base + n + m
         /\ base + n + m + 1 \in Taken(base, 1 + n + m)
    BY <2>7, <2>8, <2>9 DEF Taken, P, Q, base
  <2>12. \A x \in New : x[3] \in Block(w)
    BY <2>6, <2>11 DEF P, Q, base
  <2>13. \A x, y \in New : x[3] = y[3] => x = y
    <3>1. /\ \A k, j \in Kids : base + P(k) = base + P(j) => k = j
          /\ \A a, b \in Entries : base + n + Q(a) = base + n + Q(b) => a = b
      BY <2>7, <2>8, <2>9, <2>10 DEF P, Q, base
    <3>2. /\ \A k \in Kids, a \in Entries : base + P(k) # base + n + Q(a)
          /\ \A k \in Kids : base + P(k) # base + n + m + 1
          /\ \A a \in Entries : base + n + Q(a) # base + n + m + 1
      BY <2>7, <2>8, <2>9 DEF P, Q, base
    <3>3. New = {<<"item", k, base + P(k)>> : k \in Kids} \union
                {<<"activity", a, base + n + Q(a)>> : a \in Entries} \union
                {<<"task", r.id, base + n + m + 1>>}
      BY DEF P, Q, base
    <3> HIDE DEF New, NewItems, NewLinks
    <3> QED BY <3>1, <3>2, <3>3
  <2>14. worker'[w].pc \notin Holding /\ lastSeq' = lastSeq
    BY <2>1, ItsEnd
  <2> HIDE DEF New
  <2> QED BY <2>5, <2>12, <2>13, <2>14, GivingStep
<1> QED BY <1>2, <1>3, <1>4, <1>5, <1>6 DEF RemoveTask

\* A pushed completion gives its row the next number; a pushed end of the rule
\* takes one for the rule, whose row is not one of the account's rows here.
LEMMA PushNumbers ==
  ASSUME RowsOK, NumbersInv, NEW w, UNCHANGED <<meeting, notes>>,
         PushCompletion(w) \/ PushRuleEnd(w)
  PROVE  NumbersInv'
<1>1. UNCHANGED <<worker, items, activities>> /\ lastSeq' = lastSeq + 1 /\ lastSeq \in Nat
  BY DEF PushCompletion, PushRuleEnd, RowsOK
<1>2. \E kind, id : AllNumbers' \subseteq AllNumbers \union {<<kind, id, lastSeq + 1>>}
  <2>1. CASE PushCompletion(w)
    <3>1. PICK i \in DOMAIN tasks, when \in Instants :
            tasks' = [tasks EXCEPT ![i] = [@ EXCEPT !.status = "done",
                        !.completedAt = when, !.deleted = FALSE, !.seq = lastSeq + 1]]
      BY <2>1 DEF PushCompletion
    <3> DEFINE row == [tasks[i] EXCEPT !.status = "done", !.completedAt = when,
                         !.deleted = FALSE, !.seq = lastSeq + 1]
    <3>2. row.seq = lastSeq + 1
      <4>1. tasks[i] \in Task
        BY DEF RowsOK
      <4> QED BY <4>1 DEF Task
    <3>3. tasks' = [tasks EXCEPT ![i] = row]
      BY <3>1
    <3> HIDE DEF row
    <3>4. NumbersOf("task", tasks')
            \subseteq NumbersOf("task", tasks) \union {<<"task", i, lastSeq + 1>>}
      BY <3>2, <3>3, NumbersWritten
    <3>5. AllNumbers' \subseteq AllNumbers \union {<<"task", i, lastSeq + 1>>}
      BY <1>1, <3>4 DEF AllNumbers, Numbers, NoteNumbers
    <3> QED BY <3>5
  <2>2. CASE PushRuleEnd(w)
    BY <2>2, SameAll DEF PushRuleEnd, SameNumbers
  <2> QED BY <2>1, <2>2
<1>3. PICK kind, id : AllNumbers' \subseteq AllNumbers \union {<<kind, id, lastSeq + 1>>}
  BY <1>2
<1> DEFINE n == <<kind, id, lastSeq + 1>>
<1>4. AllNumbers' \subseteq AllNumbers \union {n} /\ n[3] = lastSeq + 1
  BY <1>3
<1> HIDE DEF n
<1> QED BY <1>1, <1>4, Pushed

LEMMA SweepNumbers ==
  ASSUME RowsOK, WorkersOK, WorkersOK', NumbersInv, SweepStep, StepOf(Sweeper),
         UNCHANGED <<meeting, notes>>
  PROVE  NumbersInv'
<1>1. Sweeper \in Workers
  BY DEF Workers
<1>2. SameNumbers /\ lastSeq' = lastSeq
  BY DEF SweepStep, SweepList, SweepNothing, SweepOpen, store, SameNumbers
<1>3. worker'[Sweeper].pc \notin Holding
  <2>1. CASE SweepList
    <3>1. PICK i \in DOMAIN tasks :
            Become(Sweeper, [Idle EXCEPT !.op = "sweep", !.pc = "open", !.id = i,
                               !.anchor = Anchor(i, tasks[i].completedAt),
                               !.at = TimeOfDay(i, tasks[i].completedAt)])
      BY <2>1 DEF SweepList
    <3> DEFINE q == [Idle EXCEPT !.op = "sweep", !.pc = "open", !.id = i,
                       !.anchor = Anchor(i, tasks[i].completedAt),
                       !.at = TimeOfDay(i, tasks[i].completedAt)]
    <3>2. worker'[Sweeper].pc = "open"
      <4>1. q.pc = "open" /\ Become(Sweeper, q)
        BY <3>1 DEF Idle
      <4> HIDE DEF q
      <4> QED BY <1>1, <4>1, ItsRequest
    <3> QED BY <3>2 DEF Holding
  <2>2. CASE SweepNothing
    BY <2>2 DEF SweepNothing, At, Holding
  <2>3. CASE SweepOpen
    <3>1. CASE SomeOpen
      BY <1>1, <2>3, <3>1, ItsEnd DEF SweepOpen
    <3>2. CASE ~SomeOpen
      <4>1. Become(Sweeper, [worker[Sweeper] EXCEPT !.pc = "rule"])
        BY <2>3, <3>2 DEF SweepOpen
      <4>2. worker'[Sweeper].pc = "rule"
        BY <1>1, <4>1, ItsRequest, RequestOf DEF Request
      <4> QED BY <4>2 DEF Holding
    <3> QED BY <3>1, <3>2
  <2> QED BY <2>1, <2>2, <2>3 DEF SweepStep
<1> QED BY <1>1, <1>2, <1>3, QuietStep

LEMMA CrashNumbers ==
  ASSUME WorkersOK, WorkersOK', NumbersInv, NEW w \in Workers, Crash(w), StepOf(w),
         UNCHANGED <<meeting, notes>>
  PROVE  NumbersInv'
<1>1. SameNumbers /\ lastSeq' = lastSeq /\ Finish(w)
  BY DEF Crash, store, SameNumbers
<1> QED BY <1>1, ItsEnd, QuietStep

-----------------------------------------------------------------------------
(* The meeting's steps                                                     *)

LEMMA SplitNumbers ==
  ASSUME RowsOK, NotesOK, WorkersOK, WorkersOK', NumbersInv, NEW w \in Workers,
         StepOf(w), SplitRead(w) \/ SplitNumber(w) \/ SplitWrite(w)
  PROVE  NumbersInv'
<1> DEFINE r == worker[w]
<1>1. /\ r \in Request /\ Consistent(r)
      /\ r.base \in Nat /\ lastSeq \in Nat /\ r.when \in Nat
      /\ r.kids \in Seq(Nat) /\ Len(r.kids) \in Nat
  BY ItsFields, LastSeqNat
<1>2. CASE SplitRead(w)
  <2>1. SameNumbers /\ lastSeq' = lastSeq
    BY <1>2 DEF SplitRead, Read, OtherRows, SameNumbers
  <2>2. worker'[w].pc \notin Holding
    <3>1. Finish(w) \/ Become(w, [r EXCEPT !.pc = "numbers", !.kids = Standing])
      BY <1>2 DEF SplitRead
    <3>2. ASSUME Become(w, [r EXCEPT !.pc = "numbers", !.kids = Standing])
          PROVE  worker'[w].pc \notin Holding
      <4>1. worker'[w] = [r EXCEPT !.pc = "numbers", !.kids = Standing]
        BY <3>2, ItsRequest
      <4>2. worker'[w].pc = "numbers"
        BY <1>1, <4>1 DEF Request
      <4> QED BY <4>2 DEF Holding
    <3> QED BY <3>1, <3>2, ItsEnd
  <2> QED BY <2>1, <2>2, QuietStep
<1>3. CASE SplitNumber(w)
  <2> DEFINE n == SplitSize(w)
  <2>1. Number(w, n, "split") /\ UNCHANGED <<meeting, notes>>
    BY <1>3 DEF SplitNumber
  <2>2. n \in Nat /\ "split" \in Statements
    BY <1>1 DEF SplitSize, Statements
  <2>3. Held([r EXCEPT !.pc = "split", !.base = lastSeq]) = n
    BY <1>1 DEF Held, Request, SplitSize
  <2> HIDE DEF n
  <2> QED BY <1>1, <2>1, <2>2, <2>3, TakingStep
<1>4. CASE SplitWrite(w)
  <2> DEFINE old == Len(r.kids)
             keep(n) == IF Contains(r.kids, n)
                        THEN [notes[n] EXCEPT !.deleted = TRUE,
                                              !.seq = r.base + Place(r.kids, n)]
                        ELSE notes[n]
             kept == [n \in DOMAIN notes |-> keep(n)]
             line(k) == [line |-> k, processed |-> FALSE, result |-> FALSE,
                         deleted |-> FALSE, seq |-> r.base + old + k]
             lines == [k \in 1..r.when |-> line(k)]
             Old == {n \in DOMAIN notes : Contains(r.kids, n)}
             P(n) == Place(r.kids, n)
             NewOld == {<<"note", n, r.base + P(n)>> : n \in Old}
             NewLines == {<<"note", Len(kept) + k, r.base + old + k>> : k \in 1..r.when}
             New == NewOld \union NewLines
  <2>1. /\ notes' = kept \o lines /\ r.pc = "split"
        /\ Finish(w) /\ OtherRows /\ UNCHANGED <<lastSeq, meeting>>
    BY <1>4 DEF SplitWrite, Lines, At
  <2>2. \A n \in Old : P(n) \in Nat /\ 1 <= P(n) /\ P(n) <= old
    <3> SUFFICES ASSUME NEW n \in Old PROVE P(n) \in 1..old
      BY <1>1
    <3> QED BY <1>1, PlaceOK
  <2>3. \A n, m \in Old : P(n) = P(m) => n = m
    BY <1>1, PlaceOne
  <2>4. DOMAIN kept = DOMAIN notes /\ notes \in Seq(NoteItem) /\ Len(kept) \in Nat
        /\ kept \in Seq(NoteItem)
    <3>1. notes \in Seq(NoteItem)
      BY DEF NotesOK
    <3>2. ASSUME NEW n \in DOMAIN notes PROVE keep(n) \in NoteItem
      <4>1. notes[n] \in NoteItem
        BY <3>1
      <4>2. CASE n \in Old
        <5>1. r.base + Place(r.kids, n) \in Nat
          BY <1>1, <2>2, <4>2
        <5>2. ASSUME NEW t \in NoteItem, NEW number \in Nat
              PROVE  [t EXCEPT !.deleted = TRUE, !.seq = number] \in NoteItem
          BY DEF NoteItem
        <5> QED BY <4>1, <4>2, <5>1, <5>2
      <4> QED BY <4>1, <4>2
    <3> HIDE DEF keep
    <3> QED BY <3>1, <3>2, Mapped
  <2>5. NumbersOf("note", kept) \subseteq NumbersOf("note", notes) \union NewOld
    <3>1. \A n \in DOMAIN notes : n \in Old \/ kept[n] = notes[n]
      OBVIOUS
    <3>2. ASSUME NEW n \in Old PROVE kept[n].seq = r.base + P(n)
      <4>1. notes[n] \in NoteItem
        BY DEF NotesOK
      <4> QED BY <4>1 DEF NoteItem
    <3>3. Old \intersect DOMAIN notes = Old
      OBVIOUS
    <3> HIDE DEF Old, P, kept
    <3>4. NumbersOf("note", kept)
            \subseteq NumbersOf("note", notes) \union
                      {<<"note", n, kept[n].seq>> : n \in Old \intersect DOMAIN notes}
      BY <2>4, <3>1, NumbersMapped
    <3> QED BY <3>2, <3>3, <3>4
  <2>6. /\ lines \in Seq(NoteItem) /\ DOMAIN lines = 1..r.when
        /\ \A k \in 1..r.when : lines[k].seq = r.base + old + k
    <3>1. ASSUME NEW k \in 1..r.when PROVE line(k) \in NoteItem /\ line(k).seq = r.base + old + k
      <4>1. r.when \in 0..MaxLines
        BY <1>1, <2>1 DEF Consistent
      <4>2. k \in 0..MaxLines /\ k \in Nat
        BY <4>1, MeetingsAssumption
      <4> HIDE DEF old
      <4>3. old \in Nat
        BY <1>1 DEF old
      <4>4. r.base + old + k \in Nat
        BY <1>1, <4>2, <4>3
      <4> QED BY <4>2, <4>4 DEF NoteItem
    <3>2. \A k \in 1..r.when : line(k) \in NoteItem
      BY <3>1
    <3> HIDE DEF line
    <3>3. DOMAIN lines = 1..r.when /\ \A k \in 1..r.when : lines[k] = line(k)
      OBVIOUS
    <3>4. lines = [k \in 1..r.when |-> lines[k]]
      OBVIOUS
    <3> HIDE DEF lines
    <3>5. \A k \in 1..r.when : lines[k] \in NoteItem
      BY <3>2, <3>3
    <3>6. lines \in Seq(NoteItem)
      BY <1>1, <3>4, <3>5, Listed
    <3> QED BY <3>1, <3>3, <3>6
  <2>7. NumbersOf("note", notes') \subseteq NumbersOf("note", kept) \union NewLines
    <3> HIDE DEF kept, lines, old
    <3>1. kept \in Seq(NoteItem) /\ lines \in Seq(NoteItem)
      BY <2>4, <2>6
    <3>2. NumbersOf("note", kept \o lines)
            \subseteq NumbersOf("note", kept) \union
                      {<<"note", Len(kept) + k, lines[k].seq>> : k \in DOMAIN lines}
      BY <3>1, NumbersJoined
    <3> QED BY <2>1, <2>6, <3>2
  <2>8. AllNumbers' \subseteq AllNumbers \union New
    <3> HIDE DEF NewOld, NewLines
    <3> QED BY <2>1, <2>5, <2>7 DEF AllNumbers, Numbers, NoteNumbers, OtherRows
  <2>9. Block(w) = Taken(r.base, old + r.when)
    BY <2>1 DEF Block, Held
  <2> DEFINE base == r.base
             more == r.when
  <2>10. base \in Nat /\ more \in Nat /\ old \in Nat
    BY <1>1
  <2> HIDE DEF base, more, old, Old, P, kept
  <2>11. /\ \A n \in Old : base + P(n) \in Taken(base, old + more)
         /\ \A k \in 1..more : base + old + k \in Taken(base, old + more)
    BY <2>2, <2>10 DEF Taken
  <2>12. /\ \A n, m \in Old : base + P(n) = base + P(m) => n = m
         /\ \A k, m \in 1..more : base + old + k = base + old + m => k = m
         /\ \A n \in Old, k \in 1..more : base + P(n) # base + old + k
    BY <2>2, <2>3, <2>10
  <2>13. New = {<<"note", n, base + P(n)>> : n \in Old} \union
               {<<"note", Len(kept) + k, base + old + k>> : k \in 1..more}
    BY DEF base, more
  <2> HIDE DEF New, NewOld, NewLines
  <2>14. \A x \in New : x[3] \in Block(w)
    BY <2>9, <2>11, <2>13 DEF base, more
  <2>15. \A x, y \in New : x[3] = y[3] => x = y
    BY <2>12, <2>13
  <2>16. worker'[w].pc \notin Holding /\ lastSeq' = lastSeq
    BY <2>1, ItsEnd
  <2> QED BY <2>8, <2>14, <2>15, <2>16, GivingStep
<1> QED BY <1>2, <1>3, <1>4

LEMMA MeetingNumbers ==
  ASSUME RowsOK, NotesOK, WorkersOK, WorkersOK', NumbersInv, NEW w \in Workers,
         MeetingStep(w), StepOf(w)
  PROVE  NumbersInv'
<1> DEFINE r == worker[w]
<1>1. /\ r \in Request /\ r.base \in Nat /\ r.base + 1 \in Nat
      /\ meeting \in Meeting /\ notes \in Seq(NoteItem)
  BY ItsFields DEF NotesOK
<1>2. ASSUME NEW op \in Ops, MeetingFind(w, op) PROVE NumbersInv'
  <2>1. SameNumbers /\ lastSeq' = lastSeq
    BY <1>2 DEF MeetingFind, Read, OtherRows, SameNumbers
  <2>2. worker'[w].pc \notin Holding
    <3>1. CASE op \in {"review", "process", "scratch"}
      <4>1. PICK n \in DOMAIN notes :
              Become(w, [Idle EXCEPT !.op = op, !.pc = "seq", !.id = n])
        BY <1>2, <3>1 DEF MeetingFind
      <4> DEFINE q == [Idle EXCEPT !.op = op, !.pc = "seq", !.id = n]
      <4>2. worker'[w].pc = "seq"
        <5>1. q.pc = "seq" /\ Become(w, q)
          BY <4>1 DEF Idle
        <5> HIDE DEF q
        <5> QED BY <5>1, ItsRequest
      <4> QED BY <4>2 DEF Holding
    <3>2. CASE op \notin {"review", "process", "scratch"}
      <4> DEFINE pc == IF op \in {"split", "rebuild"} THEN "notes" ELSE "seq"
      <4>1. PICK lines \in IF op = "minutes" THEN 0..MaxLines ELSE {meeting.lines} :
              Become(w, [Idle EXCEPT !.op = op, !.when = lines, !.pc = pc])
        BY <1>2, <3>2 DEF MeetingFind
      <4>2. pc \notin Holding
        BY DEF Holding
      <4> HIDE DEF pc
      <4> DEFINE q == [Idle EXCEPT !.op = op, !.when = lines, !.pc = pc]
      <4>3. q.pc = pc
        BY DEF Idle
      <4>4. worker'[w] = q
        BY <4>1, ItsRequest
      <4> QED BY <4>2, <4>3, <4>4
    <3> QED BY <3>1, <3>2
  <2> QED BY <2>1, <2>2, QuietStep
<1>3. CASE MeetingWrite(w)
  <2>1. r.pc = "write" /\ Finish(w) /\ OtherRows /\ UNCHANGED <<lastSeq, notes>>
    BY <1>3 DEF MeetingWrite, At
  <2>2. meeting'.seq = r.base + 1
    <3>1. ASSUME NEW m \in Meeting
          PROVE  /\ [m EXCEPT !.lines = r.when, !.seq = r.base + 1].seq = r.base + 1
                 /\ [m EXCEPT !.deleted = TRUE, !.seq = r.base + 1].seq = r.base + 1
      BY DEF Meeting
    <3> QED BY <1>1, <1>3, <3>1 DEF MeetingWrite
  <2>3. AllNumbers' \subseteq AllNumbers \union {<<"meeting", 1, r.base + 1>>}
    BY <2>1, <2>2 DEF AllNumbers, Numbers, NoteNumbers, NumbersOf, OtherRows
  <2> QED BY <2>1, <2>3, OneGiven
<1>4. CASE NoteAdd(w)
  <2> DEFINE note == [line |-> 0, processed |-> FALSE, result |-> FALSE,
                      deleted |-> FALSE, seq |-> r.base + 1]
  <2>1. /\ notes' = Append(notes, note) /\ r.pc = "write"
        /\ Finish(w) /\ OtherRows /\ UNCHANGED <<lastSeq, meeting>>
    BY <1>4 DEF NoteAdd, At
  <2>2. note \in NoteItem /\ note.seq = r.base + 1
    BY <1>1, MeetingsAssumption DEF NoteItem
  <2> HIDE DEF note
  <2>3. NumbersOf("note", notes') \subseteq
          NumbersOf("note", notes) \union {<<"note", Len(notes) + 1, r.base + 1>>}
    BY <1>1, <2>1, <2>2, NumbersAppended
  <2>4. AllNumbers' \subseteq AllNumbers \union {<<"note", Len(notes) + 1, r.base + 1>>}
    BY <2>1, <2>3 DEF AllNumbers, Numbers, NoteNumbers, OtherRows
  <2> QED BY <2>1, <2>4, OneGiven
<1>5. CASE NoteWrite(w)
  <2>1. PICK note \in NoteEdited(notes[r.id], r) : notes' = [notes EXCEPT ![r.id] = note]
    BY <1>5 DEF NoteWrite
  <2>2. /\ r.pc = "write" /\ Finish(w) /\ OtherRows
        /\ UNCHANGED <<lastSeq, meeting>>
    BY <1>5 DEF NoteWrite, At
  <2>3. ASSUME NEW old \in NoteItem, NEW new \in NoteEdited(old, r)
        PROVE  new.seq = r.base + 1
    BY DEF NoteEdited, NoteItem
  <2>4. r.id \in DOMAIN notes => note.seq = r.base + 1
    <3>1. r.id \in DOMAIN notes => notes[r.id] \in NoteItem
      BY DEF NotesOK
    <3> QED BY <2>3, <3>1
  <2>5. NumbersOf("note", notes') \subseteq
          NumbersOf("note", notes) \union {<<"note", r.id, r.base + 1>>}
    BY <2>1, <2>4, NumbersWritten
  <2>6. AllNumbers' \subseteq AllNumbers \union {<<"note", r.id, r.base + 1>>}
    BY <2>2, <2>5 DEF AllNumbers, Numbers, NoteNumbers, OtherRows
  <2> QED BY <2>2, <2>6, OneGiven
<1>6. CASE SplitRead(w) \/ SplitNumber(w) \/ SplitWrite(w)
  BY <1>6, SplitNumbers
<1> QED BY <1>2, <1>3, <1>4, <1>5, <1>6 DEF MeetingStep

-----------------------------------------------------------------------------
(* The invariant                                                           *)

\* An account starts with the meeting numbered 1, the notes after it, the task and
\* its item after them, and nothing taken.
LEMMA NumbersInit == MeetingInit => NumbersInv
<1> SUFFICES ASSUME MeetingInit PROVE NumbersInv
  OBVIOUS
<1> DEFINE n == MaxLines + 1
<1>1. MaxLines \in Nat /\ n \in Nat
  BY MeetingsAssumption
<1>2. lastSeq = n + 3 /\ worker = [w \in Workers |-> Idle]
  BY DEF MeetingInit, InitAfter
<1>3. ASSUME NEW w \in Workers PROVE Block(w) = {}
  BY <1>2, TakenNone DEF Block, Held, Idle
<1>4. AllNumbers \subseteq
        {<<"meeting", 1, 1>>, <<"task", 1, n + 2>>, <<"item", 1, n + 3>>} \union
        {<<"note", k, 1 + k>> : k \in 1..MaxLines}
  <2>1. NumbersOf("task", tasks) = {<<"task", 1, n + 2>>}
    <3>1. DOMAIN tasks = {1} /\ tasks[1].seq = n + 2
      BY DEF MeetingInit, InitAfter
    <3> QED BY <3>1 DEF NumbersOf
  <2>2. NumbersOf("item", items) = {<<"item", 1, n + 3>>}
    <3>1. DOMAIN items = {1} /\ items[1].seq = n + 3
      BY DEF MeetingInit, InitAfter
    <3> QED BY <3>1 DEF NumbersOf
  <2>3. NumbersOf("activity", activities) = {}
    <3>1. DOMAIN activities = {}
      BY DEF MeetingInit, InitAfter
    <3> QED BY <3>1 DEF NumbersOf
  <2>4. meeting.seq = 1
    BY DEF MeetingInit
  <2>5. NumbersOf("note", notes) \subseteq {<<"note", k, 1 + k>> : k \in 1..MaxLines}
    <3>1. CASE notes = <<>>
      BY <3>1 DEF NumbersOf
    <3>2. CASE notes = [k \in 1..MaxLines |->
                          [line |-> k, processed |-> k = 1, result |-> k = 1,
                           deleted |-> FALSE, seq |-> 1 + k]]
      <4>1. DOMAIN notes = 1..MaxLines /\ \A k \in 1..MaxLines : notes[k].seq = 1 + k
        BY <3>2
      <4> QED BY <4>1 DEF NumbersOf
    <3> QED BY <3>1, <3>2 DEF MeetingInit
  <2> HIDE DEF n
  <2> QED BY <2>1, <2>2, <2>3, <2>4, <2>5 DEF AllNumbers, Numbers, NoteNumbers
<1>5. /\ \A k \in 1..MaxLines : 1 + k \in 1..n + 3 /\ 1 + k # 1 /\ 1 + k # n + 2
                                /\ 1 + k # n + 3
      /\ 1 \in 1..n + 3 /\ n + 2 \in 1..n + 3 /\ n + 3 \in 1..n + 3
      /\ n + 2 # 1 /\ n + 3 # 1 /\ n + 2 # n + 3
  BY <1>1
<1>6. \A k, m \in 1..MaxLines : 1 + k = 1 + m => k = m
  BY <1>1
<1> HIDE DEF n
<1>7. \A x \in AllNumbers : x[3] \in 1..lastSeq
  BY <1>2, <1>4, <1>5
<1>8. \A x, y \in AllNumbers : x[3] = y[3] => x = y
  BY <1>4, <1>5, <1>6
<1> QED BY <1>3, <1>7, <1>8 DEF NumbersInv

LEMMA NumbersStep == TypeInv /\ NumbersInv /\ [MeetingNext]_allVars => NumbersInv'
<1> SUFFICES ASSUME TypeInv, NumbersInv, [MeetingNext]_allVars PROVE NumbersInv'
  OBVIOUS
<1>1. /\ RowsOK /\ WorkersOK /\ WorkersOK' /\ NotesOK
  BY TypeInvStep DEF TypeInv, TaskTypeInv
<1>2. CASE UNCHANGED allVars
  <2>1. AllNumbers' = AllNumbers /\ lastSeq' = lastSeq /\ worker' = worker
    BY <1>2, SameAll DEF allVars, vars, store, SameNumbers
  <2>2. \A w : Block(w)' = Block(w)
    BY <2>1 DEF Block, Held
  <2> QED BY <2>1, <2>2 DEF NumbersInv
<1>3. ASSUME NEW w \in Workers, StepOf(w) PROVE NumbersInv'
  <2>1. CASE MeetingStep(w)
    BY <1>1, <1>3, <2>1, MeetingNumbers
  <2>2. CASE TaskStep(w) /\ UNCHANGED <<meeting, notes>>
    BY <1>1, <1>3, <2>2, CompleteNumbers, EditNumbers, RemoveNumbers, PushNumbers,
       SpawnNumbers, SweepNumbers, CrashNumbers DEF TaskStep
  <2> QED BY <1>3, <2>1, <2>2 DEF StepOf
<1> QED BY <1>2, <1>3, SomeonesStep

\* Blocks of numbers taken and not yet given are apart from each other and from the
\* number of every row: inductive, beside the types.
THEOREM NumbersInvariant == MeetingSpec => [](TypeInv /\ NumbersInv)
<1>1. TypeInv /\ NumbersInv /\ [MeetingNext]_allVars => (TypeInv /\ NumbersInv)'
  BY NumbersStep, TypeInvStep
<1> QED BY <1>1, TypeInvInit, NumbersInit, PTL DEF MeetingSpec

\* No two rows of the account's tasks carry one number, for any number of requests
\* and the sweep at once, and whichever of them die.
THEOREM RowsNumberedApart == MeetingSpec => []NumbersDistinct
<1>1. TypeInv /\ NumbersInv => NumbersDistinct
  BY DEF TypeInv, TaskTypeInv, RowsOK, NumbersInv, NumbersDistinct, AllNumbers
<1> QED BY <1>1, NumbersInvariant, PTL

\* The same of the meeting and its notes, among themselves and beside the tasks.
THEOREM NotesNumberedApart == MeetingSpec => []NotesNumbered
<1>1. TypeInv /\ NumbersInv => NotesNumbered
  BY DEF TypeInv, TaskTypeInv, RowsOK, NumbersInv, NotesNumbered, AllNumbers
<1> QED BY <1>1, NumbersInvariant, PTL
=============================================================================
