----------------------------- MODULE SyncProofs ------------------------------
(***************************************************************************)
(* Sync keeps its types and never gives two rows of an account the same    *)
(* number, for any users, devices, tables, batches and handlers.           *)
(*                                                                         *)
(* SeqInv is the inductive invariant.  Each lemma takes one kind of step   *)
(* and shows that it preserves SeqInv; steps that touch only part of the   *)
(* state share a lemma.                                                    *)
(***************************************************************************)
EXTENDS Sync, TLAPS, WellFoundedInduction

USE DEF shared, server, device

-----------------------------------------------------------------------------
(* The operators a step is built from                                      *)

\* What a push writes is a row of its account, under the number it was given.
LEMMA WrittenRow ==
  ASSUME NEW row \in Row \cup {None}, NEW u \in Users, NEW c \in Change,
         NEW s \in Nat,
         row # None => row.owner = u,
         c.op = "delete" => row # None,
         c.op = "upsert" => /\ c.data # Malformed
                            /\ c.data = Partial => row # None
  PROVE  /\ Written(row, u, c, s) \in Row
         /\ Written(row, u, c, s) # None
         /\ Written(row, u, c, s).owner = u
         /\ Written(row, u, c, s).seq = s
<1>1. CASE c.op = "delete"
  <2>1. Written(row, u, c, s) = Tombstoned(row, c, s)
    BY <1>1 DEF Written
  <2>2. row \in Row /\ c.updatedAt \in Times
    BY <1>1 DEF Change
  <2>3. /\ Tombstoned(row, c, s) \in Row
        /\ Tombstoned(row, c, s).owner = row.owner
        /\ Tombstoned(row, c, s).seq = s
    BY <2>2 DEF Tombstoned, Row
  <2> QED
    BY <1>1, <2>1, <2>3, NoneAssumption
<1>2. CASE c.op # "delete" /\ row = None
  <2>1. Written(row, u, c, s) = Created(u, c, s)
    BY <1>2 DEF Written
  <2>2. c.data \in Values /\ c.updatedAt \in Times
    BY <1>2 DEF Change
  <2>3. /\ Created(u, c, s) \in Row
        /\ Created(u, c, s).owner = u
        /\ Created(u, c, s).seq = s
    BY <2>2 DEF Created, Row
  <2> QED
    BY <2>1, <2>3, NoneAssumption
<1>3. CASE c.op # "delete" /\ row # None
  <2>1. Written(row, u, c, s) = Upserted(row, c, s)
    BY <1>3 DEF Written
  <2>2. /\ row \in Row /\ c.updatedAt \in Times
        /\ c.data # Partial => c.data \in Values
    BY <1>3 DEF Change
  <2>3. /\ Upserted(row, c, s) \in Row
        /\ Upserted(row, c, s).owner = row.owner
        /\ Upserted(row, c, s).seq = s
    BY <2>2 DEF Upserted, Row
  <2> QED
    BY <1>3, <2>1, <2>3, NoneAssumption
<1> QED BY <1>1, <1>2, <1>3

\* orderChanges permutes a batch: it is a batch of the same length.
LEMMA OrderedBatch ==
  ASSUME NEW b \in Seq(Change), NEW o \in orderChanges(b)
  PROVE  o \in Seq(Change) /\ Len(o) = Len(b)
BY DEF orderChanges, SortedPlaces

\* Of numbers that have a bound, one is the largest.
LEMMA Largest ==
  ASSUME NEW S \in SUBSET Nat, S # {}, NEW n \in Nat, \A s \in S : s <= n
  PROVE  \E s \in S : \A t \in S : t <= s
<1> DEFINE T == {n - s : s \in S}
<1>1. T \subseteq Nat /\ T # {}
  <2>1. \A s \in S : n - s \in Nat
    OBVIOUS
  <2>2. PICK s \in S : TRUE
    OBVIOUS
  <2>3. n - s \in T
    BY <2>2
  <2> QED BY <2>1, <2>3
<1>2. \E x \in T : \A y \in T : ~(<<y, x>> \in OpToRel(<, Nat))
  BY <1>1, WFMin, NatLessThanWellFounded
<1>3. PICK x \in T : \A y \in T : ~(y < x)
  BY <1>1, <1>2 DEF OpToRel
<1>4. PICK s \in S : x = n - s
  BY <1>3
<1>5. \A t \in S : t <= s
  BY <1>3, <1>4, SMTT(20)
<1> QED BY <1>5

\* The numbers of a page are numbers the pull collected.
LEMMA PageGot ==
  ASSUME NEW d \in Devices
  PROVE  Page(d) \subseteq pull[d].got
BY DEF Page, FirstBySeq

\* The cursor a pull answers with is a number: the one it began at, or the
\* highest of the page, which exists because the page is bounded.
LEMMA NewCursorIsNat ==
  ASSUME TypeOK, GotBounded, NEW d \in Devices
  PROVE  NewCursor(d) \in Nat
<1>1. pull[d].since \in Nat /\ pull[d].got \subseteq Entry
  BY DEF TypeOK, PullTypeOK
<1>2. CASE Page(d) # {}
  <2> DEFINE S == {e.row.seq : e \in Page(d)}
  <2>1. S \in SUBSET Nat /\ S # {}
    BY <1>1, <1>2, PageGot DEF Entry, Row
  <2>2. lastSeq[UserOf[d]] \in Nat /\ \A s \in S : s <= lastSeq[UserOf[d]]
    BY PageGot, DevicesAssumption DEF GotBounded, TypeOK, StateTypeOK
  <2>3. \E s \in S : \A t \in S : t <= s
    BY <2>1, <2>2, Largest
  <2>4. \E s \in S : \A e \in Page(d) : e.row.seq <= s
    BY <2>3
  <2> QED BY <1>2, <2>1, <2>4 DEF NewCursor
<1>3. CASE Page(d) = {}
  BY <1>1, <1>3 DEF NewCursor
<1> QED BY <1>2, <1>3

-----------------------------------------------------------------------------
(* Steps of a pull                                                         *)

\* A step that leaves the rows, the counters and the writers alone preserves
\* every part of the invariant that is about them.
LEMMA WritersUntouched ==
  ASSUME SeqInv, UNCHANGED <<rows, draft, lastSeq, lock, push, web>>
  PROVE  /\ SeqsDistinct' /\ LockHeld' /\ BlockUsed' /\ DraftNumbered'
         /\ DraftOwned' /\ WriteReady' /\ WebNumbered'
         /\ PushFoundStays' /\ WebFoundStays'
<1>1. SeqsDistinct'
  BY DEF SeqInv, SeqsDistinct, OwnRow
<1>2. LockHeld' /\ BlockUsed'
  BY DEF SeqInv, LockHeld, BlockUsed, InTransaction, NoRows
<1>3. DraftNumbered' /\ DraftOwned'
  BY DEF SeqInv, DraftNumbered, DraftOwned
<1>4. WriteReady'
  BY DEF SeqInv, WriteReady, Pending
<1>5. PushFoundStays' /\ WebFoundStays'
  BY DEF SeqInv, PushFoundStays, WebFoundStays, OwnRow, Stored, Visible, Pending
<1>6. WebNumbered'
  BY DEF SeqInv, WebNumbered, OwnRow
<1> QED BY <1>1, <1>2, <1>3, <1>4, <1>5, <1>6

\* touchClient leaves a table of positions.
LEMMA TouchType ==
  ASSUME TypeOK, NEW d \in Devices, NEW p \in Nat, Touch(d, p)
  PROVE  clients' \in [Devices -> Nat \cup {None}]
BY DEF TypeOK, StateTypeOK, Touch

\* A pull step changes only the reader's side, and what it collects is committed.
LEMMA PullKeeps ==
  ASSUME SeqInv, NEW d \in Devices, PullStep(d), UNCHANGED <<pushVars, webVars>>
  PROVE  SeqInv'
<1> USE DEF pushVars, webVars
<1>1. TypeOK /\ GotBounded /\ SeqsDistinct
  BY DEF SeqInv
<1>2. UNCHANGED <<rows, draft, lastSeq, lock, push, pushes, web, edits>>
  BY DEF PullStep, PullBegin, PullTable, PullDeliver, PullLost, PullDie, Answer
<1>3. PushTypeOK' /\ WebTypeOK'
  BY <1>1, <1>2 DEF TypeOK, PushTypeOK, WebTypeOK
<1>4. StateTypeOK' /\ PullTypeOK' /\ GotBounded'
  <2>1. CASE PullBegin(d)
    <3>1. cursor[d] \in Nat
      BY <1>1 DEF TypeOK, StateTypeOK
    <3> DEFINE begun == [table |-> 1, since |-> cursor[d], got |-> {}, more |-> FALSE]
    <3>2. /\ begun \in [table : 0..(NTables + 1), since : Nat,
                        got : SUBSET Entry, more : BOOLEAN]
          /\ begun.got = {}
      BY <3>1, TablesAssumption
    <3>3. /\ pull' = [pull EXCEPT ![d] = begun]
          /\ asOf' = [asOf EXCEPT ![d] = rows]
          /\ UNCHANGED shared
      BY <2>1 DEF PullBegin
    <3> HIDE DEF begun
    <3>4. StateTypeOK'
      BY <1>1, <3>3 DEF TypeOK, StateTypeOK
    <3>5. PullTypeOK'
      BY <1>1, <3>2, <3>3 DEF TypeOK, StateTypeOK, PullTypeOK
    <3>6. GotBounded'
      BY <1>1, <1>2, <3>2, <3>3 DEF GotBounded, TypeOK, PullTypeOK
    <3> QED BY <3>4, <3>5, <3>6
  <2>2. CASE PullTable(d)
    <3> DEFINE inRange == InRange(UserOf[d], pull[d].table, pull[d].since)
               new == FirstBySeq(FirstBySeq(inRange, Cap + 1), Cap)
    <3>1. /\ new \subseteq Entry
          /\ \A e \in new : e.row.seq <= lastSeq[UserOf[d]]
      <4>1. inRange \subseteq Entry
        BY <1>1 DEF TypeOK, StateTypeOK, InRange, OwnRow, Entry
      <4>2. \A e \in inRange : e.row.seq <= lastSeq[UserOf[d]]
        BY <1>1, DevicesAssumption
        DEF SeqsDistinct, InRange, OwnRow, TypeOK, StateTypeOK
      <4>3. new \subseteq inRange
        BY DEF FirstBySeq
      <4> QED BY <4>1, <4>2, <4>3
    <3>2. pull' = [pull EXCEPT ![d].table = @ + 1, ![d].got = @ \cup new,
             ![d].more = @ \/ Cardinality(FirstBySeq(inRange, Cap + 1)) > Cap]
      BY <2>2 DEF PullTable
    <3>3. pull[d].table + 1 \in 0..(NTables + 1)
      BY <2>2, TablesAssumption DEF PullTable
    <3>4. StateTypeOK' /\ PullTypeOK'
      <4>1. StateTypeOK'
        BY <1>1, <2>2 DEF TypeOK, StateTypeOK, PullTable
      <4>2. pull' \in [Devices -> [table : 0..(NTables + 1), since : Nat,
                                   got : SUBSET Entry, more : BOOLEAN]]
        BY <1>1, <3>1, <3>2, <3>3, ZenonT(30) DEF TypeOK, PullTypeOK
      <4>3. asOf' = asOf
        BY <2>2 DEF PullTable
      <4> QED BY <1>1, <4>1, <4>2, <4>3 DEF TypeOK, PullTypeOK
    <3>5. GotBounded'
      BY <1>1, <1>2, <3>1, <3>2 DEF GotBounded, TypeOK, PullTypeOK
    <3> QED BY <3>4, <3>5
  <2>3. CASE Answer(d) /\ (PullDeliver(d) \/ PullLost(d))
    <3>1. NewCursor(d) \in Nat
      BY <1>1, NewCursorIsNat
    <3>2. clients' \in [Devices -> Nat \cup {None}]
      BY <1>1, <2>3, <3>1, TouchType DEF Answer
    <3>3. Received(d) \in [Ids -> Row \cup {None}]
      <4>1. Page(d) \subseteq Entry
        BY <1>1, PageGot DEF TypeOK, PullTypeOK
      <4> QED BY <1>1, <4>1 DEF Received, TypeOK, StateTypeOK, Entry
    <3>4. /\ cursor' \in [Devices -> Nat]
          /\ held' \in [Devices -> [Ids -> Row \cup {None}]]
      <4>1. CASE PullDeliver(d)
        BY <1>1, <3>1, <3>3, <4>1 DEF PullDeliver, TypeOK, StateTypeOK
      <4>2. CASE PullLost(d)
        BY <1>1, <4>2 DEF PullLost, TypeOK, StateTypeOK
      <4> QED BY <2>3, <4>1, <4>2
    <3>5. StateTypeOK'
      BY <1>1, <1>2, <3>2, <3>4 DEF TypeOK, StateTypeOK
    <3>6. PullTypeOK' /\ GotBounded'
      BY <1>1, <1>2, <2>3, TablesAssumption
      DEF Answer, TypeOK, PullTypeOK, GotBounded, NoPull, NoRows
    <3> QED BY <3>5, <3>6
  <2>4. CASE PullDie(d)
    <3>1. StateTypeOK'
      BY <1>1, <2>4 DEF PullDie, TypeOK, StateTypeOK
    <3>2. PullTypeOK' /\ GotBounded'
      BY <1>1, <1>2, <2>4, TablesAssumption
      DEF PullDie, TypeOK, PullTypeOK, GotBounded, NoPull, NoRows
    <3> QED BY <3>1, <3>2
  <2> QED BY <2>1, <2>2, <2>3, <2>4 DEF PullStep, PullDeliver, PullLost
<1> QED BY <1>2, <1>3, <1>4, WritersUntouched DEF SeqInv, TypeOK

-----------------------------------------------------------------------------
(* Steps of a web request                                                  *)

\* A handler that takes up, or drops, a request holds no number and has written
\* nothing; what it has taken up is well formed and, unless it is a create, found.
LEMMA WebTakesOrDrops ==
  ASSUME SeqInv, NEW w \in Handlers, NEW r \in WebRequest,
         r.pc # "write",
         r.pc # "idle" =>
           /\ r.id \in Ids
           /\ r.op \in {"create", "update"} => r.data \in Values
           /\ r.op = "create" => r.at \in Times
           /\ r.op # "create" => OwnRow(WebUser[w], rows[r.id]),
         web' = [web EXCEPT ![w] = r],
         edits' \in [Handlers -> Nat],
         UNCHANGED <<shared, pushVars, pullVars>>
  PROVE  SeqInv'
<1> USE DEF pushVars, pullVars
<1>1. TypeOK'
  <2>1. WebTypeOK'
    BY DEF SeqInv, TypeOK, WebTypeOK
  <2>2. StateTypeOK' /\ PushTypeOK' /\ PullTypeOK'
    BY DEF SeqInv, TypeOK, StateTypeOK, PushTypeOK, PullTypeOK
  <2> QED BY <2>1, <2>2 DEF TypeOK
<1>2. SeqsDistinct' /\ GotBounded'
  BY DEF SeqInv, SeqsDistinct, GotBounded, OwnRow
<1>3. LockHeld' /\ BlockUsed'
  BY DEF SeqInv, LockHeld, BlockUsed, InTransaction, NoRows
<1>4. DraftNumbered' /\ DraftOwned'
  BY DEF SeqInv, DraftNumbered, DraftOwned
<1>5. web \in [Handlers -> WebRequest]
  BY DEF SeqInv, TypeOK, WebTypeOK
<1>6. web'[w] = r /\ \A x \in Handlers \ {w} : web'[x] = web[x]
  BY <1>5
<1>7. WriteReady'
  BY <1>6 DEF SeqInv, WriteReady, Pending
<1>8. PushFoundStays' /\ WebFoundStays'
  <2>1. PushFoundStays'
    BY DEF SeqInv, PushFoundStays, OwnRow, Stored, Visible, Pending
  <2>2. WebFoundStays'
    BY <1>6 DEF SeqInv, WebFoundStays, OwnRow
  <2> QED BY <2>1, <2>2
<1>9. WebNumbered'
  BY <1>6 DEF SeqInv, WebNumbered, OwnRow
<1> QED BY <1>1, <1>2, <1>3, <1>4, <1>7, <1>8, <1>9 DEF SeqInv

\* seq.next gives a web request a number above every number of its account.  It
\* waits for the account's counter, so no push of the account is in progress.
LEMMA CrudSeqKeeps ==
  ASSUME SeqInv, NEW w \in Handlers, CrudSeq(w), UNCHANGED <<pushVars, pullVars>>
  PROVE  SeqInv'
<1> USE DEF pushVars, pullVars
<1> DEFINE u == WebUser[w]
<1>1. /\ TypeOK /\ u \in Users /\ lastSeq[u] \in Nat
      /\ web \in [Handlers -> WebRequest]
      /\ lastSeq \in [Users -> Nat]
  BY HandlersAssumption DEF SeqInv, TypeOK, StateTypeOK, WebTypeOK
<1>2. /\ web[w].pc = "seq" /\ lock[u] = None
      /\ lastSeq' = [lastSeq EXCEPT ![u] = @ + 1]
      /\ UNCHANGED <<rows, draft, lock, clients, cursor, held, edits,
                     push, pushes, pull, asOf>>
  BY DEF CrudSeq, Allocate
<1>3. PICK now \in Clock :
        web' = [web EXCEPT ![w].pc = "write", ![w].seq = lastSeq[u] + 1,
                           ![w].at = IF web[w].op = "create" THEN @ ELSE now]
  BY DEF CrudSeq
<1>4. /\ web'[w].pc = "write" /\ web'[w].seq = lastSeq[u] + 1
      /\ web'[w].op = web[w].op /\ web'[w].id = web[w].id
      /\ web'[w].data = web[w].data
      /\ web'[w].at = IF web[w].op = "create" THEN web[w].at ELSE now
      /\ \A x \in Handlers \ {w} : web'[x] = web[x]
  BY <1>1, <1>3 DEF WebRequest
<1>5. lastSeq'[u] = lastSeq[u] + 1 /\ \A a \in Users \ {u} : lastSeq'[a] = lastSeq[a]
  BY <1>1, <1>2
<1>6. \A d \in Devices : UserOf[d] = u => ~InTransaction(d) /\ draft[d] = NoRows
  BY <1>2, DevicesAssumption DEF SeqInv, LockHeld
<1>7. WriteReady'
  <2>1. now \in Times
    BY HandlersAssumption
  <2> QED
    BY <1>2, <1>4, <2>1 DEF SeqInv, WriteReady, Pending
<1>8. TypeOK'
  <2> DEFINE at == IF web[w].op = "create" THEN web[w].at ELSE now
  <2>1. web[w] \in WebRequest /\ lastSeq[u] + 1 \in Nat
    BY <1>1
  <2>2. at \in Times \cup {None}
    BY <2>1, HandlersAssumption DEF WebRequest
  <2>3. [web[w] EXCEPT !.pc = "write", !.seq = lastSeq[u] + 1, !.at = at]
           \in WebRequest
    BY <2>1, <2>2 DEF WebRequest
  <2>4. web' = [web EXCEPT ![w] =
          [web[w] EXCEPT !.pc = "write", !.seq = lastSeq[u] + 1, !.at = at]]
    BY <1>1, <1>3
  <2>5. web' \in [Handlers -> WebRequest]
    BY <1>1, <2>3, <2>4
  <2> QED
    BY <1>1, <1>2, <2>5 DEF TypeOK, StateTypeOK, PushTypeOK, WebTypeOK, PullTypeOK
<1>9. SeqsDistinct' /\ GotBounded'
  <2>1. \A a \in Users : lastSeq[a] \in Nat /\ lastSeq'[a] >= lastSeq[a]
                          /\ lastSeq'[a] \in Nat
    BY <1>1, <1>5
  <2>2. SeqsDistinct'
    BY <1>1, <1>2, <2>1 DEF SeqInv, SeqsDistinct, OwnRow, TypeOK, StateTypeOK, Row
  <2>3. GotBounded'
    BY <1>1, <1>2, <2>1, DevicesAssumption
    DEF SeqInv, GotBounded, TypeOK, PullTypeOK, Entry, Row
  <2> QED BY <2>2, <2>3
<1>10. LockHeld' /\ DraftOwned'
  BY <1>2 DEF SeqInv, LockHeld, DraftOwned, InTransaction, NoRows
<1>11. \A d \in Devices : UserOf[d] # u => lastSeq'[UserOf[d]] = lastSeq[UserOf[d]]
  BY <1>5, DevicesAssumption
<1>12. BlockUsed'
  BY <1>2, <1>6, <1>11 DEF SeqInv, BlockUsed, InTransaction
<1>13. DraftNumbered'
  BY <1>2, <1>6, <1>11 DEF SeqInv, DraftNumbered, NoRows
<1>14. PushFoundStays' /\ WebFoundStays'
  <2>1. PushFoundStays'
    BY <1>2 DEF SeqInv, PushFoundStays, OwnRow, Stored, Visible, Pending
  <2>2. \A x \in Handlers :
          /\ web'[x].pc # "idle" => web[x].pc # "idle"
          /\ web'[x].op = web[x].op /\ web'[x].id = web[x].id
    BY <1>2, <1>4
  <2>3. WebFoundStays'
    BY <1>2, <2>2 DEF SeqInv, WebFoundStays, OwnRow
  <2> QED BY <2>1, <2>3
<1>15. WebNumbered'
  <2> SUFFICES ASSUME NEW x \in Handlers, web'[x].pc = "write"
      PROVE  /\ web'[x].seq \in 1..lastSeq'[WebUser[x]]
             /\ \A i \in Ids : OwnRow(WebUser[x], rows[i])
                              => rows[i].seq # web'[x].seq
             /\ \A y \in Handlers \ {x} :
                  web'[y].pc = "write" /\ WebUser[y] = WebUser[x]
                    => web'[y].seq # web'[x].seq
    BY <1>2 DEF WebNumbered, OwnRow
  <2>1. \A i \in Ids : OwnRow(u, rows[i]) => rows[i].seq \in 1..lastSeq[u]
    BY DEF SeqInv, SeqsDistinct, OwnRow
  <2>2. \A y \in Handlers \ {w} : web[y].pc = "write" =>
          web[y].seq \in 1..lastSeq[WebUser[y]]
    BY DEF SeqInv, WebNumbered
  <2>3. CASE x = w
    BY <1>1, <1>4, <1>5, <2>1, <2>2, <2>3
  <2>4. CASE x # w
    <3>1. WebUser[x] \in Users /\ lastSeq[WebUser[x]] \in Nat
      BY <1>1, HandlersAssumption
    <3>2. web'[x] = web[x] /\ web[x].seq \in 1..lastSeq[WebUser[x]]
      BY <1>4, <2>2, <2>4
    <3> QED
      BY <1>1, <1>4, <1>5, <2>4, <3>1, <3>2 DEF SeqInv, WebNumbered
  <2> QED BY <2>3, <2>4
<1> QED BY <1>7, <1>8, <1>9, <1>10, <1>12, <1>13, <1>14, <1>15 DEF SeqInv

\* What a web request writes is a row of its account under the number it took,
\* or, for a create whose id is taken, nothing.
LEMMA WebRow ==
  ASSUME SeqInv, NEW w \in Handlers, CrudWrite(w)
  PROVE  LET id == web[w].id
             u  == WebUser[w]
         IN /\ id \in Ids
            /\ rows' = [rows EXCEPT ![id] = rows'[id]]
            /\ \/ rows'[id] = rows[id]
               \/ /\ rows'[id] \in Row /\ rows'[id] # None
                  /\ rows'[id].owner = u /\ rows'[id].seq = web[w].seq
                  /\ rows[id] # None => rows[id].owner = u
<1> DEFINE id == web[w].id
           u  == WebUser[w]
<1>1. /\ web[w] \in WebRequest /\ u \in Users
      /\ rows \in [Ids -> Row \cup {None}]
  BY HandlersAssumption DEF SeqInv, TypeOK, StateTypeOK, WebTypeOK
<1>2. /\ web[w].pc = "write" /\ id \in Ids
      /\ web[w].at \in Times
      /\ web[w].op \in {"create", "update"} => web[w].data \in Values
  BY DEF SeqInv, WriteReady, CrudWrite
<1>3. rows' = [rows EXCEPT ![id] =
                IF web[w].op # "create" THEN Edited(w, rows[id])
                ELSE IF rows[id] = None THEN Inserted(w) ELSE rows[id]]
  BY <1>1, <1>2 DEF CrudWrite
<1>4. rows'[id] = IF web[w].op # "create" THEN Edited(w, rows[id])
                  ELSE IF rows[id] = None THEN Inserted(w) ELSE rows[id]
  BY <1>1, <1>2, <1>3
<1>5. CASE web[w].op # "create"
  <2>1. rows[id] \in Row /\ rows[id].owner = u
    BY <1>1, <1>2, <1>5 DEF SeqInv, WebFoundStays, OwnRow
  <2>2. /\ Edited(w, rows[id]) \in Row
        /\ Edited(w, rows[id]).owner = u
        /\ Edited(w, rows[id]).seq = web[w].seq
    <3>1. /\ rows[id].data \in Values /\ rows[id].deleted \in BOOLEAN
          /\ web[w].op = "update" => web[w].data \in Values
          /\ web[w].seq \in Nat
      BY <1>1, <1>2, <2>1 DEF Row, WebRequest
    <3> DEFINE data == IF web[w].op = "update" THEN web[w].data ELSE rows[id].data
               deleted == CASE web[w].op = "remove" -> TRUE
                            [] web[w].op = "restore" -> FALSE
                            [] OTHER -> rows[id].deleted
    <3>2. data \in Values /\ deleted \in BOOLEAN
      BY <3>1
    <3>3. Edited(w, rows[id]) = [rows[id] EXCEPT !.data = data, !.deleted = deleted,
                                   !.updatedAt = web[w].at, !.seq = web[w].seq]
      BY DEF Edited
    <3> HIDE DEF data, deleted
    <3> QED BY <1>2, <2>1, <3>1, <3>2, <3>3 DEF Row
  <2> QED BY <1>2, <1>3, <1>4, <1>5, <2>1, <2>2, NoneAssumption
<1>6. CASE web[w].op = "create"
  <2>1. Inserted(w) \in Row /\ Inserted(w).owner = u /\ Inserted(w).seq = web[w].seq
    BY <1>1, <1>2, <1>6 DEF Inserted, Row, WebRequest
  <2> QED BY <1>2, <1>3, <1>4, <1>6, <2>1, NoneAssumption
<1> QED BY <1>5, <1>6

\* A web write puts the handler's own number on a row no push has locked.
LEMMA CrudWriteKeeps ==
  ASSUME SeqInv, NEW w \in Handlers, CrudWrite(w), UNCHANGED <<pushVars, pullVars>>
  PROVE  SeqInv'
<1> USE DEF pushVars, pullVars
<1> DEFINE id == web[w].id
           u  == WebUser[w]
           new == rows'[id]
<1>1. /\ TypeOK /\ u \in Users /\ id \in Ids
      /\ web \in [Handlers -> WebRequest]
      /\ rows \in [Ids -> Row \cup {None}]
      /\ lastSeq \in [Users -> Nat]
  BY WebRow, HandlersAssumption DEF SeqInv, TypeOK, StateTypeOK, WebTypeOK
<1>2. /\ web[w].pc = "write"
      /\ \A d \in Devices : draft[d][id] = None
      /\ web' = [web EXCEPT ![w] = NoRequest]
      /\ UNCHANGED <<draft, lastSeq, lock, clients, cursor, held, edits,
                     push, pushes, pull, asOf>>
  BY DEF CrudWrite, Unlocked
<1>3. \/ new = rows[id]
      \/ /\ new \in Row /\ new # None
         /\ new.owner = u /\ new.seq = web[w].seq
         /\ rows[id] # None => rows[id].owner = u
  BY WebRow
<1>4. rows' = [rows EXCEPT ![id] = new]
  BY WebRow
<1>5. \A i \in Ids \ {id} : rows'[i] = rows[i]
  BY <1>1, <1>4
<1>6. /\ web[w].seq \in 1..lastSeq[u]
      /\ \A i \in Ids : OwnRow(u, rows[i]) => rows[i].seq # web[w].seq
      /\ \A x \in Handlers \ {w} :
           web[x].pc = "write" /\ WebUser[x] = u => web[x].seq # web[w].seq
  BY <1>2 DEF SeqInv, WebNumbered
<1>7. web'[w].pc = "idle" /\ \A x \in Handlers \ {w} : web'[x] = web[x]
  BY <1>1, <1>2 DEF NoRequest
<1>8. TypeOK'
  <2>1. rows' \in [Ids -> Row \cup {None}]
    BY <1>1, <1>3, <1>4
  <2>2. NoRequest \in WebRequest
    BY DEF NoRequest, WebRequest
  <2>3. web' \in [Handlers -> WebRequest]
    BY <1>1, <1>2, <2>2
  <2> QED BY <1>1, <1>2, <2>1, <2>3
          DEF TypeOK, StateTypeOK, PushTypeOK, WebTypeOK, PullTypeOK
<1>9. SeqsDistinct'
  BY <1>1, <1>2, <1>3, <1>5, <1>6 DEF SeqInv, SeqsDistinct, OwnRow
<1>10. LockHeld' /\ BlockUsed' /\ GotBounded'
  BY <1>2 DEF SeqInv, LockHeld, BlockUsed, GotBounded, InTransaction, NoRows
<1>11. DraftNumbered'
  BY <1>2 DEF SeqInv, DraftNumbered
<1>12. DraftOwned'
  BY <1>2, <1>5 DEF SeqInv, DraftOwned
<1>13. WriteReady'
  BY <1>2, <1>7 DEF SeqInv, WriteReady, Pending
<1>14. \A a \in Users, i \in Ids : OwnRow(a, rows[i]) => OwnRow(a, rows'[i])
  BY <1>3, <1>5 DEF OwnRow
<1>15. PushFoundStays'
  <2> SUFFICES ASSUME NEW d \in Devices, push[d].pc = "write", push[d].existed
      PROVE  OwnRow(UserOf[d], Stored(d)')
    BY <1>2 DEF PushFoundStays, OwnRow
  <2>1. OwnRow(UserOf[d], Stored(d))
    BY DEF SeqInv, PushFoundStays
  <2>2. Pending(d) \in Change /\ Pending(d)' = Pending(d)
    <3>1. push[d].i \in DOMAIN push[d].batch /\ push[d].batch \in Seq(Change)
      BY <1>1 DEF SeqInv, BlockUsed, InTransaction, TypeOK, PushTypeOK, PushRequest
    <3> QED BY <1>2, <3>1 DEF Pending
  <2>3. Pending(d).id \in Ids
    BY <2>2 DEF Change
  <2> QED
    BY <1>2, <1>14, <2>1, <2>2, <2>3, DevicesAssumption DEF Stored, Visible
<1>16. WebFoundStays'
  <2> SUFFICES ASSUME NEW x \in Handlers \ {w},
                      web[x].pc # "idle", web[x].op # "create"
      PROVE  OwnRow(WebUser[x], rows'[web[x].id])
    BY <1>7 DEF WebFoundStays, OwnRow
  <2> QED
    BY <1>14, HandlersAssumption DEF SeqInv, WebFoundStays, WriteReady
<1>17. WebNumbered'
  BY <1>2, <1>3, <1>5, <1>6, <1>7 DEF SeqInv, WebNumbered, OwnRow
<1> QED BY <1>8, <1>9, <1>10, <1>11, <1>12, <1>13, <1>15, <1>16, <1>17 DEF SeqInv

\* Every step of a web request preserves the invariant.
LEMMA CrudKeeps ==
  ASSUME SeqInv, NEW w \in Handlers, CrudStep(w), UNCHANGED <<pushVars, pullVars>>
  PROVE  SeqInv'
<1>1. /\ edits \in [Handlers -> Nat] /\ web \in [Handlers -> WebRequest]
      /\ NoRequest \in WebRequest /\ NoRequest.pc = "idle"
  BY DEF SeqInv, TypeOK, WebTypeOK, NoRequest, WebRequest
<1>2. CASE CrudCreate(w)
  <2>1. PICK id \in Ids, data \in Values, now \in Clock :
          Start(w, [NoRequest EXCEPT !.pc = "seq", !.op = "create", !.id = id,
                                     !.data = data, !.at = now])
    BY <1>2 DEF CrudCreate
  <2> DEFINE r == [NoRequest EXCEPT !.pc = "seq", !.op = "create", !.id = id,
                                    !.data = data, !.at = now]
  <2>2. /\ r \in WebRequest /\ r.pc = "seq" /\ r.op = "create"
        /\ r.id = id /\ r.data = data /\ r.at = now
    BY HandlersAssumption DEF NoRequest, WebRequest
  <2>3. /\ web' = [web EXCEPT ![w] = r]
        /\ edits' = [edits EXCEPT ![w] = @ + 1]
        /\ UNCHANGED shared
    BY <2>1 DEF Start
  <2> HIDE DEF r
  <2>4. edits' \in [Handlers -> Nat]
    BY <1>1, <2>3
  <2> QED BY <2>2, <2>3, <2>4, HandlersAssumption, WebTakesOrDrops
<1>3. CASE CrudFind(w)
  <2>1. PICK id \in Ids, op \in {"update", "remove", "restore"}, data \in Values :
          /\ Found(WebUser[w], id, op)
          /\ Start(w, [NoRequest EXCEPT !.pc = "seq", !.op = op, !.id = id,
                          !.data = IF op = "update" THEN data ELSE None])
    BY <1>3 DEF CrudFind
  <2> DEFINE r == [NoRequest EXCEPT !.pc = "seq", !.op = op, !.id = id,
                     !.data = IF op = "update" THEN data ELSE None]
  <2>2. /\ r \in WebRequest /\ r.pc = "seq" /\ r.op = op /\ r.id = id
        /\ r.data = IF op = "update" THEN data ELSE None
    BY DEF NoRequest, WebRequest
  <2>3. /\ web' = [web EXCEPT ![w] = r]
        /\ edits' = [edits EXCEPT ![w] = @ + 1]
        /\ UNCHANGED shared
    BY <2>1 DEF Start
  <2> HIDE DEF r
  <2>4. edits' \in [Handlers -> Nat]
    BY <1>1, <2>3
  <2>5. OwnRow(WebUser[w], rows[id])
    BY <2>1 DEF Found
  <2> QED BY <2>2, <2>3, <2>4, <2>5, WebTakesOrDrops
<1>4. CASE CrudDie(w)
  BY <1>1, <1>4, WebTakesOrDrops DEF CrudDie
<1> QED BY <1>2, <1>3, <1>4, CrudSeqKeeps, CrudWriteKeeps DEF CrudStep

-----------------------------------------------------------------------------
(* Steps of a push                                                         *)

\* While changes are left, the next one is a change of the batch.
LEMMA PendingChange ==
  ASSUME SeqInv, NEW d \in Devices, InTransaction(d), ~Finished(d)
  PROVE  /\ Pending(d) \in Change /\ Pending(d).id \in Ids
         /\ push[d].i \in 1..Len(push[d].batch)
<1>1. /\ push[d].batch \in Seq(Change)
      /\ push[d].i \in 1..(Len(push[d].batch) + 1)
  BY DEF SeqInv, TypeOK, PushTypeOK, PushRequest, BlockUsed
<1>2. push[d].i \in 1..Len(push[d].batch)
  BY <1>1 DEF Finished
<1>3. Pending(d) \in Change
  BY <1>1, <1>2 DEF Pending
<1> QED BY <1>2, <1>3 DEF Change

\* Two devices of one account are never both in a transaction.
LEMMA OneTransaction ==
  ASSUME SeqInv, NEW d \in Devices, InTransaction(d),
         NEW e \in Devices \ {d}, UserOf[e] = UserOf[d]
  PROVE  ~InTransaction(e) /\ draft[e] = NoRows
BY DEF SeqInv, LockHeld

\* A step of a push that writes no row leaves the other components' share of the
\* invariant alone.
LEMMA OnlyPushMoves ==
  ASSUME SeqInv, UNCHANGED <<rows, draft, lastSeq, webVars, pullVars>>
  PROVE  /\ WebTypeOK' /\ PullTypeOK'
         /\ SeqsDistinct' /\ DraftOwned' /\ WebFoundStays' /\ WebNumbered'
         /\ GotBounded'
<1> USE DEF webVars, pullVars
<1>1. WebTypeOK' /\ PullTypeOK'
  BY DEF SeqInv, TypeOK, WebTypeOK, PullTypeOK
<1>2. SeqsDistinct' /\ DraftOwned'
  BY DEF SeqInv, SeqsDistinct, DraftOwned, OwnRow
<1>3. WebFoundStays' /\ WebNumbered' /\ GotBounded'
  BY DEF SeqInv, WebFoundStays, WebNumbered, GotBounded, OwnRow
<1> QED BY <1>1, <1>2, <1>3

\* The types of the fields of a request.
LEMMA RequestFields ==
  ASSUME NEW r \in PushRequest
  PROVE  /\ r.i \in Nat /\ r.seq \in Nat /\ r.batch \in Seq(Change)
         /\ Len(r.batch) \in Nat /\ r.applied \subseteq Nat
<1>1. r.i \in Nat /\ r.seq \in Nat /\ r.batch \in Seq(Change) /\ r.applied \subseteq Nat
  BY DEF PushRequest
<1> QED BY <1>1

\* Skipping a change moves the place in the batch, and the number if one was taken.
LEMMA RequestSkips ==
  ASSUME NEW r \in PushRequest, NEW i \in Nat, NEW s \in Nat
  PROVE  /\ [r EXCEPT !.i = i, !.seq = s] \in PushRequest
         /\ [r EXCEPT !.i = i] = [r EXCEPT !.i = i, !.seq = r.seq]
<1> DEFINE B == Seq(Change)
<1>1. PushRequest = [pc : {"idle", "find", "write", "reply"}, batch : B, i : Nat,
                     seq : Nat, existed : BOOLEAN, applied : SUBSET Nat]
  BY DEF PushRequest
<1> HIDE DEF B
<1> QED BY <1>1

\* A change that conflicts takes no number; a no-op takes one and writes nothing.
LEMMA PushSkipKeeps ==
  ASSUME SeqInv, NEW d \in Devices, PushConflict(d) \/ PushNoop(d),
         UNCHANGED <<webVars, pullVars>>
  PROVE  SeqInv'
<1> DEFINE base == lastSeq[UserOf[d]]
<1>1. /\ push \in [Devices -> PushRequest] /\ base \in Nat
      /\ push[d] \in PushRequest
      /\ UNCHANGED shared /\ UNCHANGED pushes
      /\ push[d].pc = "find" /\ InTransaction(d) /\ ~Finished(d)
  BY DevicesAssumption
  DEF SeqInv, TypeOK, PushTypeOK, StateTypeOK, PushConflict, PushNoop, Accepted,
      InTransaction
<1>2. PICK n \in {push[d].seq, push[d].seq + 1} :
        push' = [push EXCEPT ![d] = [push[d] EXCEPT !.i = push[d].i + 1, !.seq = n]]
  <2>1. CASE PushConflict(d)
    <3>1. push' = [push EXCEPT ![d] = [push[d] EXCEPT !.i = push[d].i + 1]]
      BY <1>1, <2>1 DEF PushConflict
    <3>2. push[d].i + 1 \in Nat
      BY <1>1, RequestFields
    <3>3. [push[d] EXCEPT !.i = push[d].i + 1]
            = [push[d] EXCEPT !.i = push[d].i + 1, !.seq = push[d].seq]
      BY <1>1, <3>2, RequestSkips
    <3> QED BY <3>1, <3>3
  <2>2. CASE PushNoop(d)
    <3>1. push' = [push EXCEPT ![d] =
                     [push[d] EXCEPT !.i = push[d].i + 1, !.seq = push[d].seq + 1]]
      BY <1>1, <2>2 DEF PushNoop
    <3> QED BY <3>1
  <2> QED BY <2>1, <2>2
<1>3. /\ push'[d].pc = "find" /\ push'[d].i = push[d].i + 1
      /\ push'[d].seq = n /\ push'[d].batch = push[d].batch
      /\ \A e \in Devices \ {d} : push'[e] = push[e]
  BY <1>1, <1>2 DEF PushRequest
<1>4. push[d].i \in 1..Len(push[d].batch) /\ push[d].seq \in base..(base + push[d].i - 1)
  BY <1>1, PendingChange DEF SeqInv, BlockUsed
<1>5. TypeOK'
  <2>1. [push[d] EXCEPT !.i = push[d].i + 1, !.seq = n] \in PushRequest
    <3>1. push[d].i + 1 \in Nat /\ n \in Nat
      BY <1>1, <1>2, RequestFields
    <3> QED BY <1>1, <3>1, RequestSkips
  <2>2. push' \in [Devices -> PushRequest]
    BY <1>1, <1>2, <2>1
  <2>3. StateTypeOK'
    BY <1>1 DEF SeqInv, TypeOK, StateTypeOK
  <2> QED BY <1>1, <2>2, <2>3, OnlyPushMoves DEF SeqInv, TypeOK, PushTypeOK
<1>6. LockHeld'
  BY <1>1, <1>3 DEF SeqInv, LockHeld, InTransaction, NoRows
<1>7. BlockUsed'
  <2> SUFFICES ASSUME NEW e \in Devices, InTransaction(e)'
      PROVE  /\ push'[e].i \in 1..(Len(push'[e].batch) + 1)
             /\ push'[e].pc = "find" =>
                  push'[e].seq \in lastSeq[UserOf[e]]..(lastSeq[UserOf[e]] + push'[e].i - 1)
             /\ push'[e].pc = "write" =>
                  /\ push'[e].i <= Len(push'[e].batch)
                  /\ push'[e].seq \in (lastSeq[UserOf[e]] + 1)..(lastSeq[UserOf[e]] + push'[e].i)
    BY <1>1 DEF BlockUsed
  <2>1. CASE e = d
    <3>1. /\ Len(push[d].batch) \in Nat /\ push[d].i \in Nat
          /\ push[d].seq \in Nat /\ n \in Nat
      BY <1>1, <1>2, RequestFields
    <3>2. push[d].i + 1 \in 1..(Len(push[d].batch) + 1)
      BY <1>4, <3>1
    <3>3. n \in base..(base + push[d].i + 1 - 1)
      BY <1>1, <1>4, <3>1
    <3>4. /\ push'[d].i \in 1..(Len(push'[d].batch) + 1)
          /\ push'[d].pc # "write"
          /\ push'[d].seq \in base..(base + push'[d].i - 1)
      <4>1. push'[d].i \in 1..(Len(push'[d].batch) + 1) /\ push'[d].pc # "write"
        BY <1>3, <3>2
      <4>2. base + push'[d].i - 1 = base + push[d].i + 1 - 1
        BY <1>1, <1>3, <3>1
      <4> QED BY <1>3, <3>3, <4>1, <4>2
    <3> QED BY <2>1, <3>4
  <2>2. CASE e # d
    BY <1>3, <2>2 DEF SeqInv, BlockUsed, InTransaction
  <2> QED BY <2>1, <2>2
<1>8. DraftNumbered'
  <2>1. \A i \in Ids : draft[d][i] # None => draft[d][i].seq \in Nat
    BY DEF SeqInv, TypeOK, StateTypeOK, Row
  <2>2. push[d].seq \in Nat
    BY <1>1 DEF PushRequest
  <2> QED BY <1>1, <1>3, <2>1, <2>2 DEF SeqInv, DraftNumbered
<1>9. WriteReady' /\ PushFoundStays'
  BY <1>1, <1>3, ZenonT(30)
  DEF SeqInv, WriteReady, PushFoundStays, Pending, Stored, Visible, OwnRow, webVars
<1> QED BY <1>1, <1>5, <1>6, <1>7, <1>8, <1>9, OnlyPushMoves DEF SeqInv

\* A push begins when nobody holds its account's counter, and then holds it.
LEMMA PushBeginKeeps ==
  ASSUME SeqInv, NEW d \in Devices, PushBegin(d), UNCHANGED <<webVars, pullVars>>
  PROVE  SeqInv'
<1> DEFINE u == UserOf[d]
<1>1. /\ push \in [Devices -> PushRequest] /\ pushes \in [Devices -> Nat]
      /\ lastSeq[u] \in Nat /\ u \in Users
      /\ lock \in [Users -> Devices \cup {None}]
  BY DevicesAssumption DEF SeqInv, TypeOK, PushTypeOK, StateTypeOK
<1>2. /\ push[d].pc = "idle" /\ lock[u] = None
      /\ lock' = [lock EXCEPT ![u] = d]
      /\ pushes' = [pushes EXCEPT ![d] = @ + 1]
      /\ UNCHANGED <<rows, draft, lastSeq, clients, cursor, held>>
  BY DEF PushBegin, AllocateInTx
<1>3. PICK batch \in Batches[d] : \E ordered \in orderChanges(batch) :
        push' = [push EXCEPT ![d] = [NoPush EXCEPT !.pc = "find",
                                       !.batch = ordered, !.seq = lastSeq[u]]]
  BY DEF PushBegin
<1>4. PICK ordered \in orderChanges(batch) :
        push' = [push EXCEPT ![d] = [NoPush EXCEPT !.pc = "find",
                                       !.batch = ordered, !.seq = lastSeq[u]]]
  BY <1>3
<1>5. ordered \in Seq(Change) /\ Len(ordered) \in Nat
  <2>1. batch \in Seq(Change)
    BY BatchesAssumption
  <2>2. ordered \in Seq(Change)
    BY <2>1, OrderedBatch
  <2> QED BY <2>2
<1> DEFINE r == [NoPush EXCEPT !.pc = "find", !.batch = ordered, !.seq = lastSeq[u]]
<1>6. /\ r \in PushRequest /\ r.pc = "find" /\ r.i = 1
      /\ r.batch = ordered /\ r.seq = lastSeq[u]
  <2> DEFINE B == Seq(Change)
  <2>1. PushRequest = [pc : {"idle", "find", "write", "reply"}, batch : B, i : Nat,
                       seq : Nat, existed : BOOLEAN, applied : SUBSET Nat]
    BY DEF PushRequest
  <2>2. ordered \in B
    BY <1>5
  <2> HIDE DEF B
  <2> QED BY <1>1, <2>1, <2>2 DEF NoPush
<1> HIDE DEF r
<1>7. push' = [push EXCEPT ![d] = r]
  BY <1>4 DEF r
<1>8. push'[d] = r /\ \A e \in Devices \ {d} : push'[e] = push[e]
  BY <1>1, <1>7
<1>9. lock'[u] = d /\ \A a \in Users \ {u} : lock'[a] = lock[a]
  BY <1>1, <1>2
<1>10. TypeOK'
  <2>1. push' \in [Devices -> PushRequest] /\ pushes' \in [Devices -> Nat]
    BY <1>1, <1>2, <1>6, <1>7
  <2>2. lock' \in [Users -> Devices \cup {None}]
    BY <1>1, <1>2
  <2>3. StateTypeOK'
    BY <1>2, <2>2 DEF SeqInv, TypeOK, StateTypeOK
  <2> QED BY <1>2, <2>1, <2>3, OnlyPushMoves DEF TypeOK, PushTypeOK
<1>11. draft[d] = NoRows /\ \A e \in Devices : UserOf[e] = u => ~InTransaction(e)
  BY <1>2, DevicesAssumption DEF SeqInv, LockHeld, InTransaction
<1>12. LockHeld'
  BY <1>2, <1>6, <1>8, <1>9, <1>11, DevicesAssumption
  DEF SeqInv, LockHeld, InTransaction, NoRows
<1>13. BlockUsed'
  <2>1. r.i \in 1..(Len(r.batch) + 1) /\ r.seq \in lastSeq[u]..(lastSeq[u] + r.i - 1)
    BY <1>1, <1>5, <1>6
  <2> QED BY <1>2, <1>6, <1>8, <2>1 DEF SeqInv, BlockUsed, InTransaction
<1>14. DraftNumbered'
  BY <1>2, <1>8, <1>11 DEF SeqInv, DraftNumbered, NoRows
<1>15. \A e \in Devices : push'[e].pc = "write" =>
         /\ push'[e] = push[e] /\ Pending(e)' = Pending(e) /\ Stored(e)' = Stored(e)
  BY <1>2, <1>6, <1>8 DEF Pending, Stored, Visible
<1>16. WriteReady'
  BY <1>15 DEF SeqInv, WriteReady, webVars
<1>17. PushFoundStays'
  BY <1>15 DEF SeqInv, PushFoundStays, OwnRow
<1> QED BY <1>2, <1>10, <1>12, <1>13, <1>14, <1>16, <1>17, OnlyPushMoves DEF SeqInv

\* The read before a write: the change will go to a row of the account, or to none.
LEMMA PushFindKeeps ==
  ASSUME SeqInv, NEW d \in Devices, PushFind(d), UNCHANGED <<webVars, pullVars>>
  PROVE  SeqInv'
<1> DEFINE base == lastSeq[UserOf[d]]
           c == Pending(d)
           r == [push[d] EXCEPT !.pc = "write", !.seq = push[d].seq + 1,
                                !.existed = (Stored(d) # None)]
<1>1. /\ push \in [Devices -> PushRequest] /\ push[d] \in PushRequest
      /\ base \in Nat /\ push[d].seq \in Nat /\ Len(push[d].batch) \in Nat
      /\ UNCHANGED shared /\ UNCHANGED pushes
      /\ push[d].pc = "find" /\ InTransaction(d) /\ ~Finished(d)
  BY DevicesAssumption, RequestFields
  DEF SeqInv, TypeOK, PushTypeOK, StateTypeOK, PushFind, Accepted, InTransaction
<1>2. push' = [push EXCEPT ![d] = r]
  BY <1>1 DEF PushFind
<1>3. /\ r \in PushRequest /\ r.pc = "write" /\ r.seq = push[d].seq + 1
      /\ r.i = push[d].i /\ r.batch = push[d].batch
      /\ r.existed = (Stored(d) # None)
  <2> DEFINE B == Seq(Change)
  <2>1. PushRequest = [pc : {"idle", "find", "write", "reply"}, batch : B, i : Nat,
                       seq : Nat, existed : BOOLEAN, applied : SUBSET Nat]
    BY DEF PushRequest
  <2>2. (Stored(d) # None) \in BOOLEAN /\ push[d].seq + 1 \in Nat
    BY <1>1
  <2> HIDE DEF B
  <2> QED BY <1>1, <2>1, <2>2
<1> HIDE DEF r
<1>4. push'[d] = r /\ \A e \in Devices \ {d} : push'[e] = push[e]
  BY <1>1, <1>2
<1>5. /\ c \in Change /\ c.id \in Ids
      /\ push[d].i \in 1..Len(push[d].batch)
      /\ push[d].seq \in base..(base + push[d].i - 1)
  BY <1>1, PendingChange DEF SeqInv, BlockUsed
<1>6. /\ c.op = "delete" => Stored(d) # None
      /\ c.op = "upsert" => /\ c.data # Malformed
                            /\ c.data = Partial => Stored(d) # None
      /\ Stored(d) # None => Stored(d).owner = UserOf[d]
  BY DEF PushFind, Accepted, Noop, Refused, Conflicts, NotOwned
<1>7. TypeOK'
  <2>1. push' \in [Devices -> PushRequest]
    BY <1>1, <1>2, <1>3
  <2>2. StateTypeOK'
    BY <1>1 DEF SeqInv, TypeOK, StateTypeOK
  <2> QED BY <1>1, <2>1, <2>2, OnlyPushMoves DEF SeqInv, TypeOK, PushTypeOK
<1>8. LockHeld'
  BY <1>1, <1>3, <1>4 DEF SeqInv, LockHeld, InTransaction, NoRows
<1>9. BlockUsed'
  <2>1. /\ r.i \in 1..(Len(r.batch) + 1) /\ r.i <= Len(r.batch)
        /\ r.seq \in (base + 1)..(base + r.i)
    <3>1. /\ push[d].i \in 1..(Len(push[d].batch) + 1)
          /\ push[d].i <= Len(push[d].batch)
          /\ push[d].seq + 1 \in (base + 1)..(base + push[d].i)
      BY <1>1, <1>5
    <3> QED BY <1>3, <3>1
  <2> QED BY <1>1, <1>3, <1>4, <2>1 DEF SeqInv, BlockUsed, InTransaction
<1>10. DraftNumbered'
  <2>1. \A i \in Ids : draft[d][i] # None => draft[d][i].seq \in Nat
    BY DEF SeqInv, TypeOK, StateTypeOK, Row
  <2> QED BY <1>1, <1>3, <1>4, <2>1 DEF SeqInv, DraftNumbered
<1>11. Pending(d)' = c /\ \A e \in Devices \ {d} : Pending(e)' = Pending(e)
  BY <1>3, <1>4 DEF Pending
<1>12. WriteReady'
  BY <1>1, <1>3, <1>4, <1>6, <1>11, ZenonT(30) DEF SeqInv, WriteReady, webVars
<1>13. \A e \in Devices : Stored(e)' = Stored(e)
  BY <1>1, <1>11 DEF Stored, Visible
<1>14. PushFoundStays'
  BY <1>3, <1>4, <1>6, <1>13 DEF SeqInv, PushFoundStays, OwnRow
<1> QED BY <1>1, <1>7, <1>8, <1>9, <1>10, <1>12, <1>14, OnlyPushMoves DEF SeqInv

\* The write: a row no other transaction has touched, under the number just given.
LEMMA PushWriteKeeps ==
  ASSUME SeqInv, NEW d \in Devices, PushWrite(d), UNCHANGED <<webVars, pullVars>>
  PROVE  SeqInv'
<1> DEFINE u == UserOf[d]
           base == lastSeq[u]
           c == Pending(d)
           new == Written(Stored(d), u, c, push[d].seq)
           r == [push[d] EXCEPT !.pc = "find", !.i = push[d].i + 1,
                                !.applied = push[d].applied \cup {push[d].i}]
<1>1. /\ push \in [Devices -> PushRequest] /\ push[d] \in PushRequest
      /\ draft \in [Devices -> [Ids -> Row \cup {None}]]
      /\ rows \in [Ids -> Row \cup {None}]
      /\ base \in Nat /\ push[d].seq \in Nat /\ Len(push[d].batch) \in Nat
      /\ u \in Users
  BY DevicesAssumption, RequestFields DEF SeqInv, TypeOK, PushTypeOK, StateTypeOK
<1>2. /\ push[d].pc = "write" /\ InTransaction(d)
      /\ push[d].i \in 1..Len(push[d].batch)
      /\ push[d].seq \in (base + 1)..(base + push[d].i)
  BY <1>1 DEF SeqInv, BlockUsed, PushWrite, InTransaction
<1>3. ~Finished(d)
  BY <1>1, <1>2 DEF Finished
<1>4. c \in Change /\ c.id \in Ids
  BY <1>2, <1>3, PendingChange
<1>5. /\ RowFree(d, c.id)
      /\ push[d].existed = (Stored(d) # None)
      /\ draft' = [draft EXCEPT ![d] = [draft[d] EXCEPT ![c.id] = new]]
      /\ UNCHANGED <<rows, lastSeq, lock, clients, cursor, held, pushes>>
  BY <1>1, <1>4 DEF PushWrite
<1>6. push' = [push EXCEPT ![d] = r]
  BY <1>1 DEF PushWrite
<1>7. /\ r \in PushRequest /\ r.pc = "find" /\ r.i = push[d].i + 1
      /\ r.seq = push[d].seq /\ r.batch = push[d].batch
  <2> DEFINE B == Seq(Change)
  <2>1. PushRequest = [pc : {"idle", "find", "write", "reply"}, batch : B, i : Nat,
                       seq : Nat, existed : BOOLEAN, applied : SUBSET Nat]
    BY DEF PushRequest
  <2>2. push[d].i + 1 \in Nat /\ push[d].applied \cup {push[d].i} \in SUBSET Nat
    BY <1>1, <1>2, RequestFields
  <2> HIDE DEF B
  <2> QED BY <1>1, <2>1, <2>2
<1> HIDE DEF r
<1>8. push'[d] = r /\ \A e \in Devices \ {d} : push'[e] = push[e]
  BY <1>1, <1>6
<1>9. Stored(d) \in Row \cup {None} /\ (Stored(d) # None => Stored(d).owner = u)
  <2>1. Stored(d) \in Row \cup {None}
    BY <1>1, <1>4 DEF Stored, Visible
  <2>2. Stored(d) # None => Stored(d).owner = u
    BY <1>2, <1>5 DEF SeqInv, PushFoundStays, OwnRow
  <2> QED BY <2>1, <2>2
<1>10. /\ new \in Row /\ new # None /\ new.owner = u /\ new.seq = push[d].seq
  <2>1. /\ c.op = "delete" => Stored(d) # None
        /\ c.op = "upsert" => /\ c.data # Malformed
                              /\ c.data = Partial => Stored(d) # None
    BY <1>2, <1>5 DEF SeqInv, WriteReady
  <2> DEFINE stored == Stored(d)
             s == push[d].seq
  <2>2. /\ stored \in Row \cup {None} /\ s \in Nat
        /\ c \in Change /\ u \in Users
        /\ stored # None => stored.owner = u
        /\ c.op = "delete" => stored # None
        /\ c.op = "upsert" => /\ c.data # Malformed
                              /\ c.data = Partial => stored # None
    BY <1>1, <1>4, <1>9, <2>1
  <2>3. new = Written(stored, u, c, s)
    OBVIOUS
  <2> HIDE DEF stored, s, c, u, new
  <2>4. /\ Written(stored, u, c, s) \in Row
        /\ Written(stored, u, c, s) # None
        /\ Written(stored, u, c, s).owner = u
        /\ Written(stored, u, c, s).seq = s
    BY <2>2, WrittenRow
  <2> QED BY <2>3, <2>4 DEF s
<1> HIDE DEF new
<1>11. /\ draft'[d][c.id] = new
       /\ \A i \in Ids \ {c.id} : draft'[d][i] = draft[d][i]
       /\ \A e \in Devices \ {d} : draft'[e] = draft[e]
  BY <1>1, <1>4, <1>5
<1>12. TypeOK'
  <2>1. push' \in [Devices -> PushRequest]
    BY <1>1, <1>6, <1>7
  <2>2. draft' \in [Devices -> [Ids -> Row \cup {None}]]
    BY <1>1, <1>4, <1>5, <1>10
  <2>3. StateTypeOK'
    BY <1>5, <2>2 DEF SeqInv, TypeOK, StateTypeOK
  <2>4. PushTypeOK' /\ WebTypeOK' /\ PullTypeOK'
    BY <1>5, <2>1
    DEF SeqInv, TypeOK, PushTypeOK, WebTypeOK, PullTypeOK, webVars, pullVars
  <2> QED BY <2>3, <2>4 DEF TypeOK
<1>13. SeqsDistinct' /\ WebNumbered' /\ WebFoundStays' /\ GotBounded'
  BY <1>5
  DEF SeqInv, SeqsDistinct, WebNumbered, WebFoundStays, GotBounded, OwnRow,
      webVars, pullVars
<1>14. LockHeld'
  BY <1>2, <1>5, <1>7, <1>8, <1>11 DEF SeqInv, LockHeld, InTransaction, NoRows
<1>15. BlockUsed'
  <2>1. r.i \in 1..(Len(r.batch) + 1) /\ r.seq \in base..(base + r.i - 1)
    <3>1. /\ push[d].i + 1 \in 1..(Len(push[d].batch) + 1)
          /\ push[d].seq \in base..(base + (push[d].i + 1) - 1)
      BY <1>1, <1>2
    <3> QED BY <1>7, <3>1
  <2> QED BY <1>5, <1>7, <1>8, <2>1 DEF SeqInv, BlockUsed, InTransaction
<1>16. DraftNumbered'
  <2>1. /\ \A i \in Ids : draft[d][i] # None =>
             /\ draft[d][i].owner = u /\ draft[d][i].seq > base
             /\ draft[d][i].seq < push[d].seq /\ draft[d][i].seq \in Nat
             /\ \A j \in Ids \ {i} :
                  draft[d][j] # None => draft[d][j].seq # draft[d][i].seq
    BY <1>1, <1>2 DEF SeqInv, DraftNumbered, Row
  <2>2. push[d].seq > base
    BY <1>1, <1>2
  <2>3. \A i \in Ids : draft'[d][i] # None =>
          /\ draft'[d][i].owner = u /\ draft'[d][i].seq > base
          /\ draft'[d][i].seq <= push'[d].seq /\ push'[d].pc # "write"
          /\ \A j \in Ids \ {i} :
               draft'[d][j] # None => draft'[d][j].seq # draft'[d][i].seq
    BY <1>1, <1>7, <1>8, <1>10, <1>11, <2>1, <2>2
  <2>4. \A e \in Devices \ {d} : draft'[e] = draft[e] /\ push'[e] = push[e]
    BY <1>8, <1>11
  <2> QED BY <1>5, <2>3, <2>4 DEF SeqInv, DraftNumbered
<1>17. DraftOwned'
  <2>1. \A e \in Devices \ {d} : draft[e][c.id] = None
    BY <1>5 DEF RowFree
  <2>2. rows[c.id] # None => rows[c.id].owner = u
    BY <1>4, <1>9 DEF SeqInv, DraftOwned, Stored, Visible
  <2> QED BY <1>5, <1>11, <2>1, <2>2 DEF SeqInv, DraftOwned
<1>18. \A e \in Devices : push'[e].pc = "write" =>
         /\ push'[e] = push[e] /\ Pending(e)' = Pending(e) /\ Stored(e)' = Stored(e)
  <2>1. push'[d].pc # "write"
    BY <1>7, <1>8
  <2>2. ASSUME NEW e \in Devices \ {d}
        PROVE  push'[e] = push[e] /\ Pending(e)' = Pending(e) /\ Stored(e)' = Stored(e)
    <3>1. push'[e] = push[e] /\ draft'[e] = draft[e] /\ rows' = rows
      BY <1>5, <1>8, <1>11
    <3>2. Pending(e)' = Pending(e)
      BY <3>1 DEF Pending
    <3> QED BY <3>1, <3>2 DEF Stored, Visible
  <2> QED BY <2>1, <2>2
<1>19. WriteReady'
  BY <1>18 DEF SeqInv, WriteReady, webVars
<1>20. PushFoundStays'
  BY <1>18 DEF SeqInv, PushFoundStays, OwnRow
<1> QED BY <1>12, <1>13, <1>14, <1>15, <1>16, <1>17, <1>19, <1>20 DEF SeqInv

\* A rollback gives the counter back and forgets the batch.
LEMMA RollbackKeeps ==
  ASSUME SeqInv, NEW d \in Devices, InTransaction(d), Rollback(d),
         UNCHANGED <<webVars, pullVars>>
  PROVE  SeqInv'
<1> DEFINE u == UserOf[d]
<1>1. /\ push \in [Devices -> PushRequest] /\ u \in Users
      /\ draft \in [Devices -> [Ids -> Row \cup {None}]]
      /\ lock \in [Users -> Devices \cup {None}]
  BY DevicesAssumption DEF SeqInv, TypeOK, PushTypeOK, StateTypeOK
<1>2. /\ lock' = [lock EXCEPT ![u] = None]
      /\ draft' = [draft EXCEPT ![d] = NoRows]
      /\ push' = [push EXCEPT ![d] = NoPush]
      /\ UNCHANGED <<rows, lastSeq, clients, cursor, held, pushes>>
  BY DEF Rollback, Release
<1>3. /\ push'[d] = NoPush /\ draft'[d] = NoRows /\ lock'[u] = None
      /\ \A e \in Devices \ {d} : push'[e] = push[e] /\ draft'[e] = draft[e]
      /\ \A a \in Users \ {u} : lock'[a] = lock[a]
  BY <1>1, <1>2
<1>4. NoPush \in PushRequest /\ NoPush.pc = "idle"
  BY DEF NoPush, PushRequest
<1>5. \A e \in Devices \ {d} : UserOf[e] = u => ~InTransaction(e) /\ draft[e] = NoRows
  BY OneTransaction
<1>6. TypeOK'
  <2>1. push' \in [Devices -> PushRequest]
    BY <1>1, <1>2, <1>4
  <2>2. draft' \in [Devices -> [Ids -> Row \cup {None}]]
    BY <1>1, <1>2 DEF NoRows
  <2>3. lock' \in [Users -> Devices \cup {None}]
    BY <1>1, <1>2
  <2>4. StateTypeOK'
    BY <1>2, <2>2, <2>3 DEF SeqInv, TypeOK, StateTypeOK
  <2>5. PushTypeOK' /\ WebTypeOK' /\ PullTypeOK'
    BY <1>2, <2>1
    DEF SeqInv, TypeOK, PushTypeOK, WebTypeOK, PullTypeOK, webVars, pullVars
  <2> QED BY <2>4, <2>5 DEF TypeOK
<1>7. SeqsDistinct' /\ WebNumbered' /\ WebFoundStays' /\ GotBounded'
  BY <1>2
  DEF SeqInv, SeqsDistinct, WebNumbered, WebFoundStays, GotBounded, OwnRow,
      webVars, pullVars
<1>8. LockHeld'
  BY <1>3, <1>4, <1>5, DevicesAssumption DEF SeqInv, LockHeld, InTransaction, NoRows
<1>9. BlockUsed'
  BY <1>2, <1>3, <1>4 DEF SeqInv, BlockUsed, InTransaction
<1>10. \A i \in Ids : draft'[d][i] = None
  BY <1>3 DEF NoRows
<1>11. DraftNumbered'
  BY <1>2, <1>3, <1>10 DEF SeqInv, DraftNumbered
<1>12. DraftOwned'
  BY <1>2, <1>3, <1>10 DEF SeqInv, DraftOwned
<1>13. \A e \in Devices : push'[e].pc = "write" =>
         /\ push'[e] = push[e] /\ Pending(e)' = Pending(e) /\ Stored(e)' = Stored(e)
  <2>1. push'[d].pc # "write"
    BY <1>3, <1>4
  <2>2. ASSUME NEW e \in Devices \ {d}
        PROVE  push'[e] = push[e] /\ Pending(e)' = Pending(e) /\ Stored(e)' = Stored(e)
    <3>1. push'[e] = push[e] /\ draft'[e] = draft[e] /\ rows' = rows
      BY <1>2, <1>3
    <3>2. Pending(e)' = Pending(e)
      BY <3>1 DEF Pending
    <3> QED BY <3>1, <3>2 DEF Stored, Visible
  <2> QED BY <2>1, <2>2
<1>14. WriteReady'
  BY <1>13 DEF SeqInv, WriteReady, webVars
<1>15. PushFoundStays'
  BY <1>13 DEF SeqInv, PushFoundStays, OwnRow
<1> QED BY <1>6, <1>7, <1>8, <1>9, <1>11, <1>12, <1>14, <1>15 DEF SeqInv

\* Where the rows of a commit come from: the account's drafts over what was there.
LEMMA CommittedRows ==
  ASSUME SeqInv, NEW d \in Devices, PushCommit(d), NEW i \in Ids
  PROVE  /\ rows'[i] = IF draft[d][i] # None THEN draft[d][i] ELSE rows[i]
         /\ draft[d][i] # None => draft[d][i].owner = UserOf[d]
         /\ rows[i] # None => rows'[i] # None /\ rows'[i].owner = rows[i].owner
<1>1. rows'[i] = IF draft[d][i] # None THEN draft[d][i] ELSE rows[i]
  BY DEF PushCommit, Visible
<1>2. draft[d][i] # None =>
        /\ draft[d][i].owner = UserOf[d]
        /\ rows[i] # None => rows[i].owner = UserOf[d]
  BY DEF SeqInv, DraftNumbered, DraftOwned
<1> QED BY <1>1, <1>2

\* At the commit the drafts take their place among the rows, under numbers above
\* every number of the account that was committed before.
LEMMA PushCommitKeeps ==
  ASSUME SeqInv, NEW d \in Devices, PushCommit(d), UNCHANGED <<webVars, pullVars>>
  PROVE  SeqInv'
<1> DEFINE u == UserOf[d]
           base == lastSeq[u]
           L == Len(push[d].batch)
           r == [push[d] EXCEPT !.pc = "reply"]
<1>1. /\ push \in [Devices -> PushRequest] /\ push[d] \in PushRequest
      /\ draft \in [Devices -> [Ids -> Row \cup {None}]]
      /\ rows \in [Ids -> Row \cup {None}]
      /\ lastSeq \in [Users -> Nat] /\ lock \in [Users -> Devices \cup {None}]
      /\ base \in Nat /\ push[d].seq \in Nat /\ L \in Nat /\ push[d].i \in Nat
      /\ u \in Users
  BY DevicesAssumption, RequestFields DEF SeqInv, TypeOK, PushTypeOK, StateTypeOK
<1>2. /\ push[d].pc = "find" /\ InTransaction(d) /\ push[d].i > L
      /\ rows' = [id \in Ids |-> Visible(d, id)]
      /\ lastSeq' = [lastSeq EXCEPT ![u] = base + L]
      /\ lock' = [lock EXCEPT ![u] = None]
      /\ draft' = [draft EXCEPT ![d] = NoRows]
      /\ UNCHANGED <<clients, cursor, held, pushes>>
  BY <1>1 DEF PushCommit, Release, Finished, InTransaction
<1>3. push' = [push EXCEPT ![d] = r]
  BY <1>1 DEF PushCommit
<1>4. r \in PushRequest /\ r.pc = "reply"
  <2> DEFINE B == Seq(Change)
  <2>1. PushRequest = [pc : {"idle", "find", "write", "reply"}, batch : B, i : Nat,
                       seq : Nat, existed : BOOLEAN, applied : SUBSET Nat]
    BY DEF PushRequest
  <2> HIDE DEF B
  <2> QED BY <1>1, <2>1
<1> HIDE DEF r
<1>5. /\ push'[d].pc = "reply" /\ draft'[d] = NoRows /\ lock'[u] = None
      /\ lastSeq'[u] = base + L
      /\ \A e \in Devices \ {d} : push'[e] = push[e] /\ draft'[e] = draft[e]
      /\ \A a \in Users \ {u} : lock'[a] = lock[a] /\ lastSeq'[a] = lastSeq[a]
  BY <1>1, <1>2, <1>3, <1>4
<1>6. \A a \in Users : lastSeq[a] \in Nat /\ lastSeq'[a] \in Nat /\ lastSeq[a] <= lastSeq'[a]
  BY <1>1, <1>5
<1>7. \A e \in Devices \ {d} : UserOf[e] = u => ~InTransaction(e) /\ draft[e] = NoRows
  BY <1>2, OneTransaction
<1>8. \A i \in Ids : rows'[i] = IF draft[d][i] # None THEN draft[d][i] ELSE rows[i]
  BY CommittedRows
<1>9. push[d].seq <= base + L
  <2>1. push[d].i \in 1..(L + 1) /\ push[d].seq \in base..(base + push[d].i - 1)
    BY <1>2 DEF SeqInv, BlockUsed
  <2> QED BY <1>1, <1>2, <2>1
<1>10. \A i \in Ids : draft[d][i] # None =>
         /\ draft[d][i] \in Row /\ draft[d][i].owner = u
         /\ draft[d][i].seq \in (base + 1)..(base + L)
         /\ rows[i] # None => rows[i].owner = u
         /\ \A e \in Devices \ {d} : draft[e][i] = None
         /\ \A j \in Ids \ {i} :
              draft[d][j] # None => draft[d][j].seq # draft[d][i].seq
  <2>1. \A i \in Ids : draft[d][i] # None =>
         /\ draft[d][i] \in Row /\ draft[d][i].seq \in Nat
    BY <1>1 DEF Row
  <2> QED BY <1>1, <1>9, <2>1 DEF SeqInv, DraftNumbered, DraftOwned
<1>11. \A i \in Ids : rows[i] # None =>
         rows'[i] # None /\ rows'[i].owner = rows[i].owner
  BY CommittedRows
<1>12. \A i \in Ids : rows[i] # None =>
         /\ rows[i].owner \in Users /\ rows[i].seq \in 1..lastSeq[rows[i].owner]
         /\ \A j \in Ids \ {i} :
              OwnRow(rows[i].owner, rows[j]) => rows[j].seq # rows[i].seq
  BY <1>1 DEF SeqInv, SeqsDistinct, Row
<1>13. TypeOK'
  <2>1. push' \in [Devices -> PushRequest]
    BY <1>1, <1>3, <1>4
  <2>2. draft' \in [Devices -> [Ids -> Row \cup {None}]]
    BY <1>1, <1>2 DEF NoRows
  <2>3. lock' \in [Users -> Devices \cup {None}] /\ lastSeq' \in [Users -> Nat]
    BY <1>1, <1>2
  <2>4. rows' \in [Ids -> Row \cup {None}]
    BY <1>1, <1>2 DEF Visible
  <2>5. StateTypeOK'
    BY <1>2, <2>2, <2>3, <2>4 DEF SeqInv, TypeOK, StateTypeOK
  <2>6. PushTypeOK' /\ WebTypeOK' /\ PullTypeOK'
    BY <1>2, <2>1
    DEF SeqInv, TypeOK, PushTypeOK, WebTypeOK, PullTypeOK, webVars, pullVars
  <2> QED BY <2>5, <2>6 DEF TypeOK
<1>14. SeqsDistinct'
  <2> SUFFICES ASSUME NEW i \in Ids, rows'[i] # None
      PROVE  /\ rows'[i].seq \in 1..lastSeq'[rows'[i].owner]
             /\ \A j \in Ids \ {i} :
                  OwnRow(rows'[i].owner, rows'[j]) => rows'[j].seq # rows'[i].seq
    BY DEF SeqsDistinct, OwnRow
  <2>1. CASE draft[d][i] # None
    <3>1. /\ rows'[i] = draft[d][i] /\ rows'[i].owner = u
          /\ rows'[i].seq \in (base + 1)..(base + L)
      BY <1>8, <1>10, <2>1
    <3>2. ASSUME NEW j \in Ids \ {i}, OwnRow(u, rows'[j])
          PROVE  rows'[j].seq # rows'[i].seq
      <4>1. CASE draft[d][j] # None
        BY <1>8, <1>10, <2>1, <3>1, <4>1
      <4>2. CASE draft[d][j] = None
        BY <1>1, <1>8, <1>12, <3>1, <3>2, <4>2 DEF OwnRow
      <4> QED BY <4>1, <4>2
    <3> QED BY <1>1, <1>5, <3>1, <3>2
  <2>2. CASE draft[d][i] = None
    <3>1. /\ rows'[i] = rows[i] /\ rows[i].owner \in Users
          /\ rows[i].seq \in 1..lastSeq[rows[i].owner]
      BY <1>8, <1>12, <2>2
    <3>2. ASSUME NEW j \in Ids \ {i}, OwnRow(rows[i].owner, rows'[j])
          PROVE  rows'[j].seq # rows[i].seq
      <4>1. CASE draft[d][j] # None
        BY <1>1, <1>8, <1>10, <3>1, <3>2, <4>1 DEF OwnRow
      <4>2. CASE draft[d][j] = None
        BY <1>8, <1>12, <2>2, <3>1, <3>2, <4>2
      <4> QED BY <4>1, <4>2
    <3> QED BY <1>6, <3>1, <3>2
  <2> QED BY <2>1, <2>2
<1>15. LockHeld'
  BY <1>5, <1>7, DevicesAssumption DEF SeqInv, LockHeld, InTransaction, NoRows
<1>16. BlockUsed'
  <2> SUFFICES ASSUME NEW e \in Devices \ {d}, InTransaction(e)
      PROVE  push'[e] = push[e] /\ lastSeq'[UserOf[e]] = lastSeq[UserOf[e]]
    BY <1>5 DEF SeqInv, BlockUsed, InTransaction
  <2>1. UserOf[e] \in Users \ {u}
    BY <1>7, DevicesAssumption
  <2> QED BY <1>5, <2>1
<1>17. DraftNumbered'
  <2>1. \A i \in Ids : draft'[d][i] = None
    BY <1>5 DEF NoRows
  <2>2. ASSUME NEW e \in Devices \ {d}, NEW i \in Ids, draft[e][i] # None
        PROVE  lastSeq'[UserOf[e]] = lastSeq[UserOf[e]]
    <3>1. UserOf[e] \in Users \ {u}
      BY <1>7, <2>2, DevicesAssumption DEF NoRows
    <3> QED BY <1>5, <3>1
  <2> QED BY <1>5, <2>1, <2>2 DEF SeqInv, DraftNumbered
<1>18. DraftOwned'
  <2>1. \A i \in Ids : draft'[d][i] = None
    BY <1>5 DEF NoRows
  <2>2. ASSUME NEW e \in Devices \ {d}, NEW i \in Ids, draft[e][i] # None
        PROVE  rows'[i] = rows[i]
    BY <1>8, <1>10, <2>2
  <2> QED BY <1>5, <2>1, <2>2 DEF SeqInv, DraftOwned
<1>19. \A e \in Devices : push'[e].pc = "write" =>
         /\ e # d /\ push'[e] = push[e] /\ Pending(e)' = Pending(e)
  BY <1>5 DEF Pending
<1>20. WriteReady'
  BY <1>2, <1>19 DEF SeqInv, WriteReady, webVars
<1>21. PushFoundStays'
  <2> SUFFICES ASSUME NEW e \in Devices, push'[e].pc = "write", push'[e].existed
      PROVE  OwnRow(UserOf[e], Stored(e)')
    BY DEF PushFoundStays, OwnRow
  <2> DEFINE i == Pending(e).id
  <2>1. /\ push[e].pc = "write" /\ push[e].existed /\ e # d
        /\ Pending(e)' = Pending(e) /\ draft'[e] = draft[e]
    BY <1>5, <1>19
  <2>2. i \in Ids
    <3>1. /\ InTransaction(e) /\ push[e] \in PushRequest
          /\ push[e].i \in 1..Len(push[e].batch)
      BY <1>1, <2>1 DEF SeqInv, BlockUsed, InTransaction
    <3>2. ~Finished(e)
      BY <3>1, RequestFields DEF Finished
    <3> QED BY <3>1, <3>2, PendingChange
  <2>3. OwnRow(UserOf[e], Visible(e, i))
    BY <2>1 DEF SeqInv, PushFoundStays, Stored
  <2>4. Stored(e)' = IF draft[e][i] # None THEN draft[e][i] ELSE rows'[i]
    BY <2>1 DEF Stored, Visible
  <2> HIDE DEF i
  <2> QED BY <1>11, <2>2, <2>3, <2>4 DEF OwnRow, Visible
<1>22. WebFoundStays'
  <2>1. web' = web /\ \A w \in Handlers : web[w].pc # "idle" => web[w].id \in Ids
    BY DEF SeqInv, WriteReady, webVars
  <2> QED BY <1>11, <2>1 DEF SeqInv, WebFoundStays, OwnRow
<1>23. WebNumbered'
  <2>1. web' = web
    BY DEF webVars
  <2>2. ASSUME NEW w \in Handlers, web[w].pc = "write"
        PROVE  /\ web[w].seq \in 1..lastSeq'[WebUser[w]]
               /\ \A i \in Ids :
                    OwnRow(WebUser[w], rows'[i]) => rows'[i].seq # web[w].seq
    <3>1. /\ WebUser[w] \in Users /\ web[w].seq \in 1..lastSeq[WebUser[w]]
          /\ \A i \in Ids : OwnRow(WebUser[w], rows[i]) => rows[i].seq # web[w].seq
      BY <2>2, HandlersAssumption DEF SeqInv, WebNumbered
    <3>2. web[w].seq \in 1..lastSeq'[WebUser[w]]
      BY <1>6, <3>1
    <3>3. ASSUME NEW i \in Ids, OwnRow(WebUser[w], rows'[i])
          PROVE  rows'[i].seq # web[w].seq
      <4>1. CASE draft[d][i] # None
        BY <1>1, <1>8, <1>10, <3>1, <3>3, <4>1 DEF OwnRow
      <4>2. CASE draft[d][i] = None
        BY <1>8, <3>1, <3>3, <4>2
      <4> QED BY <4>1, <4>2
    <3> QED BY <3>2, <3>3
  <2> QED BY <2>1, <2>2 DEF SeqInv, WebNumbered, OwnRow
<1>24. GotBounded'
  <2>1. pull' = pull
    BY DEF pullVars
  <2>2. ASSUME NEW e \in Devices, NEW x \in pull[e].got
        PROVE  x.row.seq <= lastSeq'[UserOf[e]]
    <3>1. pull[e].got \subseteq Entry
      BY DEF SeqInv, TypeOK, PullTypeOK
    <3>2. x.row.seq \in Nat /\ x.row.seq <= lastSeq[UserOf[e]] /\ UserOf[e] \in Users
      BY <2>2, <3>1, DevicesAssumption DEF SeqInv, GotBounded, Entry, Row
    <3> QED BY <1>6, <3>2
  <2> QED BY <2>1, <2>2 DEF GotBounded
<1> QED
  BY <1>13, <1>14, <1>15, <1>16, <1>17, <1>18, <1>20, <1>21, <1>22, <1>23, <1>24
  DEF SeqInv

\* The reply moves positions only: the transaction is over.
LEMMA PushReplyKeeps ==
  ASSUME SeqInv, NEW d \in Devices, PushReply(d), UNCHANGED <<webVars, pullVars>>
  PROVE  SeqInv'
<1>1. /\ push \in [Devices -> PushRequest] /\ push[d] \in PushRequest /\ TypeOK
      /\ cursor \in [Devices -> Nat] /\ clients \in [Devices -> Nat \cup {None}]
      /\ push[d].seq \in Nat
  BY RequestFields DEF SeqInv, TypeOK, PushTypeOK, StateTypeOK
<1>2. /\ push[d].pc = "reply" /\ ~InTransaction(d)
      /\ Touch(d, Position(d)) /\ cursor' \in CursorsAfterReply(d)
      /\ push' = [push EXCEPT ![d] = NoPush]
      /\ UNCHANGED <<rows, draft, lastSeq, lock, held, pushes>>
  BY DEF PushReply, InTransaction
<1>3. NoPush \in PushRequest /\ NoPush.pc = "idle"
  BY DEF NoPush, PushRequest
<1>4. /\ push'[d] = NoPush
      /\ \A e \in Devices \ {d} : push'[e] = push[e]
  BY <1>1, <1>2
<1>5. \A i \in Ids : draft[d][i] = None
  BY <1>2 DEF SeqInv, LockHeld, NoRows
<1>6. PushTypeOK' /\ StateTypeOK'
  <2>1. Position(d) \in Nat
    BY <1>1 DEF Position
  <2>2. clients' \in [Devices -> Nat \cup {None}]
    BY <1>1, <1>2, <2>1, TouchType
  <2>3. cursor' \in [Devices -> Nat]
    BY <1>1, <1>2 DEF CursorsAfterReply
  <2>4. push' \in [Devices -> PushRequest]
    BY <1>1, <1>2, <1>3
  <2> QED
    BY <1>2, <2>2, <2>3, <2>4 DEF SeqInv, TypeOK, PushTypeOK, StateTypeOK
<1>7. /\ WebTypeOK' /\ PullTypeOK' /\ SeqsDistinct' /\ DraftOwned'
      /\ WebFoundStays' /\ WebNumbered' /\ GotBounded'
  BY <1>2, OnlyPushMoves
<1>8. LockHeld'
  BY <1>2, <1>3, <1>4 DEF SeqInv, LockHeld, InTransaction, NoRows
<1>9. BlockUsed'
  BY <1>2, <1>3, <1>4 DEF SeqInv, BlockUsed, InTransaction
<1>10. DraftNumbered'
  BY <1>2, <1>4, <1>5 DEF SeqInv, DraftNumbered
<1>11. \A e \in Devices : push'[e].pc = "write" =>
         /\ push'[e] = push[e] /\ Pending(e)' = Pending(e) /\ Stored(e)' = Stored(e)
  <2>1. push'[d].pc # "write"
    BY <1>3, <1>4
  <2>2. ASSUME NEW e \in Devices \ {d}
        PROVE  push'[e] = push[e] /\ Pending(e)' = Pending(e) /\ Stored(e)' = Stored(e)
    <3>1. push'[e] = push[e] /\ draft'[e] = draft[e] /\ rows' = rows
      BY <1>2, <1>4
    <3>2. Pending(e)' = Pending(e)
      BY <3>1 DEF Pending
    <3> QED BY <3>1, <3>2 DEF Stored, Visible
  <2> QED BY <2>1, <2>2
<1>12. WriteReady'
  BY <1>11 DEF SeqInv, WriteReady, webVars
<1>13. PushFoundStays'
  BY <1>11 DEF SeqInv, PushFoundStays, OwnRow
<1> QED BY <1>6, <1>7, <1>8, <1>9, <1>10, <1>12, <1>13 DEF SeqInv, TypeOK

\* Every step of a push preserves the invariant.
LEMMA PushKeeps ==
  ASSUME SeqInv, NEW d \in Devices, PushStep(d), UNCHANGED <<webVars, pullVars>>
  PROVE  SeqInv'
<1>1. CASE PushBegin(d)
  BY <1>1, PushBeginKeeps
<1>2. CASE PushConflict(d) \/ PushNoop(d)
  BY <1>2, PushSkipKeeps
<1>3. CASE PushRefuse(d) \/ PushCollide(d) \/ PushFail(d)
  <2>1. InTransaction(d) /\ Rollback(d)
    BY <1>3 DEF PushRefuse, PushCollide, PushFail, Accepted, InTransaction
  <2> QED BY <2>1, RollbackKeeps
<1>4. CASE PushFind(d)
  BY <1>4, PushFindKeeps
<1>5. CASE PushWrite(d)
  BY <1>5, PushWriteKeeps
<1>6. CASE PushCommit(d)
  BY <1>6, PushCommitKeeps
<1>7. CASE PushReply(d)
  BY <1>7, PushReplyKeeps
<1> QED BY <1>1, <1>2, <1>3, <1>4, <1>5, <1>6, <1>7 DEF PushStep

-----------------------------------------------------------------------------
(* The invariant of the specification                                      *)

\* An empty database, idle devices and handlers.
LEMMA SeqInvInit == Init => SeqInv
<1> SUFFICES ASSUME Init PROVE SeqInv
  OBVIOUS
<1> USE DEF Init, StateInit, PushInit, WebInit, PullInit
<1>1. \A d \in Devices : /\ push[d] = NoPush /\ push[d].pc = "idle"
                         /\ draft[d] = NoRows /\ pull[d] = NoPull /\ pull[d].got = {}
  BY DEF NoPush, NoPull
<1>2. /\ \A w \in Handlers : web[w].pc = "idle"
      /\ \A i \in Ids : rows[i] = None /\ NoRows[i] = None
  BY DEF NoRequest, NoRows
<1>3. StateTypeOK
  BY DEF StateTypeOK, NoRows
<1>4. PushTypeOK /\ WebTypeOK
  <2>1. NoPush \in PushRequest /\ NoRequest \in WebRequest
    BY DEF NoPush, PushRequest, NoRequest, WebRequest
  <2> QED BY <2>1 DEF PushTypeOK, WebTypeOK
<1>5. PullTypeOK
  <2>1. NoPull \in [table : 0..(NTables + 1), since : Nat,
                    got : SUBSET Entry, more : BOOLEAN]
    BY TablesAssumption DEF NoPull
  <2>2. NoRows \in [Ids -> Row \cup {None}]
    BY DEF NoRows
  <2> QED BY <2>1, <2>2 DEF PullTypeOK
<1>6. LockHeld /\ BlockUsed
  BY <1>1, DevicesAssumption DEF LockHeld, BlockUsed, InTransaction
<1>7. SeqsDistinct /\ DraftNumbered /\ DraftOwned
  BY <1>1, <1>2 DEF SeqsDistinct, DraftNumbered, DraftOwned
<1>8. WriteReady /\ PushFoundStays
  BY <1>1, <1>2 DEF WriteReady, PushFoundStays
<1>9. WebFoundStays /\ WebNumbered /\ GotBounded
  BY <1>1, <1>2 DEF WebFoundStays, WebNumbered, GotBounded
<1> QED BY <1>3, <1>4, <1>5, <1>6, <1>7, <1>8, <1>9 DEF SeqInv, TypeOK

\* A step that changes nothing.
LEMMA StutterKeeps == SeqInv /\ UNCHANGED vars => SeqInv'
<1> SUFFICES ASSUME SeqInv, UNCHANGED vars PROVE SeqInv'
  OBVIOUS
<1>1. UNCHANGED <<shared, pushVars, webVars, pullVars>>
  BY DEF vars
<1>2. /\ SeqsDistinct' /\ LockHeld' /\ BlockUsed' /\ DraftNumbered'
      /\ DraftOwned' /\ WriteReady' /\ WebNumbered'
      /\ PushFoundStays' /\ WebFoundStays'
  BY <1>1, WritersUntouched DEF pushVars, webVars
<1>3. TypeOK'
  BY <1>1
  DEF SeqInv, TypeOK, StateTypeOK, PushTypeOK, WebTypeOK, PullTypeOK,
      pushVars, webVars, pullVars
<1>4. GotBounded'
  BY <1>1 DEF SeqInv, GotBounded, pullVars
<1> QED BY <1>2, <1>3, <1>4 DEF SeqInv

\* Every step preserves the invariant.
LEMMA SeqInvStep == SeqInv /\ [Next]_vars => SeqInv'
<1> SUFFICES ASSUME SeqInv, [Next]_vars PROVE SeqInv'
  OBVIOUS
<1>1. ASSUME NEW d \in Devices, PushStep(d), UNCHANGED <<webVars, pullVars>>
      PROVE  SeqInv'
  BY <1>1, PushKeeps
<1>2. ASSUME NEW w \in Handlers, CrudStep(w), UNCHANGED <<pushVars, pullVars>>
      PROVE  SeqInv'
  BY <1>2, CrudKeeps
<1>3. ASSUME NEW d \in Devices, PullStep(d), UNCHANGED <<pushVars, webVars>>
      PROVE  SeqInv'
  BY <1>3, PullKeeps
<1>4. CASE UNCHANGED vars
  BY <1>4, StutterKeeps
<1> QED BY <1>1, <1>2, <1>3, <1>4 DEF Next

\* SeqInv holds in every reachable state: the types, SeqsDistinct and the facts
\* about locks, blocks and drafts they rest on.
THEOREM SeqInvariant == Spec => []SeqInv
BY SeqInvInit, SeqInvStep, PTL DEF Spec

\* Every variable of Sync keeps its type.
THEOREM TypeCorrect == Spec => []TypeOK
<1>1. SeqInv => TypeOK
  BY DEF SeqInv
<1> QED BY SeqInvariant, <1>1, PTL

\* No two rows of an account ever carry the same number, and none lies above its
\* counter, for any set of devices, web handlers, tables and batches: the number
\* a pull resumes after (sync_state in schema.prisma, allocateSeq) is a position.
THEOREM SeqsAreDistinct == Spec => []SeqsDistinct
<1>1. SeqInv => SeqsDistinct
  BY DEF SeqInv
<1> QED BY SeqInvariant, <1>1, PTL

-----------------------------------------------------------------------------
(* Whose rows a step changes                                               *)

\* A push changes rows at its commit only, and only its own account's.
LEMMA PushOwnRows ==
  ASSUME SeqInv, NEW d \in Devices, PushStep(d)
  PROVE  OwnRowsStep
<1>1. CASE PushCommit(d)
  <2> SUFFICES ASSUME NEW i \in Ids, rows'[i] # rows[i]
      PROVE  /\ rows'[i] # None
             /\ rows[i] # None => rows'[i].owner = rows[i].owner
             /\ UserOf[d] = rows'[i].owner /\ push'[d] # push[d]
    BY DEF OwnRowsStep
  <2>1. /\ rows'[i] = draft[d][i] /\ rows'[i] # None /\ rows'[i].owner = UserOf[d]
        /\ rows[i] # None => rows'[i].owner = rows[i].owner
    BY <1>1, CommittedRows
  <2>2. push'[d] # push[d]
    <3>1. push[d].pc = "find" /\ push \in [Devices -> PushRequest]
      BY <1>1 DEF PushCommit, SeqInv, TypeOK, PushTypeOK
    <3>2. push[d] \in PushRequest /\ push'[d] = [push[d] EXCEPT !.pc = "reply"]
      BY <1>1, <3>1 DEF PushCommit
    <3>3. push'[d].pc = "reply"
      <4> DEFINE B == Seq(Change)
      <4>1. PushRequest = [pc : {"idle", "find", "write", "reply"}, batch : B,
                           i : Nat, seq : Nat, existed : BOOLEAN,
                           applied : SUBSET Nat]
        BY DEF PushRequest
      <4> HIDE DEF B
      <4> QED BY <3>2, <4>1
    <3> QED BY <3>1, <3>3
  <2> QED BY <2>1, <2>2
<1>2. CASE ~PushCommit(d)
  <2>1. UNCHANGED rows
    BY <1>2
    DEF PushStep, PushBegin, PushConflict, PushNoop, PushRefuse, PushFind, PushWrite,
        PushCollide, PushFail, PushReply, Rollback
  <2> QED BY <2>1 DEF OwnRowsStep
<1> QED BY <1>1, <1>2

\* A web request changes a row at its write only, and only its own account's.
LEMMA WebOwnRows ==
  ASSUME SeqInv, NEW w \in Handlers, CrudStep(w)
  PROVE  OwnRowsStep
<1>1. CASE CrudWrite(w)
  <2> SUFFICES ASSUME NEW i \in Ids, rows'[i] # rows[i]
      PROVE  /\ rows'[i] # None
             /\ rows[i] # None => rows'[i].owner = rows[i].owner
             /\ WebUser[w] = rows'[i].owner /\ web'[w] # web[w]
    BY DEF OwnRowsStep
  <2> DEFINE id == web[w].id
  <2>1. /\ rows \in [Ids -> Row \cup {None}] /\ web \in [Handlers -> WebRequest]
    BY DEF SeqInv, TypeOK, StateTypeOK, WebTypeOK
  <2>2. rows' = [rows EXCEPT ![id] = rows'[id]]
    BY <1>1, WebRow
  <2>3. i = id
    BY <2>1, <2>2
  <2>4. /\ rows'[id] # None /\ rows'[id].owner = WebUser[w]
        /\ rows[id] # None => rows[id].owner = WebUser[w]
    BY <1>1, <2>3, WebRow
  <2>5. web[w].pc = "write" /\ web'[w].pc = "idle"
    BY <1>1, <2>1 DEF CrudWrite, NoRequest
  <2> QED BY <2>3, <2>4, <2>5
<1>2. CASE ~CrudWrite(w)
  <2>1. UNCHANGED rows
    BY <1>2 DEF CrudStep, CrudCreate, CrudFind, Start, CrudSeq, CrudDie
  <2> QED BY <2>1 DEF OwnRowsStep
<1> QED BY <1>1, <1>2

\* Whatever pushes and web requests run at once, each account's rows are changed
\* by its own requests only, keep their owner and are never removed (the not_owned
\* branch of push, the scope of ScopedCrudService, soft deletes).
THEOREM AccountsApart == Spec => OwnRowsOnly
<1>1. SeqInv /\ [Next]_vars => [OwnRowsStep]_vars
  <2> SUFFICES ASSUME SeqInv, Next PROVE OwnRowsStep
    OBVIOUS
  <2>1. ASSUME NEW d \in Devices, PushStep(d) PROVE OwnRowsStep
    BY <2>1, PushOwnRows
  <2>2. ASSUME NEW w \in Handlers, CrudStep(w) PROVE OwnRowsStep
    BY <2>2, WebOwnRows
  <2>3. ASSUME NEW d \in Devices, PullStep(d) PROVE OwnRowsStep
    <3>1. UNCHANGED rows
      BY <2>3 DEF PullStep, PullBegin, PullTable, PullDeliver, PullLost, PullDie, Answer
    <3> QED BY <3>1 DEF OwnRowsStep
  <2> QED BY <2>1, <2>2, <2>3 DEF Next
<1> QED BY SeqInvariant, <1>1, PTL DEF Spec, OwnRowsOnly
=============================================================================
