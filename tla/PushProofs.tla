------------------------------ MODULE PushProofs ------------------------------
(***************************************************************************)
(* What a push promises its device, for any accounts, devices, tables and  *)
(* batches: a change it counts as applied is in the database once it       *)
(* commits (AppliedLands), and, while pushes are the only writers, the     *)
(* newest change to a row wins (NewestWins).                               *)
(*                                                                         *)
(* AppliedInv and NewestInv are the inductive invariants.  They follow a   *)
(* batch from one change to the next: what the transaction has written,    *)
(* what it has found, and that no other request gets at either.            *)
(***************************************************************************)
EXTENDS PullProofs

USE DEF shared, server, device

-----------------------------------------------------------------------------
(* A push in its transaction                                               *)

\* A step is one of the push of d, or leaves that push and its rows alone.
LEMMA PushOrNot ==
  ASSUME SeqInv, [Next]_vars, NEW d \in Devices
  PROVE  PushStep(d) \/ (push'[d] = push[d] /\ draft'[d] = draft[d])
<1>1. /\ push \in [Devices -> PushRequest]
      /\ draft \in [Devices -> [Ids -> Row \cup {None}]]
  BY DEF SeqInv, TypeOK, PushTypeOK, StateTypeOK
<1> HIDE DEF PushRequest
<1>2. ASSUME NEW e \in Devices \ {d}, PushStep(e)
      PROVE  push'[d] = push[d] /\ draft'[d] = draft[d]
  <2>1. CASE PushRefuse(e) \/ PushCollide(e) \/ PushFail(e)
    BY <1>1, <2>1 DEF PushRefuse, PushCollide, PushFail, Rollback, Release
  <2>2. CASE PushBegin(e) \/ PushCommit(e) \/ PushReply(e)
    BY <1>1, <2>2 DEF PushBegin, PushCommit, PushReply, Release
  <2>3. CASE PushConflict(e) \/ PushNoop(e) \/ PushFind(e) \/ PushWrite(e)
    BY <1>1, <2>3 DEF PushConflict, PushNoop, PushFind, PushWrite
  <2> QED BY <1>2, <2>1, <2>2, <2>3 DEF PushStep
<1>3. ASSUME NEW w \in Handlers, CrudStep(w), UNCHANGED pushVars
      PROVE  push'[d] = push[d] /\ draft'[d] = draft[d]
  BY <1>3 DEF CrudStep, CrudCreate, CrudFind, Start, CrudSeq, CrudWrite, CrudDie, pushVars
<1>4. ASSUME NEW e \in Devices, PullStep(e), UNCHANGED pushVars
      PROVE  push'[d] = push[d] /\ draft'[d] = draft[d]
  BY <1>4
  DEF PullStep, PullBegin, PullTable, PullDeliver, PullLost, PullDie, Answer, pushVars
<1>5. CASE UNCHANGED vars
  BY <1>5 DEF vars, pushVars
<1> QED BY <1>2, <1>3, <1>4, <1>5 DEF Next

\* A push that begins has its batch before it, and nothing written.
LEMMA PushBegins ==
  ASSUME SeqInv, NEW d \in Devices, PushBegin(d)
  PROVE  /\ push'[d].pc = "find" /\ push'[d].i = 1 /\ push'[d].applied = {}
         /\ \E b \in Seq(Change) : push'[d].batch \in orderChanges(b)
         /\ \A i \in Ids : draft'[d][i] = None
<1>1. push \in [Devices -> PushRequest] /\ push[d].pc = "idle" /\ UNCHANGED draft
  BY DEF SeqInv, TypeOK, PushTypeOK, PushBegin
<1>2. PICK b \in Batches[d] : \E ordered \in orderChanges(b) :
        push' = [push EXCEPT ![d] =
                   [NoPush EXCEPT !.pc = "find", !.batch = ordered,
                                  !.seq = lastSeq[UserOf[d]]]]
  BY DEF PushBegin
<1>3. PICK ordered \in orderChanges(b) :
        push' = [push EXCEPT ![d] =
                   [NoPush EXCEPT !.pc = "find", !.batch = ordered,
                                  !.seq = lastSeq[UserOf[d]]]]
  BY <1>2
<1>4. /\ push'[d].pc = "find" /\ push'[d].i = 1 /\ push'[d].applied = {}
      /\ push'[d].batch = ordered
  BY <1>1, <1>3 DEF NoPush
<1>5. b \in Seq(Change)
  BY BatchesAssumption
<1>6. draft[d] = NoRows
  BY <1>1 DEF SeqInv, LockHeld, InTransaction
<1> QED BY <1>1, <1>4, <1>5, <1>6 DEF NoRows

\* A change that conflicts or deletes nothing is passed over.
LEMMA PushSkips ==
  ASSUME SeqInv, NEW d \in Devices, PushConflict(d) \/ PushNoop(d)
  PROVE  /\ push[d].pc = "find" /\ ~Finished(d)
         /\ Conflicts(Stored(d), UserOf[d], Pending(d)) \/ Stored(d) = None
         /\ push'[d].pc = "find" /\ push'[d].i = push[d].i + 1
         /\ push'[d].batch = push[d].batch /\ push'[d].applied = push[d].applied
         /\ UNCHANGED <<rows, draft>>
<1>1. push \in [Devices -> PushRequest] /\ push[d] \in PushRequest
  BY DEF SeqInv, TypeOK, PushTypeOK
<1>2. /\ push[d].pc = "find" /\ ~Finished(d)
      /\ Conflicts(Stored(d), UserOf[d], Pending(d)) \/ Stored(d) = None
      /\ UNCHANGED <<rows, draft>>
  BY DEF PushConflict, PushNoop, Accepted, Noop
<1>3. CASE PushConflict(d)
  BY <1>1, <1>2, <1>3 DEF PushConflict, PushRequest
<1>4. CASE PushNoop(d)
  BY <1>1, <1>2, <1>4 DEF PushNoop, PushRequest
<1> QED BY <1>3, <1>4

\* A change that is accepted is newer than the row it was compared with.
LEMMA PushFinds ==
  ASSUME SeqInv, NEW d \in Devices, PushFind(d)
  PROVE  /\ push[d].pc = "find" /\ ~Finished(d)
         /\ ~Conflicts(Stored(d), UserOf[d], Pending(d))
         /\ push'[d].pc = "write" /\ push'[d].i = push[d].i
         /\ push'[d].batch = push[d].batch /\ push'[d].applied = push[d].applied
         /\ push'[d].existed = (Stored(d) # None)
         /\ UNCHANGED <<rows, draft>>
<1>1. push \in [Devices -> PushRequest] /\ push[d] \in PushRequest
  BY DEF SeqInv, TypeOK, PushTypeOK
<1>2. /\ push[d].pc = "find" /\ ~Finished(d)
      /\ ~Conflicts(Stored(d), UserOf[d], Pending(d))
      /\ UNCHANGED <<rows, draft>>
  BY DEF PushFind, Accepted
<1> QED BY <1>1, <1>2 DEF PushFind, PushRequest

\* A write leaves in the draft the row the change asked for.
LEMMA PushWrites ==
  ASSUME SeqInv, NEW d \in Devices, PushWrite(d)
  PROVE  /\ push[d].pc = "write" /\ push[d].i \in 1..Len(push[d].batch)
         /\ Pending(d) \in Change
         /\ push[d].existed = (Stored(d) # None)
         /\ Shows(draft'[d][Pending(d).id], Pending(d))
         /\ \A i \in Ids \ {Pending(d).id} : draft'[d][i] = draft[d][i]
         /\ push'[d].pc = "find" /\ push'[d].i = push[d].i + 1
         /\ push'[d].batch = push[d].batch
         /\ push'[d].applied = push[d].applied \cup {push[d].i}
         /\ UNCHANGED rows
<1> DEFINE c == Pending(d)
           new == Written(Stored(d), UserOf[d], c, push[d].seq)
<1>1. /\ push \in [Devices -> PushRequest] /\ push[d] \in PushRequest
      /\ draft \in [Devices -> [Ids -> Row \cup {None}]]
      /\ rows \in [Ids -> Row \cup {None}]
  BY DEF SeqInv, TypeOK, PushTypeOK, StateTypeOK
<1>2. /\ push[d].pc = "write" /\ push[d].i \in Nat /\ Len(push[d].batch) \in Nat
      /\ push[d].i <= Len(push[d].batch) /\ InTransaction(d)
  BY <1>1, RequestFields DEF PushWrite, InTransaction, SeqInv, BlockUsed
<1>3. ~Finished(d)
  BY <1>2 DEF Finished
<1>4. c \in Change /\ c.id \in Ids /\ push[d].i \in 1..Len(push[d].batch)
  BY <1>2, <1>3, PendingChange
<1>5. /\ push[d].existed = (Stored(d) # None) /\ UNCHANGED rows
      /\ draft' = [draft EXCEPT ![d] = [draft[d] EXCEPT ![c.id] = new]]
  BY <1>1, <1>4 DEF PushWrite
<1>6. /\ push'[d].pc = "find" /\ push'[d].i = push[d].i + 1
      /\ push'[d].batch = push[d].batch
      /\ push'[d].applied = push[d].applied \cup {push[d].i}
  BY <1>1 DEF PushWrite, PushRequest
<1>7. Shows(new, c)
  <2>1. /\ Stored(d) \in Row \cup {None}
        /\ c.op = "delete" => Stored(d) # None
        /\ c.op = "upsert" => /\ c.data # Malformed
                              /\ c.data = Partial => Stored(d) # None
    BY <1>1, <1>2, <1>4, <1>5 DEF Stored, Visible, SeqInv, WriteReady
  <2>2. push[d].seq \in Nat /\ UserOf[d] \in Users
    BY <1>1, RequestFields, DevicesAssumption
  <2>3. new \in Row /\ new # None
    <3>1. Stored(d) # None => Stored(d).owner = UserOf[d]
      BY <1>2, <1>5 DEF SeqInv, PushFoundStays, OwnRow
    <3> QED BY <1>4, <2>1, <2>2, <3>1, WrittenRow, SMTT(20)
  <2>4. CASE c.op = "delete"
    BY <2>1, <2>3, <2>4 DEF Shows, Written, Tombstoned, Row
  <2>5. CASE c.op = "upsert"
    BY <2>1, <2>3, <2>5, PayloadAssumption DEF Shows, Written, Created, Upserted, Row
  <2> QED BY <1>4, <2>4, <2>5 DEF Change
<1> HIDE DEF new
<1>8. draft'[d][c.id] = new /\ \A i \in Ids \ {c.id} : draft'[d][i] = draft[d][i]
  BY <1>1, <1>4, <1>5
<1> QED BY <1>2, <1>4, <1>5, <1>6, <1>7, <1>8

\* How a step leaves a push in its transaction.
LEMMA PushCases ==
  ASSUME SeqInv, NEW d \in Devices, PushStep(d), InTransaction(d)'
  PROVE  \/ PushBegin(d)
         \/ PushConflict(d) \/ PushNoop(d)
         \/ PushFind(d)
         \/ PushWrite(d)
<1>1. push \in [Devices -> PushRequest]
  BY DEF SeqInv, TypeOK, PushTypeOK
<1> HIDE DEF PushRequest
<1>2. CASE PushRefuse(d) \/ PushCollide(d) \/ PushFail(d) \/ PushReply(d)
  BY <1>1, <1>2
  DEF PushRefuse, PushCollide, PushFail, PushReply, Rollback, NoPush, InTransaction
<1>3. CASE PushCommit(d)
  <2>1. push'[d].pc = "reply"
    BY <1>1, <1>3 DEF PushCommit, PushRequest
  <2> QED BY <2>1 DEF InTransaction
<1> QED BY <1>2, <1>3 DEF PushStep

\* Only a commit takes a push from its changes to its reply.
LEMMA CommitsIsCommit ==
  ASSUME SeqInv, [Next]_vars, NEW d \in Devices, Commits(d)
  PROVE  PushCommit(d)
<1>1. PushStep(d)
  BY PushOrNot DEF Commits
<1>2. push \in [Devices -> PushRequest]
  BY DEF SeqInv, TypeOK, PushTypeOK
<1>3. ~InTransaction(d)' /\ push'[d].pc # "idle"
  BY DEF Commits, InTransaction
<1>4. ASSUME PushBegin(d) \/ PushConflict(d) \/ PushNoop(d) \/ PushFind(d) \/ PushWrite(d)
      PROVE  InTransaction(d)'
  BY <1>4, PushBegins, PushSkips, PushFinds, PushWrites DEF InTransaction
<1>5. ASSUME PushRefuse(d) \/ PushCollide(d) \/ PushFail(d) \/ PushReply(d)
      PROVE  push'[d].pc = "idle"
  <2> HIDE DEF PushRequest
  <2> QED BY <1>2, <1>5
    DEF PushRefuse, PushCollide, PushFail, PushReply, Rollback, NoPush
<1> QED BY <1>1, <1>3, <1>4, <1>5 DEF PushStep

-----------------------------------------------------------------------------
(* Applied changes land                                                    *)

LEMMA AppliedKeeps ==
  ASSUME AppliedInv, [Next]_vars
  PROVE  AppliedReady'
<1> SUFFICES ASSUME NEW d \in Devices, InTransaction(d)'
    PROVE  /\ push'[d].applied \subseteq 1..(push'[d].i - 1)
           /\ \A i \in push'[d].applied : \E j \in push'[d].applied :
                /\ j >= i
                /\ push'[d].batch[j].id = push'[d].batch[i].id
                /\ Shows(draft'[d][push'[d].batch[j].id], push'[d].batch[j])
  BY DEF AppliedReady, Shows
<1>1. SeqInv /\ push[d] \in PushRequest /\ push[d].i \in Nat /\ push[d].applied \subseteq Nat
  BY RequestFields DEF AppliedInv, SeqInv, TypeOK, PushTypeOK
<1>2. ASSUME InTransaction(d)
      PROVE  /\ push[d].applied \subseteq 1..(push[d].i - 1)
             /\ \A i \in push[d].applied : \E j \in push[d].applied :
                  /\ j >= i
                  /\ push[d].batch[j].id = push[d].batch[i].id
                  /\ Shows(draft[d][push[d].batch[j].id], push[d].batch[j])
  BY <1>2 DEF AppliedInv, AppliedReady
<1>3. CASE push'[d] = push[d] /\ draft'[d] = draft[d]
  <2>1. InTransaction(d)
    BY <1>3 DEF InTransaction
  <2> QED BY <1>2, <1>3, <2>1
<1>4. CASE PushBegin(d)
  BY <1>1, <1>4, PushBegins
<1>5. CASE PushConflict(d) \/ PushNoop(d) \/ PushFind(d)
  <2>1. /\ InTransaction(d) /\ push'[d].i \in {push[d].i, push[d].i + 1}
        /\ push'[d].batch = push[d].batch /\ push'[d].applied = push[d].applied
        /\ UNCHANGED draft
    BY <1>1, <1>5, PushSkips, PushFinds DEF InTransaction
  <2>2. push[d].applied \subseteq 1..(push'[d].i - 1)
    BY <1>1, <1>2, <2>1
  <2> QED BY <1>2, <2>1, <2>2
<1>6. CASE PushWrite(d)
  <2> DEFINE c == Pending(d)
             n == push[d].i
  <2>1. /\ InTransaction(d) /\ c = push[d].batch[n] /\ c.id \in Ids
        /\ n \in 1..Len(push[d].batch)
        /\ Shows(draft'[d][c.id], c)
        /\ \A i \in Ids \ {c.id} : draft'[d][i] = draft[d][i]
        /\ push'[d].i = n + 1 /\ push'[d].batch = push[d].batch
        /\ push'[d].applied = push[d].applied \cup {n}
    BY <1>1, <1>6, PushWrites DEF InTransaction, Change, Pending
  <2> HIDE DEF c
  <2>2. push'[d].applied \subseteq 1..(push'[d].i - 1)
    <3>1. push[d].applied \subseteq 1..(n - 1)
      BY <1>2, <2>1
    <3>4. n \in 1..Len(push[d].batch) /\ Len(push[d].batch) \in Nat
      BY <1>1, <2>1, RequestFields
    <3> HIDE DEF n
    <3>2. n \in Nat /\ n >= 1
      BY <3>4
    <3>3. push[d].applied \cup {n} \subseteq 1..((n + 1) - 1)
      BY <3>1, <3>2
    <3> QED BY <2>1, <3>3
  <2>3. ASSUME NEW i \in push'[d].applied
        PROVE  \E j \in push'[d].applied :
                 /\ j >= i
                 /\ push[d].batch[j].id = push[d].batch[i].id
                 /\ Shows(draft'[d][push[d].batch[j].id], push[d].batch[j])
    <3>1. CASE push[d].batch[i].id = c.id
      <4>1. n >= i
        <5>1. i \in 1..((n + 1) - 1) /\ n \in 1..Len(push[d].batch)
          BY <2>1, <2>2, <2>3
        <5>2. Len(push[d].batch) \in Nat
          BY <1>1, RequestFields
        <5> HIDE DEF n
        <5> QED BY <5>1, <5>2
      <4> QED BY <2>1, <3>1, <4>1
    <3>2. CASE push[d].batch[i].id # c.id
      <4>1. i \in push[d].applied
        BY <2>1, <2>3, <3>2
      <4>2. PICK j \in push[d].applied :
              /\ j >= i
              /\ push[d].batch[j].id = push[d].batch[i].id
              /\ Shows(draft[d][push[d].batch[j].id], push[d].batch[j])
        BY <1>2, <2>1, <4>1
      <4>3. push[d].batch[j].id \in Ids \ {c.id}
        <5>1. j \in 1..Len(push[d].batch)
          <6>1. j \in 1..(n - 1) /\ n \in Nat /\ Len(push[d].batch) \in Nat
            BY <1>1, <1>2, <2>1, <4>2, RequestFields
          <6>2. n \in 1..Len(push[d].batch)
            BY <2>1
          <6> HIDE DEF n
          <6> QED BY <6>1, <6>2
        <5>2. push[d].batch[j] \in Change
          BY <1>1, <5>1, RequestFields
        <5> QED BY <3>2, <4>2, <5>2 DEF Change
      <4> QED BY <2>1, <4>2, <4>3
    <3> QED BY <3>1, <3>2
  <2> QED BY <2>1, <2>2, <2>3
<1> QED BY <1>1, <1>3, <1>4, <1>5, <1>6, PushOrNot, PushCases

\* AppliedInv holds in every reachable state.
THEOREM AppliedInvariant == Spec => []AppliedInv
<1>1. Init => AppliedInv
  <2> SUFFICES ASSUME Init PROVE AppliedInv
    OBVIOUS
  <2>1. \A d \in Devices : ~InTransaction(d)
    BY DEF Init, PushInit, NoPush, InTransaction
  <2> QED BY <2>1, SeqInvInit DEF AppliedInv, AppliedReady
<1>2. AppliedInv /\ [Next]_vars => AppliedInv'
  BY SeqInvStep, AppliedKeeps DEF AppliedInv
<1> QED BY <1>1, <1>2, PTL DEF Spec

\* A device may clear from its outbox every change a push counted as applied: the
\* commit puts it, or a later one of the same batch, in the database, whatever
\* other pushes and web requests ran meanwhile (SyncService.push, "applied").
THEOREM AppliedChangesLand == Spec => AppliedLands
<1>1. AppliedInv /\ [Next]_vars =>
        \A d \in Devices : Commits(d) =>
          \A i \in push[d].applied : \E j \in push[d].applied :
            LET a == push[d].batch[i]
                b == push[d].batch[j]
            IN j >= i /\ b.id = a.id /\ Shows(rows'[b.id], b)
  <2> SUFFICES ASSUME AppliedInv, [Next]_vars, NEW d \in Devices, Commits(d),
                      NEW i \in push[d].applied
      PROVE  \E j \in push[d].applied :
               /\ j >= i
               /\ push[d].batch[j].id = push[d].batch[i].id
               /\ Shows(rows'[push[d].batch[j].id], push[d].batch[j])
    OBVIOUS
  <2>1. SeqInv /\ PushCommit(d) /\ InTransaction(d)
    BY CommitsIsCommit DEF AppliedInv, PushCommit, InTransaction
  <2>2. PICK j \in push[d].applied :
          /\ j >= i
          /\ push[d].batch[j].id = push[d].batch[i].id
          /\ Shows(draft[d][push[d].batch[j].id], push[d].batch[j])
    BY <2>1 DEF AppliedInv, AppliedReady
  <2>3. push[d].batch[j].id \in Ids
    <3>1. /\ push[d] \in PushRequest /\ j \in 1..(push[d].i - 1)
          /\ push[d].i \in 1..(Len(push[d].batch) + 1)
      BY <2>1, <2>2 DEF AppliedInv, AppliedReady, SeqInv, TypeOK, PushTypeOK, BlockUsed
    <3>2. push[d].batch[j] \in Change
      BY <3>1, RequestFields
    <3> QED BY <3>2 DEF Change
  <2>4. rows'[push[d].batch[j].id] = draft[d][push[d].batch[j].id]
    BY <2>1, <2>2, <2>3, CommittedRows DEF Shows
  <2> QED BY <2>2, <2>4
<1> QED BY AppliedInvariant, <1>1, PTL DEF Spec, AppliedLands

-----------------------------------------------------------------------------
(* The newest change wins                                                  *)

\* The changes of a batch to one row are taken oldest first.
LEMMA OldestFirst ==
  ASSUME NEW b \in Seq(Change), NEW o \in orderChanges(b),
         NEW j \in DOMAIN o, NEW k \in DOMAIN o, j < k, o[j].id = o[k].id
  PROVE  o[j].updatedAt <= o[k].updatedAt
<1>1. PICK p \in SortedPlaces(b) : o = [n \in 1..Len(b) |-> b[p[n]]]
  BY DEF orderChanges
<1>2. p \in [1..Len(b) -> 1..Len(b)] /\ Len(b) \in Nat
  BY <1>1 DEF SortedPlaces
<1>3. j \in 1..Len(b) /\ k \in 1..Len(b)
  BY <1>1
<1>4. Before(b[p[j]], b[p[k]]) \/ ~Before(b[p[k]], b[p[j]])
  BY <1>1, <1>3 DEF SortedPlaces
<1>5. /\ o[j] = b[p[j]] /\ o[k] = b[p[k]] /\ o[j] \in Change /\ o[k] \in Change
  BY <1>1, <1>2, <1>3
<1>6. o[j].updatedAt \in Nat /\ o[k].updatedAt \in Nat /\ o[j].id \in Ids
  BY <1>5, TimesAssumption DEF Change
<1>7. TableOf[o[j].id] \in Nat
  BY <1>6, TablesAssumption
<1>8. o[j].updatedAt < o[k].updatedAt \/ ~(o[k].updatedAt < o[j].updatedAt)
  BY <1>4, <1>5, <1>7 DEF Before
<1> QED BY <1>6, <1>8

\* While a push is in its transaction, no other request changes a row it has
\* written or its account owns, nor gives its account a row.
LEMMA OthersRows ==
  ASSUME SeqInv, Handlers = {}, [Next]_vars, NEW d \in Devices,
         InTransaction(d), push'[d] = push[d], NEW i \in Ids, rows'[i] # rows[i]
  PROVE  /\ draft[d][i] = None /\ rows'[i] # None
         /\ ~OwnRow(UserOf[d], rows'[i]) /\ ~OwnRow(UserOf[d], rows[i])
<1>1. PICK c \in Devices :
        /\ PushCommit(c) /\ rows'[i] = draft[c][i]
        /\ rows'[i] # None /\ rows'[i].owner = UserOf[c]
        /\ rows[i] # None => rows[i].owner = UserOf[c]
  BY ChangedRow
<1>2. c # d
  <2>1. push \in [Devices -> PushRequest] /\ push[d] \in PushRequest
    BY DEF SeqInv, TypeOK, PushTypeOK
  <2>2. PushCommit(d) => push'[d].pc = "reply" /\ push[d].pc = "find"
    BY <2>1 DEF PushCommit, PushRequest
  <2> QED BY <1>1, <2>2
<1>3. draft[d][i] = None
  BY <1>1, <1>2 DEF SeqInv, DraftOwned
<1>4. InTransaction(c)
  BY <1>1 DEF PushCommit, InTransaction
<1>5. UserOf[c] # UserOf[d]
  BY <1>2, <1>4, OneTransaction
<1> QED BY <1>1, <1>3, <1>5 DEF OwnRow

\* The instants a request compares are numbers.
LEMMA InstantsAreNumbers ==
  ASSUME SeqInv, NEW d \in Devices
  PROVE  /\ \A i \in Ids : rows[i] # None => rows[i].updatedAt \in Nat
         /\ \A i \in Ids : draft[d][i] # None => draft[d][i].updatedAt \in Nat
         /\ \A i \in Ids : Visible(d, i) # None => Visible(d, i).updatedAt \in Nat
         /\ InTransaction(d) =>
              /\ push[d].i \in 1..(Len(push[d].batch) + 1)
              /\ Len(push[d].batch) \in Nat
              /\ DOMAIN push[d].batch = 1..Len(push[d].batch)
              /\ \A k \in 1..Len(push[d].batch) :
                   /\ push[d].batch[k].id \in Ids
                   /\ push[d].batch[k].updatedAt \in Nat
<1>1. /\ rows \in [Ids -> Row \cup {None}]
      /\ draft[d] \in [Ids -> Row \cup {None}]
      /\ push[d].batch \in Seq(Change)
  BY RequestFields DEF SeqInv, TypeOK, StateTypeOK, PushTypeOK
<1>2. /\ \A i \in Ids : rows[i] # None => rows[i].updatedAt \in Nat
      /\ \A i \in Ids : draft[d][i] # None => draft[d][i].updatedAt \in Nat
  BY <1>1, TimesAssumption DEF Row
<1>3. \A k \in 1..Len(push[d].batch) : push[d].batch[k] \in Change
  BY <1>1
<1>4. \A k \in 1..Len(push[d].batch) :
        push[d].batch[k].id \in Ids /\ push[d].batch[k].updatedAt \in Nat
  BY <1>3, TimesAssumption DEF Change
<1>5. Len(push[d].batch) \in Nat /\ DOMAIN push[d].batch = 1..Len(push[d].batch)
  BY <1>1
<1>6. InTransaction(d) => push[d].i \in 1..(Len(push[d].batch) + 1)
  BY DEF SeqInv, BlockUsed
<1> QED BY <1>2, <1>4, <1>5, <1>6 DEF Visible

LEMMA OrderKeeps ==
  ASSUME NewestInv, Handlers = {}, [Next]_vars
  PROVE  BatchInOrder'
<1> SUFFICES ASSUME NEW d \in Devices, InTransaction(d)',
                    NEW j \in DOMAIN push'[d].batch, NEW k \in DOMAIN push'[d].batch,
                    j < k, push'[d].batch[j].id = push'[d].batch[k].id
    PROVE  push'[d].batch[j].updatedAt <= push'[d].batch[k].updatedAt
  BY DEF BatchInOrder
<1>1. SeqInv
  BY DEF NewestInv
<1>2. CASE PushBegin(d)
  BY <1>1, <1>2, PushBegins, OldestFirst
<1>3. CASE InTransaction(d) /\ push'[d].batch = push[d].batch
  BY <1>3 DEF NewestInv, BatchInOrder
<1>4. ASSUME PushConflict(d) \/ PushNoop(d) \/ PushFind(d) \/ PushWrite(d)
      PROVE  InTransaction(d) /\ push'[d].batch = push[d].batch
  BY <1>1, <1>4, PushSkips, PushFinds, PushWrites DEF InTransaction
<1>5. ASSUME push'[d] = push[d]
      PROVE  InTransaction(d) /\ push'[d].batch = push[d].batch
  BY <1>5 DEF InTransaction
<1> QED BY <1>1, <1>2, <1>3, <1>4, <1>5, PushOrNot, PushCases

LEMMA DraftKeeps ==
  ASSUME NewestInv, Handlers = {}, [Next]_vars
  PROVE  DraftNewer'
<1> SUFFICES ASSUME NEW d \in Devices, NEW i \in Ids, draft'[d][i] # None, rows'[i] # None
    PROVE  draft'[d][i].updatedAt >= rows'[i].updatedAt
  BY DEF DraftNewer
<1>1. SeqInv /\ SeqInv'
  BY SeqInvStep DEF NewestInv
<1>2. InTransaction(d)'
  BY <1>1 DEF SeqInv, LockHeld, NoRows
<1>3. draft[d][i] # None /\ rows[i] # None => draft[d][i].updatedAt >= rows[i].updatedAt
  BY DEF NewestInv, DraftNewer
<1>4. CASE push'[d] = push[d] /\ draft'[d] = draft[d]
  <2>1. InTransaction(d)
    BY <1>2, <1>4 DEF InTransaction
  <2>2. rows'[i] = rows[i]
    BY <1>1, <1>4, <2>1, OthersRows
  <2> QED BY <1>3, <1>4, <2>2
<1>5. CASE PushBegin(d)
  BY <1>1, <1>5, PushBegins
<1>6. CASE PushConflict(d) \/ PushNoop(d) \/ PushFind(d)
  BY <1>1, <1>3, <1>6, PushSkips, PushFinds
<1>7. CASE PushWrite(d)
  <2> DEFINE c == Pending(d)
  <2>1. /\ push[d].pc = "write" /\ c \in Change /\ UNCHANGED rows
        /\ push[d].existed = (Stored(d) # None)
        /\ Shows(draft'[d][c.id], c)
        /\ \A j \in Ids \ {c.id} : draft'[d][j] = draft[d][j]
    BY <1>1, <1>7, PushWrites
  <2>2. CASE i # c.id
    BY <1>3, <2>1, <2>2
  <2>3. CASE i = c.id
    <3>1. draft'[d][i].updatedAt = c.updatedAt
      BY <2>1, <2>3 DEF Shows
    <3>2. c.updatedAt \in Nat
      BY <2>1, TimesAssumption DEF Change
    <3>3. Stored(d) # None /\ c.updatedAt >= Stored(d).updatedAt
      BY <2>1, <2>3 DEF Stored, Visible, NewestInv, WriteNewer
    <3>4. /\ Stored(d) = IF draft[d][i] # None THEN draft[d][i] ELSE rows[i]
          /\ Stored(d).updatedAt \in Nat /\ rows[i].updatedAt \in Nat
      BY <1>1, <2>1, <2>3, <3>3, InstantsAreNumbers DEF Stored, Visible
    <3>5. Stored(d).updatedAt >= rows[i].updatedAt
      BY <1>3, <2>1, <3>4
    <3> QED BY <2>1, <3>1, <3>2, <3>3, <3>4, <3>5
  <2> QED BY <2>2, <2>3
<1> QED BY <1>1, <1>2, <1>4, <1>5, <1>6, <1>7, PushOrNot, PushCases

LEMMA WriteKeeps ==
  ASSUME NewestInv, Handlers = {}, [Next]_vars
  PROVE  WriteNewer'
<1> SUFFICES ASSUME NEW d \in Devices, push'[d].pc = "write", push'[d].existed
    PROVE  Pending(d)'.updatedAt >= Stored(d)'.updatedAt
  BY DEF WriteNewer
<1>1. SeqInv /\ InTransaction(d)'
  BY DEF NewestInv, InTransaction
<1>2. CASE push'[d] = push[d] /\ draft'[d] = draft[d]
  <2>1. InTransaction(d) /\ push[d].pc = "write" /\ push[d].existed
    BY <1>2 DEF InTransaction
  <2>2. /\ Pending(d)' = Pending(d)
        /\ Stored(d) = Visible(d, Pending(d).id)
        /\ Stored(d)' = Visible(d, Pending(d).id)'
    BY <1>2 DEF Pending, Stored
  <2>3. ~Finished(d)
    <3>1. push[d].i <= Len(push[d].batch) /\ push[d].i \in Nat /\ Len(push[d].batch) \in Nat
      BY <1>1, <2>1, InstantsAreNumbers DEF SeqInv, BlockUsed
    <3> QED BY <3>1 DEF Finished
  <2>4. Pending(d).id \in Ids
    BY <1>1, <2>1, <2>3, PendingChange
  <2>5. OwnRow(UserOf[d], Visible(d, Pending(d).id))
    BY <1>1, <2>1, <2>2 DEF SeqInv, PushFoundStays
  <2>6. UNCHANGED Pending(d).id
    BY <2>2
  <2>7. Visible(d, Pending(d).id)' = IF draft[d][Pending(d).id] # None
                                      THEN draft[d][Pending(d).id] ELSE rows'[Pending(d).id]
    BY <1>2, <2>6 DEF Visible
  <2>8. Stored(d)' = Stored(d)
    BY <1>1, <1>2, <2>1, <2>2, <2>4, <2>5, <2>7, OthersRows DEF Visible
  <2> QED BY <2>1, <2>2, <2>8 DEF NewestInv, WriteNewer
<1>3. CASE PushFind(d)
  <2>1. /\ ~Conflicts(Stored(d), UserOf[d], Pending(d))
        /\ Stored(d) # None /\ ~Finished(d) /\ InTransaction(d)
        /\ push'[d].i = push[d].i /\ push'[d].batch = push[d].batch
        /\ UNCHANGED <<rows, draft>>
    BY <1>1, <1>3, PushFinds DEF InTransaction
  <2>2. Pending(d)' = Pending(d) /\ Stored(d)' = Stored(d)
    BY <2>1 DEF Pending, Stored, Visible
  <2>3. Pending(d) \in Change /\ Pending(d).id \in Ids
    BY <1>1, <2>1, PendingChange
  <2>4. Pending(d).updatedAt \in Nat /\ Stored(d).updatedAt \in Nat
    BY <1>1, <2>1, <2>3, InstantsAreNumbers, TimesAssumption DEF Change, Stored
  <2>5. ~(Stored(d).updatedAt >= Pending(d).updatedAt)
    BY <2>1 DEF Conflicts, Stale
  <2> QED BY <2>2, <2>4, <2>5
<1>4. ASSUME PushBegin(d) \/ PushConflict(d) \/ PushNoop(d) \/ PushWrite(d)
      PROVE  FALSE
  BY <1>1, <1>4, PushBegins, PushSkips, PushWrites
<1> QED BY <1>1, <1>2, <1>3, <1>4, PushOrNot, PushCases

LEMMA DoneKeeps ==
  ASSUME NewestInv, Handlers = {}, [Next]_vars
  PROVE  DoneNewer'
<1> SUFFICES ASSUME NEW d \in Devices, InTransaction(d)',
                    NEW k \in 1..(push'[d].i - 1),
                    OwnRow(UserOf[d], Visible(d, push[d].batch[k].id)')
    PROVE  Visible(d, push[d].batch[k].id)'.updatedAt >= push'[d].batch[k].updatedAt
  BY DEF DoneNewer, OwnRow
<1> DEFINE c == push[d].batch[k]
           u == UserOf[d]
<1>1. SeqInv
  BY DEF NewestInv
<1>2. ASSUME InTransaction(d), k \in 1..(push[d].i - 1), OwnRow(u, Visible(d, c.id))
      PROVE  Visible(d, c.id).updatedAt >= c.updatedAt
  BY <1>2 DEF NewestInv, DoneNewer
<1>3. CASE push'[d] = push[d] /\ draft'[d] = draft[d]
  <2>1. InTransaction(d) /\ k \in 1..(push[d].i - 1)
    BY <1>3 DEF InTransaction
  <2>2. c.id \in Ids
    <3>1. k \in 1..Len(push[d].batch)
      BY <1>1, <2>1, InstantsAreNumbers
    <3> QED BY <1>1, <2>1, <3>1, InstantsAreNumbers
  <2>3. Visible(d, push[d].batch[k].id)' = IF draft[d][c.id] # None
                                            THEN draft[d][c.id] ELSE rows'[c.id]
    BY <1>3 DEF Visible
  <2>4. Visible(d, push[d].batch[k].id)' = Visible(d, c.id)
    BY <1>1, <1>3, <2>1, <2>2, <2>3, OthersRows DEF Visible
  <2> QED BY <1>2, <1>3, <2>1, <2>4
<1>4. CASE PushBegin(d)
  BY <1>1, <1>4, PushBegins
<1>5. CASE PushConflict(d) \/ PushNoop(d)
  <2>1. /\ InTransaction(d) /\ ~Finished(d)
        /\ Conflicts(Stored(d), u, Pending(d)) \/ Stored(d) = None
        /\ push'[d].i = push[d].i + 1 /\ push'[d].batch = push[d].batch
        /\ UNCHANGED <<rows, draft>>
    BY <1>1, <1>5, PushSkips DEF InTransaction
  <2>2. push[d].i \in Nat
    BY <1>1, <2>1, InstantsAreNumbers
  <2>3. Visible(d, push[d].batch[k].id)' = Visible(d, c.id)
    BY <2>1 DEF Visible
  <2>4. CASE k = push[d].i
    <3>1. c = Pending(d) /\ Stored(d) = Visible(d, c.id)
      BY <2>4 DEF Pending, Stored
    <3> QED BY <2>1, <2>3, <3>1 DEF Conflicts, NotOwned, Stale, OwnRow
  <2>5. CASE k # push[d].i
    <3>1. k \in 1..(push[d].i - 1)
      BY <2>1, <2>2, <2>5
    <3> QED BY <1>2, <2>1, <2>3, <3>1
  <2> QED BY <2>4, <2>5
<1>6. CASE PushFind(d)
  <2>1. /\ InTransaction(d) /\ push'[d].i = push[d].i
        /\ push'[d].batch = push[d].batch /\ UNCHANGED <<rows, draft>>
    BY <1>1, <1>6, PushFinds DEF InTransaction
  <2>2. Visible(d, push[d].batch[k].id)' = Visible(d, c.id)
    BY <2>1 DEF Visible
  <2> QED BY <1>2, <2>1, <2>2
<1>7. CASE PushWrite(d)
  <2> DEFINE p == Pending(d)
             n == push[d].i
  <2>1. /\ InTransaction(d) /\ p = push[d].batch[n] /\ n \in 1..Len(push[d].batch)
        /\ Shows(draft'[d][p.id], p)
        /\ \A i \in Ids \ {p.id} : draft'[d][i] = draft[d][i]
        /\ push'[d].i = n + 1 /\ push'[d].batch = push[d].batch
        /\ UNCHANGED rows
    BY <1>1, <1>7, PushWrites DEF InTransaction, Pending
  <2>2. /\ DOMAIN push[d].batch = 1..Len(push[d].batch)
        /\ Len(push[d].batch) \in Nat /\ n \in Nat
        /\ k \in 1..Len(push[d].batch) /\ k <= n
        /\ c.id \in Ids /\ c.updatedAt \in Nat /\ p.updatedAt \in Nat
    <3>1. /\ DOMAIN push[d].batch = 1..Len(push[d].batch)
          /\ Len(push[d].batch) \in Nat
          /\ \A j \in 1..Len(push[d].batch) :
               push[d].batch[j].id \in Ids /\ push[d].batch[j].updatedAt \in Nat
      BY <1>1, <2>1, InstantsAreNumbers
    <3>2. n \in Nat /\ k \in 1..((n + 1) - 1)
      <4>1. n \in 1..Len(push[d].batch) /\ k \in 1..(push'[d].i - 1)
            /\ push'[d].i = n + 1
        BY <2>1
      <4> HIDE DEF n
      <4> QED BY <3>1, <4>1
    <3>3. k \in 1..Len(push[d].batch) /\ k <= n
      <4> HIDE DEF n
      <4> QED BY <2>1, <3>1, <3>2
    <3> QED BY <2>1, <3>1, <3>2, <3>3
  <2>3. Visible(d, push[d].batch[k].id)'
          = IF draft'[d][c.id] # None THEN draft'[d][c.id] ELSE rows[c.id]
    BY <2>1 DEF Visible
  <2>4. CASE c.id = p.id
    <3>1. Visible(d, push[d].batch[k].id)'.updatedAt = p.updatedAt
      BY <2>1, <2>3, <2>4 DEF Shows
    <3>2. p.updatedAt >= c.updatedAt
      <4>1. CASE k = n
        <5>1. c = p
          BY <2>1, <4>1
        <5>2. p.updatedAt >= p.updatedAt
          <6> HIDE DEF p
          <6> QED BY <2>2
        <5> QED BY <5>1, <5>2
      <4>2. CASE k # n
        <5>1. k < n
          BY <2>2, <4>2
        <5> QED BY <2>1, <2>2, <2>4, <5>1, ZenonT(30) DEF NewestInv, BatchInOrder
      <4> QED BY <4>1, <4>2
    <3> QED BY <2>1, <3>1, <3>2
  <2>5. CASE c.id # p.id
    <3>1. Visible(d, push[d].batch[k].id)' = Visible(d, c.id)
      BY <2>1, <2>2, <2>3, <2>5 DEF Visible
    <3>2. k # n
      BY <2>1, <2>5
    <3>3. k \in 1..(n - 1)
      BY <2>2, <3>2
    <3> QED BY <1>2, <2>1, <3>1, <3>3
  <2> QED BY <2>4, <2>5
<1> QED BY <1>1, <1>3, <1>4, <1>5, <1>6, <1>7, PushOrNot, PushCases

\* NewestInv holds in every reachable state while pushes are the only writers.
THEOREM NewestInvariant ==
  ASSUME Handlers = {}
  PROVE  Spec => []NewestInv
<1>1. Init => NewestInv
  <2> SUFFICES ASSUME Init PROVE NewestInv
    OBVIOUS
  <2>1. \A d \in Devices : /\ ~InTransaction(d) /\ push[d].pc = "idle"
                           /\ \A i \in Ids : draft[d][i] = None
    BY DEF Init, PushInit, NoPush, InTransaction, StateInit, NoRows
  <2> QED
    BY <2>1, SeqInvInit DEF NewestInv, BatchInOrder, DraftNewer, WriteNewer, DoneNewer
<1>2. NewestInv /\ [Next]_vars => NewestInv'
  BY SeqInvStep, OrderKeeps, DraftKeeps, WriteKeeps, DoneKeeps DEF NewestInv
<1> QED BY <1>1, <1>2, PTL DEF Spec

\* Last writer wins: no commit takes a row back in time, and after a push its
\* account's rows are at least as recent as every change the push carried, conflicts
\* and changes of one batch to one row included (SyncService.push, conflict rule).
THEOREM NewestChangeWins ==
  ASSUME Handlers = {}
  PROVE  Spec => NewestWins
<1> DEFINE Step ==
      /\ \A id \in Ids : rows[id] # None =>
           rows'[id].updatedAt >= rows[id].updatedAt
      /\ \A d \in Devices : Commits(d) =>
           \A i \in DOMAIN push[d].batch :
             LET c == push[d].batch[i]
             IN OwnRow(UserOf[d], rows'[c.id])
                  => rows'[c.id].updatedAt >= c.updatedAt
<1>1. ASSUME NewestInv, [Next]_vars, NEW i \in Ids, rows[i] # None
      PROVE  rows'[i].updatedAt >= rows[i].updatedAt
  <2>1. SeqInv
    BY <1>1 DEF NewestInv
  <2>2. CASE rows'[i] # rows[i]
    <3>1. \E c \in Devices : rows'[i] = draft[c][i] /\ rows'[i] # None
      BY <1>1, <2>1, <2>2, ChangedRow
    <3> QED BY <1>1, <3>1 DEF NewestInv, DraftNewer
  <2>3. CASE rows'[i] = rows[i]
    <3>1. rows[i].updatedAt \in Nat
      BY <1>1, <2>1, TimesAssumption DEF SeqInv, TypeOK, StateTypeOK, Row
    <3> QED BY <2>3, <3>1
  <2> QED BY <2>2, <2>3
<1>2. ASSUME NewestInv, [Next]_vars, NEW d \in Devices, Commits(d),
             NEW i \in DOMAIN push[d].batch,
             OwnRow(UserOf[d], rows'[push[d].batch[i].id])
      PROVE  rows'[push[d].batch[i].id].updatedAt >= push[d].batch[i].updatedAt
  <2>1. SeqInv /\ PushCommit(d) /\ InTransaction(d) /\ Finished(d)
    BY <1>2, CommitsIsCommit DEF NewestInv, PushCommit, InTransaction
  <2>2. /\ i \in 1..(push[d].i - 1) /\ push[d].batch[i].id \in Ids
    <3>1. /\ DOMAIN push[d].batch = 1..Len(push[d].batch)
          /\ Len(push[d].batch) \in Nat
          /\ push[d].i \in 1..(Len(push[d].batch) + 1)
          /\ \A k \in 1..Len(push[d].batch) : push[d].batch[k].id \in Ids
      BY <2>1, InstantsAreNumbers
    <3>2. push[d].i > Len(push[d].batch)
      BY <2>1 DEF Finished
    <3> QED BY <1>2, <3>1, <3>2
  <2>3. rows'[push[d].batch[i].id] = Visible(d, push[d].batch[i].id)
    BY <2>1, <2>2 DEF PushCommit
  <2> QED BY <1>2, <2>1, <2>2, <2>3 DEF NewestInv, DoneNewer
<1>3. NewestInv /\ [Next]_vars => Step
  BY <1>1, <1>2
<1>4. NewestInv /\ [Next]_vars => [Step]_vars
  BY <1>3
<1> QED BY NewestInvariant, <1>4, PTL DEF Spec, NewestWins
=============================================================================
