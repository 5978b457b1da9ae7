------------------------------ MODULE PullProofs ------------------------------
(***************************************************************************)
(* A page of a pull holds every row that was due below its cursor, and a   *)
(* page that says it is the last one holds every row that was due, for any *)
(* tables, page size, pushes and web requests.                             *)
(*                                                                         *)
(* PageInv is the inductive invariant: SeqInv, that a row's old number     *)
(* never comes back (AsOfSpent), and what has been collected so far        *)
(* (TablesRead).                                                           *)
(*                                                                         *)
(* The second half: the engine implements the change feed while pushes are *)
(* the only writers, one table holds every row and a device keeps to the   *)
(* cursors of its pulls (PushesOnly): no device ever misses a row its      *)
(* cursor has passed.  FeedInv is the inductive invariant; its parts       *)
(* CursorsBehind, GotCurrent and NotGot say where a cursor and a half-read *)
(* page are.                                                               *)
(***************************************************************************)
EXTENDS SyncProofs, FiniteSetTheorems

USE DEF shared, server, device

-----------------------------------------------------------------------------
(* orderBy seq, take k                                                     *)

\* The entries of S below one of them.
Below(S, e) == {f \in S : f.row.seq < e.row.seq}

\* A set of numbers that is not empty has a least one.
LEMMA Least ==
  ASSUME NEW S \in SUBSET Nat, S # {}
  PROVE  \E s \in S : \A t \in S : s <= t
<1>1. \E s \in S : \A t \in S : ~(<<t, s>> \in OpToRel(<, Nat))
  BY WFMin, NatLessThanWellFounded
<1>2. PICK s \in S : \A t \in S : ~(t < s)
  BY <1>1 DEF OpToRel
<1>3. \A t \in S : s <= t
  BY <1>2
<1> QED BY <1>3

\* The rows of a subset below an entry are no more than those of the set, and
\* both are finitely many.
LEMMA BelowCard ==
  ASSUME NEW S, IsFiniteSet(S), NEW R \in SUBSET S, NEW e, NEW f,
         \A x \in R : x.row.seq < e.row.seq => x.row.seq < f.row.seq
  PROVE  /\ Cardinality(Below(R, e)) \in Nat /\ Cardinality(Below(S, f)) \in Nat
         /\ Cardinality(Below(R, e)) <= Cardinality(Below(S, f))
<1>1. Below(R, e) \subseteq Below(S, f) /\ Below(S, f) \subseteq S
  BY DEF Below
<1>2. IsFiniteSet(Below(S, f))
  BY <1>1, FS_Subset
<1>3. /\ IsFiniteSet(Below(R, e))
      /\ Cardinality(Below(R, e)) <= Cardinality(Below(S, f))
  BY <1>1, <1>2, FS_Subset
<1> QED BY <1>2, <1>3, FS_CardinalityType

\* What is taken is what has fewer than k below it.
LEMMA Taken ==
  ASSUME NEW S, NEW k, NEW e \in S
  PROVE  e \in FirstBySeq(S, k) <=> Cardinality(Below(S, e)) < k
BY DEF FirstBySeq, Below

\* What is not taken has k of those taken below it.
LEMMA NotTaken ==
  ASSUME NEW S \in SUBSET Entry, IsFiniteSet(S), NEW k \in Nat,
         NEW e \in S, e \notin FirstBySeq(S, k)
  PROVE  Cardinality(Below(FirstBySeq(S, k), e)) >= k
<1> DEFINE F == FirstBySeq(S, k)
           N == {f.row.seq : f \in S \ F}
<1>1. N \in SUBSET Nat /\ N # {} /\ F \subseteq S
  <2>1. F \subseteq S
    BY DEF FirstBySeq
  <2>2. \A f \in S : f.row.seq \in Nat
    BY DEF Entry, Row
  <2>3. e.row.seq \in N
    OBVIOUS
  <2> HIDE DEF F
  <2> QED BY <2>1, <2>2, <2>3
<1>2. PICK n \in N : \A m \in N : n <= m
  BY <1>1, Least
<1>3. PICK g \in S \ F : n = g.row.seq
  OBVIOUS
<1>4. g.row.seq \in Nat /\ e.row.seq \in Nat /\ g.row.seq <= e.row.seq
  BY <1>2, <1>3 DEF Entry, Row
<1>5. ~(Cardinality(Below(S, g)) < k)
  BY <1>3, Taken
<1>6. \A f \in S : f.row.seq \in Nat /\ (f.row.seq < g.row.seq => f \in F)
  BY <1>2, <1>3, SMTT(20) DEF Entry, Row
<1>7. Below(S, g) \subseteq Below(F, e)
  BY <1>4, <1>6 DEF Below
<1>8. IsFiniteSet(Below(F, e))
  <2>1. Below(F, e) \subseteq S
    BY <1>1 DEF Below
  <2> QED BY <2>1, FS_Subset
<1>9. /\ Cardinality(Below(S, g)) <= Cardinality(Below(F, e))
      /\ Cardinality(Below(S, g)) \in Nat /\ Cardinality(Below(F, e)) \in Nat
  BY <1>7, <1>8, FS_Subset, FS_CardinalityType
<1> QED BY <1>5, <1>9

\* A query takes k + 1 to learn whether there is more, and keeps k.  What it does
\* not keep has k of those kept below it, and then there is more.
LEMMA NotKept ==
  ASSUME NEW S \in SUBSET Entry, IsFiniteSet(S), NEW k \in Nat,
         NEW e \in S, e \notin FirstBySeq(FirstBySeq(S, k + 1), k)
  PROVE  /\ Cardinality(Below(FirstBySeq(FirstBySeq(S, k + 1), k), e)) >= k
         /\ Cardinality(FirstBySeq(S, k + 1)) > k
<1> DEFINE F == FirstBySeq(S, k + 1)
           K == FirstBySeq(F, k)
<1>1. F \subseteq S /\ K \subseteq F
  BY DEF FirstBySeq
<1>2. /\ IsFiniteSet(F) /\ F \in SUBSET Entry /\ k + 1 \in Nat
      /\ Cardinality(F) \in Nat
  BY <1>1, FS_Subset, FS_CardinalityType
<1>3. \A f \in S : f.row.seq \in Nat
  BY DEF Entry, Row
<1>4. CASE e \in F
  <2>1. Cardinality(Below(K, e)) >= k
    BY <1>2, <1>4, NotTaken
  <2>2. /\ Below(K, e) \subseteq F \ {e} /\ F \ {e} \subseteq F
    BY <1>1, <1>3 DEF Below
  <2>3. IsFiniteSet(F \ {e}) /\ Cardinality(F \ {e}) = Cardinality(F) - 1
    BY <1>2, <1>4, FS_RemoveElement
  <2>4. /\ Cardinality(Below(K, e)) <= Cardinality(F \ {e})
        /\ IsFiniteSet(Below(K, e))
    BY <2>2, <2>3, FS_Subset
  <2>5. Cardinality(Below(K, e)) \in Nat
    BY <2>4, FS_CardinalityType
  <2> QED BY <1>2, <2>1, <2>3, <2>4, <2>5
<1>5. CASE e \notin F
  <2>1. Cardinality(Below(F, e)) >= k + 1
    BY <1>2, <1>5, NotTaken
  <2>2. Below(F, e) \subseteq F
    BY DEF Below
  <2>3. /\ IsFiniteSet(Below(F, e)) /\ Cardinality(Below(F, e)) <= Cardinality(F)
        /\ Cardinality(Below(F, e)) \in Nat
    BY <1>2, <2>2, FS_Subset, FS_CardinalityType
  <2>4. CASE K = F
    BY <1>2, <2>1, <2>3, <2>4
  <2>5. CASE K # F
    <3>1. PICK g \in F : g \notin K
      BY <1>1, <2>5
    <3>2. Cardinality(Below(K, g)) >= k
      BY <1>2, <3>1, NotTaken
    <3>3. g.row.seq <= e.row.seq
      <4>1. CASE g.row.seq > e.row.seq
        <5>1. \A x \in S : x.row.seq < e.row.seq => x.row.seq < g.row.seq
          BY <1>1, <1>3, <4>1, <3>1
        <5>2. Cardinality(Below(S, e)) <= Cardinality(Below(S, g))
          BY <5>1, BelowCard
        <5>3. /\ Cardinality(Below(S, g)) < k + 1
              /\ ~(Cardinality(Below(S, e)) < k + 1)
          BY <1>1, <1>5, <3>1, Taken
        <5>4. /\ Cardinality(Below(S, g)) \in Nat
              /\ Cardinality(Below(S, e)) \in Nat
          BY <5>1, BelowCard
        <5> QED BY <5>2, <5>3, <5>4
      <4> QED BY <1>1, <1>3, <3>1, <4>1
    <3>4. \A x \in K : x.row.seq < g.row.seq => x.row.seq < e.row.seq
      BY <1>1, <1>3, <3>1, <3>3
    <3>5. IsFiniteSet(K) /\ K \in SUBSET K
      BY <1>1, <1>2, FS_Subset
    <3>6. /\ Cardinality(Below(K, g)) <= Cardinality(Below(K, e))
          /\ Cardinality(Below(K, g)) \in Nat /\ Cardinality(Below(K, e)) \in Nat
      BY <3>4, <3>5, BelowCard
    <3> QED BY <1>2, <2>1, <2>3, <3>2, <3>6
  <2> QED BY <2>4, <2>5
<1> QED BY <1>4, <1>5

-----------------------------------------------------------------------------
(* What other requests do while a pull is in progress                      *)

\* The counters never go back.
LEMMA CountersGrow ==
  ASSUME SeqInv, [Next]_vars, NEW u \in Users
  PROVE  /\ lastSeq[u] \in Nat /\ lastSeq'[u] \in Nat /\ lastSeq'[u] >= lastSeq[u]
<1>1. lastSeq \in [Users -> Nat] /\ push \in [Devices -> PushRequest]
  BY DEF SeqInv, TypeOK, StateTypeOK, PushTypeOK
<1>2. CASE UNCHANGED lastSeq
  BY <1>1, <1>2
<1>3. ASSUME NEW d \in Devices, PushCommit(d)
      PROVE  lastSeq'[u] \in Nat /\ lastSeq'[u] >= lastSeq[u]
  <2>1. lastSeq' = [lastSeq EXCEPT ![UserOf[d]] = @ + Len(push[d].batch)]
    BY <1>3 DEF PushCommit
  <2>2. Len(push[d].batch) \in Nat
    BY <1>1, RequestFields
  <2> HIDE DEF PushRequest
  <2> QED BY <1>1, <2>1, <2>2
<1>4. ASSUME NEW w \in Handlers, CrudSeq(w)
      PROVE  lastSeq'[u] \in Nat /\ lastSeq'[u] >= lastSeq[u]
  BY <1>1, <1>4 DEF CrudSeq, Allocate
<1>5. UNCHANGED lastSeq \/ (\E d \in Devices : PushCommit(d))
        \/ (\E w \in Handlers : CrudSeq(w))
  <2>1. ASSUME NEW d \in Devices, PushStep(d), ~PushCommit(d)
        PROVE  UNCHANGED lastSeq
    BY <2>1
    DEF PushStep, PushBegin, AllocateInTx, PushConflict, PushNoop, PushRefuse, PushFind,
        PushWrite, PushCollide, PushFail, PushReply, Rollback
  <2>2. ASSUME NEW w \in Handlers, CrudStep(w), ~CrudSeq(w)
        PROVE  UNCHANGED lastSeq
    BY <2>2 DEF CrudStep, CrudCreate, CrudFind, Start, CrudWrite, CrudDie
  <2>3. ASSUME NEW d \in Devices, PullStep(d) PROVE UNCHANGED lastSeq
    BY <2>3 DEF PullStep, PullBegin, PullTable, PullDeliver, PullLost, PullDie, Answer
  <2>4. CASE UNCHANGED vars
    BY <2>4 DEF vars
  <2> QED BY <2>1, <2>2, <2>3, <2>4 DEF Next
<1> QED BY <1>1, <1>2, <1>3, <1>4, <1>5

\* A row that changes gets a number its request has reserved: a push's is above
\* its account's counter, a web request's is the one it holds.
LEMMA ChangedRow ==
  ASSUME SeqInv, [Next]_vars, NEW i \in Ids, rows'[i] # rows[i]
  PROVE  \/ \E d \in Devices :
              /\ PushCommit(d)
              /\ rows'[i] = draft[d][i]
              /\ rows'[i] # None /\ rows'[i].owner = UserOf[d]
              /\ rows'[i].seq > lastSeq[UserOf[d]]
              /\ rows'[i].seq \in Nat
              /\ rows[i] # None => rows[i].owner = UserOf[d]
         \/ \E w \in Handlers :
              /\ web[w].pc = "write"
              /\ rows'[i] # None /\ rows'[i].owner = WebUser[w]
              /\ rows'[i].seq = web[w].seq
<1>1. ASSUME NEW d \in Devices, PushStep(d)
      PROVE  /\ PushCommit(d)
             /\ rows'[i] = draft[d][i]
             /\ rows'[i] # None /\ rows'[i].owner = UserOf[d]
             /\ rows'[i].seq > lastSeq[UserOf[d]]
             /\ rows'[i].seq \in Nat
             /\ rows[i] # None => rows[i].owner = UserOf[d]
  <2>1. PushCommit(d)
    BY <1>1
    DEF PushStep, PushBegin, PushConflict, PushNoop, PushRefuse, PushFind, PushWrite,
        PushCollide, PushFail, PushReply, Rollback
  <2>2. /\ rows'[i] = draft[d][i] /\ rows'[i] # None /\ rows'[i].owner = UserOf[d]
        /\ rows[i] # None => rows'[i].owner = rows[i].owner
    BY <2>1, CommittedRows
  <2>3. rows'[i].seq > lastSeq[UserOf[d]]
    BY <2>2 DEF SeqInv, DraftNumbered
  <2>4. draft[d][i] \in Row
    BY <2>2 DEF SeqInv, TypeOK, StateTypeOK
  <2> QED BY <2>1, <2>2, <2>3, <2>4 DEF Row
<1>2. ASSUME NEW w \in Handlers, CrudStep(w)
      PROVE  /\ web[w].pc = "write"
             /\ rows'[i] # None /\ rows'[i].owner = WebUser[w]
             /\ rows'[i].seq = web[w].seq
  <2>1. CrudWrite(w)
    BY <1>2 DEF CrudStep, CrudCreate, CrudFind, Start, CrudSeq, CrudDie
  <2>2. /\ rows \in [Ids -> Row \cup {None}]
        /\ rows' = [rows EXCEPT ![web[w].id] = rows'[web[w].id]]
    BY <2>1, WebRow DEF SeqInv, TypeOK, StateTypeOK
  <2>3. i = web[w].id
    BY <2>2
  <2> QED BY <2>1, <2>3, WebRow DEF CrudWrite
<1>3. ASSUME NEW d \in Devices, PullStep(d) PROVE FALSE
  BY <1>3 DEF PullStep, PullBegin, PullTable, PullDeliver, PullLost, PullDie, Answer
<1>4. CASE UNCHANGED vars
  BY <1>4 DEF vars
<1> QED BY <1>1, <1>2, <1>3, <1>4 DEF Next

\* What a pull began with is a table of rows of accounts.
LEMMA AsOfRow ==
  ASSUME SeqInv, NEW d \in Devices, NEW i \in Ids, asOf[d][i] # None
  PROVE  asOf[d][i] \in Row /\ asOf[d][i].owner \in Users /\ asOf[d][i].seq \in Nat
BY DEF SeqInv, TypeOK, PullTypeOK, Row

\* A row that is what it was when a pull began has not changed in between.
LEMMA NotBack ==
  ASSUME PageInv, [Next]_vars, NEW d \in Devices, NEW i \in Ids,
         asOf[d][i] # None, rows'[i] = asOf[d][i]
  PROVE  rows'[i] = rows[i]
<1> SUFFICES ASSUME rows'[i] # rows[i] PROVE FALSE
  OBVIOUS
<1> DEFINE u == asOf[d][i].owner
<1>1. /\ SeqInv /\ u \in Users /\ lastSeq[u] \in Nat /\ asOf[d][i].seq \in Nat
      /\ asOf[d][i].seq <= lastSeq[u]
  BY AsOfRow DEF PageInv, AsOfSpent, SeqInv, TypeOK, StateTypeOK
<1>2. ASSUME NEW e \in Devices, rows'[i].owner = UserOf[e],
             rows'[i].seq > lastSeq[UserOf[e]]
      PROVE  FALSE
  BY <1>1, <1>2
<1>3. ASSUME NEW w \in Handlers, web[w].pc = "write", rows'[i].owner = WebUser[w],
             rows'[i].seq = web[w].seq
      PROVE  FALSE
  BY <1>3 DEF PageInv, AsOfSpent
<1> QED BY <1>1, <1>2, <1>3, ChangedRow

\* The number a web request holds is the one it held before, or a new one.
LEMMA WebHolds ==
  ASSUME SeqInv, [Next]_vars, NEW w \in Handlers, web'[w].pc = "write"
  PROVE  web'[w] = web[w] \/ web'[w].seq = lastSeq[WebUser[w]] + 1
<1>1. web \in [Handlers -> WebRequest]
  BY DEF SeqInv, TypeOK, WebTypeOK
<1>2. ASSUME NEW x \in Handlers, CrudStep(x)
      PROVE  web'[w] = web[w] \/ web'[w].seq = lastSeq[WebUser[w]] + 1
  <2>1. CASE CrudSeq(x)
    <3>1. PICK now \in Clock :
            web' = [web EXCEPT ![x].pc = "write", ![x].seq = lastSeq[WebUser[x]] + 1,
                               ![x].at = IF web[x].op = "create" THEN @ ELSE now]
      BY <2>1 DEF CrudSeq
    <3>2. web'[x].seq = lastSeq[WebUser[x]] + 1 /\ (x # w => web'[w] = web[w])
      BY <1>1, <3>1 DEF WebRequest
    <3> QED BY <1>2, <3>2
  <2>2. CASE CrudCreate(x) \/ CrudFind(x)
    <3>1. PICK r : r.pc = "seq" /\ web' = [web EXCEPT ![x] = r]
      BY <2>2 DEF CrudCreate, CrudFind, Start, NoRequest
    <3> QED BY <1>1, <3>1
  <2>3. CASE CrudWrite(x) \/ CrudDie(x)
    <3>1. web' = [web EXCEPT ![x] = NoRequest] /\ NoRequest.pc = "idle"
      BY <2>3 DEF CrudWrite, CrudDie, NoRequest
    <3> QED BY <1>1, <3>1
  <2> QED BY <1>2, <2>1, <2>2, <2>3 DEF CrudStep
<1>3. CASE UNCHANGED web
  BY <1>3
<1> QED BY <1>2, <1>3 DEF Next, vars, webVars

\* What a step does to the view a pull began with.
LEMMA AsOfMoves ==
  ASSUME SeqInv, [Next]_vars, NEW d \in Devices, NEW i \in Ids
  PROVE  \/ asOf'[d][i] = asOf[d][i]
         \/ asOf'[d][i] = None
         \/ /\ asOf'[d][i] = rows[i]
            /\ UNCHANGED <<shared, pushVars, webVars>>
<1>1. asOf \in [Devices -> [Ids -> Row \cup {None}]]
  BY DEF SeqInv, TypeOK, PullTypeOK
<1>2. ASSUME NEW e \in Devices, PullBegin(e), UNCHANGED <<pushVars, webVars>>
      PROVE  \/ asOf'[d][i] = asOf[d][i]
             \/ /\ asOf'[d][i] = rows[i]
                /\ UNCHANGED <<shared, pushVars, webVars>>
  BY <1>1, <1>2 DEF PullBegin
<1>3. ASSUME NEW e \in Devices, Answer(e) \/ PullDie(e)
      PROVE  asOf'[d][i] = asOf[d][i] \/ asOf'[d][i] = None
  BY <1>1, <1>3 DEF Answer, PullDie, NoRows
<1>4. CASE UNCHANGED asOf
  BY <1>4
<1>5. ASSUME NEW e \in Devices, PullTable(e) PROVE UNCHANGED asOf
  BY <1>5 DEF PullTable
<1> QED
  BY <1>2, <1>3, <1>4, <1>5 DEF Next, vars, pullVars, PullStep, PullDeliver, PullLost

LEMMA AsOfKeeps ==
  ASSUME PageInv, [Next]_vars
  PROVE  AsOfSpent'
<1>1. SeqInv /\ SeqInv'
  BY SeqInvStep DEF PageInv
<1> SUFFICES ASSUME NEW d \in Devices, NEW i \in Ids, asOf'[d][i] # None
    PROVE  /\ asOf'[d][i].seq <= lastSeq'[asOf'[d][i].owner]
           /\ \A w \in Handlers :
                web'[w].pc = "write" /\ WebUser[w] = asOf'[d][i].owner
                  => web'[w].seq # asOf'[d][i].seq
  BY DEF AsOfSpent
<1>2. CASE asOf'[d][i] = asOf[d][i]
  <2> DEFINE a == asOf[d][i]
  <2>1. a.owner \in Users /\ a.seq \in Nat /\ a.seq <= lastSeq[a.owner]
    BY <1>1, <1>2, AsOfRow DEF PageInv, AsOfSpent
  <2>2. /\ lastSeq[a.owner] \in Nat /\ lastSeq'[a.owner] \in Nat
        /\ lastSeq'[a.owner] >= lastSeq[a.owner]
    BY <1>1, <2>1, CountersGrow
  <2>3. ASSUME NEW w \in Handlers, web'[w].pc = "write", WebUser[w] = a.owner
        PROVE  web'[w].seq # a.seq
    <3>1. CASE web'[w] = web[w]
      BY <1>2, <2>3, <3>1 DEF PageInv, AsOfSpent
    <3>2. CASE web'[w].seq = lastSeq[WebUser[w]] + 1
      BY <2>1, <2>2, <2>3, <3>2
    <3> QED BY <1>1, <2>3, <3>1, <3>2, WebHolds
  <2> HIDE DEF a
  <2>4. a.seq <= lastSeq'[a.owner]
    BY <2>1, <2>2
  <2> QED BY <1>2, <2>3, <2>4 DEF a
<1>3. CASE asOf'[d][i] = rows[i] /\ UNCHANGED <<shared, pushVars, webVars>>
  <2>1. rows[i] # None /\ rows[i] \in Row
    BY <1>1, <1>3 DEF SeqInv, TypeOK, StateTypeOK
  <2>2. rows[i].seq <= lastSeq[rows[i].owner] /\ rows[i].owner \in Users
    BY <1>1, <2>1 DEF SeqInv, SeqsDistinct, TypeOK, StateTypeOK, Row
  <2>3. \A w \in Handlers : web[w].pc = "write" /\ WebUser[w] = rows[i].owner
                               => web[w].seq # rows[i].seq
    BY <1>1, <2>1 DEF SeqInv, WebNumbered, OwnRow
  <2> QED BY <1>3, <2>2, <2>3 DEF webVars
<1> QED BY <1>1, <1>2, <1>3, AsOfMoves

-----------------------------------------------------------------------------
(* What a pull has collected                                               *)

\* The rows a query looks through are finitely many entries.
LEMMA InRangeEntries ==
  ASSUME SeqInv, NEW u, NEW t, NEW since
  PROVE  InRange(u, t, since) \in SUBSET Entry /\ IsFiniteSet(InRange(u, t, since))
<1> DEFINE J == {i \in Ids : /\ TableOf[i] = t
                             /\ OwnRow(u, rows[i])
                             /\ rows[i].seq > since}
           R == InRange(u, t, since)
<1>1. R = {[id |-> i, row |-> rows[i]] : i \in J}
  BY DEF InRange
<1>2. R \in SUBSET Entry
  BY <1>1 DEF SeqInv, TypeOK, StateTypeOK, OwnRow, Entry
<1>3. IsFiniteSet(J)
  <2>1. J \subseteq Ids
    OBVIOUS
  <2> HIDE DEF J
  <2> QED BY <2>1, IdsAssumption, FS_Subset
<1>4. IsFiniteSet(R)
  <2> DEFINE f == [i \in J |-> [id |-> i, row |-> rows[i]]]
  <2>1. f \in Surjection(J, R)
    BY <1>1 DEF Surjection
  <2> HIDE DEF J, R
  <2> QED BY <1>3, <2>1, FS_Surjection
<1> QED BY <1>2, <1>4

\* What a step does to a pull: nothing, a query, or an end or a new beginning.
LEMMA PullMoves ==
  ASSUME SeqInv, [Next]_vars, NEW d \in Devices
  PROVE  \/ pull'[d] = pull[d] /\ asOf'[d] = asOf[d]
         \/ pull'[d].got = {} /\ pull'[d].table = 0
         \/ /\ pull'[d].got = {} /\ pull'[d].table = 1 /\ pull'[d].since = cursor[d]
            /\ UNCHANGED shared
         \/ PullTable(d)
<1>1. pull \in [Devices -> [table : 0..(NTables + 1), since : Nat,
                           got : SUBSET Entry, more : BOOLEAN]]
      /\ asOf \in [Devices -> [Ids -> Row \cup {None}]]
  BY DEF SeqInv, TypeOK, PullTypeOK
<1>2. ASSUME NEW e \in Devices, PullStep(e), e # d
      PROVE  pull'[d] = pull[d] /\ asOf'[d] = asOf[d]
  BY <1>1, <1>2
  DEF PullStep, PullBegin, PullTable, PullDeliver, PullLost, PullDie, Answer
<1>3. CASE PullBegin(d)
  BY <1>1, <1>3 DEF PullBegin
<1>4. CASE Answer(d) \/ PullDie(d)
  BY <1>1, <1>4 DEF Answer, PullDie, NoPull
<1>5. CASE UNCHANGED pullVars
  BY <1>5 DEF pullVars
<1> QED
  BY <1>2, <1>3, <1>4, <1>5 DEF Next, vars, PullStep, PullDeliver, PullLost

\* A query collects, of the rows of its table in range, each or a page's worth
\* below it.
LEMMA PullTableCollects ==
  ASSUME SeqInv, NEW d \in Devices, PullTable(d), IsFiniteSet(pull[d].got)
  PROVE  /\ IsFiniteSet(pull'[d].got) /\ pull[d].got \subseteq pull'[d].got
         /\ pull'[d].table = pull[d].table + 1 /\ pull'[d].since = pull[d].since
         /\ pull[d].more => pull'[d].more
         /\ pull'[d].got \subseteq
              pull[d].got \cup InRange(UserOf[d], pull[d].table, pull[d].since)
         /\ \A e \in InRange(UserOf[d], pull[d].table, pull[d].since) :
              \/ e \in pull'[d].got
              \/ /\ pull'[d].more
                 /\ Cardinality(Below(pull'[d].got, e)) >= Cap
<1> DEFINE S == InRange(UserOf[d], pull[d].table, pull[d].since)
           F == FirstBySeq(S, Cap + 1)
           K == FirstBySeq(F, Cap)
<1>1. pull \in [Devices -> [table : 0..(NTables + 1), since : Nat,
                           got : SUBSET Entry, more : BOOLEAN]]
  BY DEF SeqInv, TypeOK, PullTypeOK
<1>2. pull' = [pull EXCEPT ![d].table = @ + 1, ![d].got = @ \cup K,
                           ![d].more = @ \/ Cardinality(F) > Cap]
  BY DEF PullTable
<1>3. S \in SUBSET Entry /\ IsFiniteSet(S)
  BY InRangeEntries
<1>4. F \subseteq S /\ K \subseteq F
  BY DEF FirstBySeq
<1>5. \A e \in S : e \notin K => /\ Cardinality(F) > Cap
                                /\ Cardinality(Below(K, e)) >= Cap
  BY <1>3, NotKept, CapAssumption
<1> HIDE DEF S, F, K
<1>6. /\ pull'[d].table = pull[d].table + 1 /\ pull'[d].since = pull[d].since
      /\ pull'[d].got = pull[d].got \cup K
      /\ pull'[d].more = (pull[d].more \/ Cardinality(F) > Cap)
  BY <1>1, <1>2
<1>7. IsFiniteSet(pull'[d].got)
  <2>1. IsFiniteSet(K)
    BY <1>3, <1>4, FS_Subset
  <2> QED BY <1>6, <2>1, FS_Union
<1>8. ASSUME NEW e \in S, e \notin pull'[d].got
      PROVE  pull'[d].more /\ Cardinality(Below(pull'[d].got, e)) >= Cap
  <2>1. e \notin K /\ K \in SUBSET pull'[d].got
    BY <1>6, <1>8
  <2>2. /\ Cardinality(Below(K, e)) <= Cardinality(Below(pull'[d].got, e))
        /\ Cardinality(Below(K, e)) \in Nat
        /\ Cardinality(Below(pull'[d].got, e)) \in Nat
    BY <1>7, <2>1, BelowCard
  <2>3. Cardinality(F) > Cap /\ Cardinality(Below(K, e)) >= Cap
    BY <1>5, <2>1
  <2>4. pull'[d].more
    BY <1>6, <2>3
  <2> QED BY <2>2, <2>3, <2>4, CapAssumption
<1> QED BY <1>4, <1>6, <1>7, <1>8 DEF S

LEMMA TablesKeeps ==
  ASSUME PageInv, [Next]_vars
  PROVE  TablesRead'
<1>1. SeqInv /\ SeqInv'
  BY SeqInvStep DEF PageInv
<1> SUFFICES ASSUME NEW d \in Devices
    PROVE  /\ IsFiniteSet(pull'[d].got)
           /\ \A i \in Ids : Due(d, i)' /\ TableOf[i] < pull'[d].table =>
                \/ [id |-> i, row |-> rows'[i]] \in pull'[d].got
                \/ pull'[d].more /\ FullBelow(d, i)'
  BY DEF TablesRead
<1>2. /\ IsFiniteSet(pull[d].got)
      /\ \A i \in Ids : Due(d, i) /\ TableOf[i] < pull[d].table =>
           \/ [id |-> i, row |-> rows[i]] \in pull[d].got
           \/ pull[d].more /\ FullBelow(d, i)
  BY DEF PageInv, TablesRead
<1>3. ASSUME asOf'[d] = asOf[d], pull'[d].since = pull[d].since,
             NEW i \in Ids, Due(d, i)'
      PROVE  /\ Due(d, i) /\ rows'[i] = rows[i]
             /\ asOf[d][i].seq > pull[d].since /\ OwnRow(UserOf[d], rows[i])
  <2>1. /\ asOf[d][i] # None /\ asOf[d][i].owner = UserOf[d]
        /\ asOf[d][i].seq > pull[d].since /\ rows'[i] = asOf[d][i]
    BY <1>3 DEF Due, OwnRow
  <2>2. rows'[i] = rows[i]
    BY <2>1, NotBack
  <2> QED BY <2>1, <2>2 DEF Due, OwnRow
<1>4. CASE pull'[d] = pull[d] /\ asOf'[d] = asOf[d]
  <2>1. ASSUME NEW i \in Ids, Due(d, i)', TableOf[i] < pull'[d].table
        PROVE  \/ [id |-> i, row |-> rows'[i]] \in pull'[d].got
               \/ pull'[d].more /\ FullBelow(d, i)'
    <3>1. Due(d, i) /\ rows'[i] = rows[i]
      BY <1>3, <1>4, <2>1
    <3>2. FullBelow(d, i)' <=> FullBelow(d, i)
      BY <1>4, <3>1 DEF FullBelow
    <3> QED BY <1>2, <1>4, <2>1, <3>1, <3>2
  <2> QED BY <1>2, <1>4, <2>1
<1>5. CASE pull'[d].got = {} /\ pull'[d].table \in {0, 1}
  <2>1. \A i \in Ids : ~(TableOf[i] < pull'[d].table)
    BY <1>5, TablesAssumption
  <2> QED BY <1>5, <2>1, FS_EmptySet
<1>6. CASE PullTable(d)
  <2>1. /\ IsFiniteSet(pull'[d].got) /\ pull[d].got \subseteq pull'[d].got
        /\ pull'[d].table = pull[d].table + 1 /\ pull'[d].since = pull[d].since
        /\ pull[d].more => pull'[d].more
        /\ \A e \in InRange(UserOf[d], pull[d].table, pull[d].since) :
              \/ e \in pull'[d].got
              \/ pull'[d].more /\ Cardinality(Below(pull'[d].got, e)) >= Cap
    BY <1>1, <1>2, <1>6, PullTableCollects
  <2>2. UNCHANGED <<rows, asOf>>
    BY <1>6 DEF PullTable
  <2>3. ASSUME NEW i \in Ids, Due(d, i)', TableOf[i] < pull'[d].table
        PROVE  \/ [id |-> i, row |-> rows'[i]] \in pull'[d].got
               \/ pull'[d].more /\ FullBelow(d, i)'
    <3> DEFINE e == [id |-> i, row |-> rows[i]]
    <3>1. /\ Due(d, i) /\ OwnRow(UserOf[d], rows[i])
          /\ rows[i].seq > pull[d].since
      BY <1>3, <2>1, <2>2, <2>3 DEF Due
    <3>2. Cardinality(Below(pull'[d].got, e)) >= Cap => FullBelow(d, i)'
      BY <2>2 DEF Below, FullBelow
    <3>3. CASE TableOf[i] < pull[d].table
      <4>1. FullBelow(d, i) => FullBelow(d, i)'
        <5>1. FullBelow(d, i) => Cardinality(Below(pull[d].got, e)) >= Cap
          BY DEF Below, FullBelow
        <5>2. /\ Cardinality(Below(pull[d].got, e)) <= Cardinality(Below(pull'[d].got, e))
              /\ Cardinality(Below(pull[d].got, e)) \in Nat
              /\ Cardinality(Below(pull'[d].got, e)) \in Nat
          BY <2>1, BelowCard
        <5> QED BY <3>2, <5>1, <5>2, CapAssumption
      <4> QED BY <1>2, <2>1, <2>2, <3>1, <3>3, <4>1
    <3>4. CASE TableOf[i] = pull[d].table
      <4>1. e \in InRange(UserOf[d], pull[d].table, pull[d].since)
        BY <3>1, <3>4 DEF InRange
      <4> QED BY <2>1, <2>2, <3>2, <4>1
    <3>5. TableOf[i] \in Nat /\ pull[d].table \in Nat
      BY <1>1, TablesAssumption DEF SeqInv, TypeOK, PullTypeOK
    <3> QED BY <2>1, <2>3, <3>3, <3>4, <3>5
  <2> QED BY <2>1, <2>3
<1> QED BY <1>1, <1>4, <1>5, <1>6, PullMoves

-----------------------------------------------------------------------------
(* The invariant of the specification, and the two properties              *)

LEMMA PageInvInit == Init => PageInv
<1> SUFFICES ASSUME Init PROVE PageInv
  OBVIOUS
<1>1. \A d \in Devices : /\ pull[d].got = {} /\ pull[d].table = 0
                         /\ \A i \in Ids : asOf[d][i] = None
  BY DEF Init, PullInit, NoPull, NoRows
<1>2. AsOfSpent
  BY <1>1 DEF AsOfSpent
<1>3. TablesRead
  <2>1. \A i \in Ids : ~(TableOf[i] < 0)
    BY TablesAssumption
  <2> QED BY <1>1, <2>1, FS_EmptySet DEF TablesRead
<1> QED BY <1>2, <1>3, SeqInvInit DEF PageInv

\* PageInv holds in every reachable state.
THEOREM PageInvariant == Spec => []PageInv
<1>1. PageInv /\ [Next]_vars => PageInv'
  BY SeqInvStep, AsOfKeeps, TablesKeeps DEF PageInv
<1> QED BY PageInvInit, <1>1, PTL DEF Spec

\* The cursor is the number of the last entry of a page that has one.
LEMMA NewCursorLast ==
  ASSUME PageInv, NEW d \in Devices
  PROVE  /\ NewCursor(d) \in Nat
         /\ Page(d) # {} => NewCursor(d) <= lastSeq[UserOf[d]]
         /\ Page(d) # {} => \E x \in Page(d) : NewCursor(d) = x.row.seq
         /\ \A x \in Page(d) : x.row.seq <= NewCursor(d)
<1>1. SeqInv /\ pull[d].got \subseteq Entry /\ Page(d) \subseteq Entry
  BY PageGot DEF PageInv, SeqInv, TypeOK, PullTypeOK
<1> SUFFICES ASSUME Page(d) # {}
    PROVE  /\ NewCursor(d) <= lastSeq[UserOf[d]]
           /\ \E x \in Page(d) : NewCursor(d) = x.row.seq
           /\ \A x \in Page(d) : x.row.seq <= NewCursor(d)
  BY <1>1, NewCursorIsNat DEF SeqInv
<1> DEFINE S == {x.row.seq : x \in Page(d)}
<1>2. NewCursor(d) = CHOOSE s \in S : \A x \in Page(d) : x.row.seq <= s
  BY DEF NewCursor
<1>3. S \in SUBSET Nat /\ S # {}
  BY <1>1 DEF Entry, Row
<1>4. lastSeq[UserOf[d]] \in Nat /\ \A s \in S : s <= lastSeq[UserOf[d]]
  BY <1>1, PageGot, DevicesAssumption DEF SeqInv, GotBounded, TypeOK, StateTypeOK
<1>5. \E s \in S : \A t \in S : t <= s
  BY <1>3, <1>4, Largest
<1>6. \E s \in S : \A x \in Page(d) : x.row.seq <= s
  BY <1>5
<1>7. NewCursor(d) \in S /\ \A x \in Page(d) : x.row.seq <= NewCursor(d)
  BY <1>2, <1>6
<1> QED BY <1>4, <1>7

\* An entry collected at or below the cursor a page answers with is on the page.
LEMMA OnPage ==
  ASSUME PageInv, NEW d \in Devices, NEW i \in Ids, rows[i] \in Row,
         rows[i].seq > pull[d].since, rows[i].seq <= NewCursor(d)
  PROVE  /\ ~FullBelow(d, i)
         /\ [id |-> i, row |-> rows[i]] \in pull[d].got
              => [id |-> i, row |-> rows[i]] \in Page(d)
         /\ \E m \in pull[d].got : rows[i].seq <= m.row.seq
<1> DEFINE e == [id |-> i, row |-> rows[i]]
           G == pull[d].got
<1>1. /\ SeqInv /\ IsFiniteSet(G) /\ G \subseteq Entry
      /\ pull[d].since \in Nat /\ rows[i].seq \in Nat
  BY DEF PageInv, TablesRead, SeqInv, TypeOK, PullTypeOK, Row
<1>2. NewCursor(d) \in Nat
  BY <1>1, NewCursorIsNat DEF SeqInv
<1>3. Page(d) # {}
  BY <1>1 DEF NewCursor
<1>4. PICK m \in Page(d) : rows[i].seq <= m.row.seq
  BY <1>3, NewCursorLast
<1>5. m \in G /\ m.row.seq \in Nat /\ Cardinality(Below(G, m)) < Cap
  BY <1>1, <1>4, PageGot, Taken DEF Page, Entry, Row
<1>6. \A x \in G : x.row.seq < e.row.seq => x.row.seq < m.row.seq
  BY <1>1, <1>4, <1>5 DEF Entry, Row
<1>7. /\ Cardinality(Below(G, e)) <= Cardinality(Below(G, m))
      /\ Cardinality(Below(G, e)) \in Nat /\ Cardinality(Below(G, m)) \in Nat
  BY <1>1, <1>6, BelowCard
<1>8. Cardinality(Below(G, e)) < Cap
  BY <1>5, <1>7, CapAssumption
<1>9. ~FullBelow(d, i)
  <2>1. FullBelow(d, i) <=> Cardinality(Below(G, e)) >= Cap
    BY DEF FullBelow, Below
  <2> QED BY <1>7, <1>8, <2>1, CapAssumption
<1>10. e \in G => e \in Page(d)
  BY <1>8, Taken DEF Page
<1> QED BY <1>4, <1>5, <1>9, <1>10

\* All tables have been queried for what is due when a page is put together.
LEMMA DueCollected ==
  ASSUME PageInv, NEW d \in Devices, NEW i \in Ids, Collected(d), Due(d, i)
  PROVE  /\ rows[i] \in Row /\ rows[i].seq > pull[d].since
         /\ \/ [id |-> i, row |-> rows[i]] \in pull[d].got
            \/ pull[d].more /\ FullBelow(d, i)
<1>1. rows[i] \in Row /\ rows[i].seq > pull[d].since
  BY AsOfRow DEF Due, OwnRow, PageInv
<1>2. TableOf[i] < pull[d].table
  BY TablesAssumption DEF Collected
<1> QED BY <1>1, <1>2 DEF PageInv, TablesRead

\* Whatever commits while a pull queries one table after another, its page holds
\* every row that was due below the cursor it answers with (SyncService.pull).
THEOREM PagesComplete == Spec => []PageComplete
<1>1. PageInv => PageComplete
  <2> SUFFICES ASSUME PageInv, NEW d \in Devices, NEW i \in Ids,
                      Collected(d), Due(d, i), rows[i].seq <= NewCursor(d)
      PROVE  [id |-> i, row |-> rows[i]] \in Page(d)
    BY DEF PageComplete
  <2> QED BY DueCollected, OnPage
<1> QED BY PageInvariant, <1>1, PTL

\* A page that does not say "hasMore" holds every row that was due: a client that
\* believes it stops with nothing missing (SyncService.pull).
THEOREM PagesDoNotStopEarly == Spec => []NoEarlyStop
<1>1. PageInv => NoEarlyStop
  <2> SUFFICES ASSUME PageInv, NEW d \in Devices, NEW i \in Ids,
                      Collected(d), ~HasMore(d), Due(d, i)
      PROVE  [id |-> i, row |-> rows[i]] \in Page(d)
    BY DEF NoEarlyStop
  <2> DEFINE e == [id |-> i, row |-> rows[i]]
             G == pull[d].got
  <2>1. /\ e \in G /\ rows[i] \in Row
        /\ IsFiniteSet(G) /\ ~(Cardinality(G) > Cap) /\ Cardinality(G) \in Nat
    BY DueCollected, FS_CardinalityType DEF HasMore, PageInv, TablesRead
  <2> HIDE DEF e, G
  <2>2. IsFiniteSet(G \ {e}) /\ Cardinality(G \ {e}) = Cardinality(G) - 1
    BY <2>1, FS_RemoveElement
  <2>3. Below(G, e) \subseteq G \ {e}
    BY <2>1 DEF Below, Row, e
  <2>4. /\ IsFiniteSet(Below(G, e))
        /\ Cardinality(Below(G, e)) <= Cardinality(G \ {e})
        /\ Cardinality(Below(G, e)) \in Nat
    BY <2>2, <2>3, FS_Subset, FS_CardinalityType
  <2>5. Cardinality(Below(G, e)) < Cap
    BY <2>1, <2>2, <2>4, CapAssumption
  <2> QED BY <2>1, <2>5, Taken DEF Page, e, G
<1> QED BY PageInvariant, <1>1, PTL

-----------------------------------------------------------------------------
(* The change feed: what a step does                                       *)

\* A row changes at the commit of a push of its account, to a number above the
\* account's counter, hence above everything any of its devices has seen.
LEMMA Published ==
  ASSUME FeedInv, PushesOnly, [Next]_vars, NEW i \in Ids, rows'[i] # rows[i]
  PROVE  \E c \in Devices :
           /\ PushCommit(c)
           /\ rows'[i] = draft[c][i] /\ rows'[i] # None
           /\ rows'[i].owner = UserOf[c]
           /\ rows'[i].seq \in Nat /\ rows'[i].seq > lastSeq[UserOf[c]]
           /\ rows[i] # None => rows[i].owner = UserOf[c]
BY ChangedRow DEF FeedInv, PageInv, PushesOnly

\* A device's cursor and rows move when it receives a page, and then only.
LEMMA DeviceMoves ==
  ASSUME FeedInv, PushesOnly, [Next]_vars, NEW d \in Devices
  PROVE  \/ cursor'[d] = cursor[d] /\ held'[d] = held[d]
         \/ /\ PullDeliver(d) /\ UNCHANGED rows
            /\ cursor'[d] = NewCursor(d) /\ held'[d] = Received(d)
<1>1. cursor \in [Devices -> Nat] /\ held \in [Devices -> [Ids -> Row \cup {None}]]
  BY DEF FeedInv, PageInv, SeqInv, TypeOK, StateTypeOK
<1>2. ASSUME NEW e \in Devices, PushStep(e) PROVE UNCHANGED <<cursor, held>>
  <2>1. CASE PushReply(e)
    BY <2>1 DEF PushReply, CursorsAfterReply, PushesOnly
  <2>2. CASE ~PushReply(e)
    BY <1>2, <2>2
    DEF PushStep, PushBegin, PushConflict, PushNoop, PushRefuse, PushFind, PushWrite,
        PushCollide, PushFail, PushCommit, Rollback
  <2> QED BY <2>1, <2>2
<1>3. ASSUME NEW e \in Devices, PullDeliver(e)
      PROVE  \/ cursor'[d] = cursor[d] /\ held'[d] = held[d]
             \/ /\ PullDeliver(d) /\ UNCHANGED rows
                /\ cursor'[d] = NewCursor(d) /\ held'[d] = Received(d)
  BY <1>1, <1>3 DEF PullDeliver, Answer
<1>4. ASSUME NEW e \in Devices, PullStep(e), ~PullDeliver(e)
      PROVE  UNCHANGED <<cursor, held>>
  BY <1>4 DEF PullStep, PullBegin, PullTable, PullLost, PullDie
<1>5. CASE UNCHANGED vars
  BY <1>5 DEF vars
<1>6. ASSUME NEW w \in Handlers PROVE FALSE
  BY <1>6 DEF PushesOnly
<1> QED BY <1>2, <1>3, <1>4, <1>5, <1>6 DEF Next

\* A page lies between the cursor its pull began at and the one it answers with.
LEMMA PageBetween ==
  ASSUME FeedInv, NEW d \in Devices, Collected(d)
  PROVE  /\ NewCursor(d) \in Nat
         /\ cursor[d] <= NewCursor(d) /\ NewCursor(d) <= lastSeq[UserOf[d]]
         /\ pull[d].since = cursor[d]
         /\ \A x \in Page(d) :
              /\ x \in pull[d].got /\ x \in Entry /\ x.row.owner = UserOf[d]
              /\ x.row.seq > cursor[d] /\ x.row.seq <= NewCursor(d)
<1>1. /\ PageInv /\ SeqInv /\ pull[d].since \in Nat /\ pull[d].got \subseteq Entry
      /\ pull[d].table # 0 /\ cursor[d] \in Nat
  BY TablesAssumption
  DEF FeedInv, PageInv, SeqInv, TypeOK, PullTypeOK, StateTypeOK, Collected
<1>2. pull[d].since = cursor[d] /\ cursor[d] <= lastSeq[UserOf[d]]
  BY <1>1 DEF FeedInv, CursorsBehind
<1>3. \A x \in Page(d) :
        /\ x \in pull[d].got /\ x \in Entry /\ x.row.owner = UserOf[d]
        /\ x.row.seq > cursor[d] /\ x.row.seq <= NewCursor(d)
  BY <1>1, <1>2, PageGot, NewCursorLast DEF FeedInv, GotCurrent
<1>4. CASE Page(d) = {}
  BY <1>1, <1>2, <1>3, <1>4 DEF NewCursor
<1>5. CASE Page(d) # {}
  <2>1. PICK x \in Page(d) : NewCursor(d) = x.row.seq
    BY <1>1, <1>5, NewCursorLast
  <2>2. /\ NewCursor(d) <= lastSeq[UserOf[d]] /\ NewCursor(d) \in Nat
        /\ NewCursor(d) > cursor[d]
    BY <1>1, <1>3, <1>5, <2>1, NewCursorLast
  <2> QED BY <1>1, <1>2, <1>3, <2>2
<1> QED BY <1>4, <1>5

-----------------------------------------------------------------------------
(* The invariant                                                           *)

LEMMA CursorsKeep ==
  ASSUME FeedInv, PushesOnly, [Next]_vars
  PROVE  CursorsBehind'
<1> SUFFICES ASSUME NEW d \in Devices
    PROVE  /\ cursor'[d] <= lastSeq'[UserOf[d]]
           /\ pull'[d].table # 0 => pull'[d].since = cursor'[d]
  BY DEF CursorsBehind
<1>1. /\ SeqInv /\ UserOf[d] \in Users /\ cursor[d] \in Nat
      /\ cursor[d] <= lastSeq[UserOf[d]]
      /\ pull[d].table # 0 => pull[d].since = cursor[d]
  BY DevicesAssumption
  DEF FeedInv, PageInv, SeqInv, TypeOK, StateTypeOK, CursorsBehind
<1>2. /\ lastSeq[UserOf[d]] \in Nat /\ lastSeq'[UserOf[d]] \in Nat
      /\ lastSeq'[UserOf[d]] >= lastSeq[UserOf[d]]
  BY <1>1, CountersGrow
<1>3. cursor'[d] <= lastSeq'[UserOf[d]]
  <2>1. CASE cursor'[d] = cursor[d]
    BY <1>1, <1>2, <2>1
  <2>2. CASE PullDeliver(d) /\ cursor'[d] = NewCursor(d)
    <3>1. Collected(d)
      BY <2>2 DEF PullDeliver, Answer
    <3> QED BY <1>2, <2>2, <3>1, PageBetween
  <2> QED BY <2>1, <2>2, DeviceMoves
<1>4. pull'[d].table # 0 => pull'[d].since = cursor'[d]
  <2>1. CASE PullDeliver(d)
    BY <1>1, <2>1 DEF PullDeliver, Answer, NoPull, SeqInv, TypeOK, PullTypeOK
  <2>2. CASE cursor'[d] = cursor[d]
    <3>1. CASE PullTable(d)
      <4>1. IsFiniteSet(pull[d].got) /\ pull[d].table # 0
        BY <3>1 DEF FeedInv, PageInv, TablesRead, PullTable
      <4>2. pull'[d].since = pull[d].since
        BY <1>1, <3>1, <4>1, PullTableCollects
      <4> QED BY <1>1, <2>2, <4>1, <4>2
    <3> QED BY <1>1, <2>2, <3>1, PullMoves
  <2> QED BY <2>1, <2>2, DeviceMoves
<1> QED BY <1>3, <1>4

LEMMA GotKeeps ==
  ASSUME FeedInv, PushesOnly, [Next]_vars
  PROVE  GotCurrent' /\ NotGot'
<1>1. /\ SeqInv /\ NTables = 1 /\ rows \in [Ids -> Row \cup {None}]
      /\ pull \in [Devices -> [table : 0..(NTables + 1), since : Nat,
                               got : SUBSET Entry, more : BOOLEAN]]
  BY DEF FeedInv, PageInv, SeqInv, TypeOK, StateTypeOK, PullTypeOK, PushesOnly
<1> SUFFICES ASSUME NEW d \in Devices
    PROVE  /\ pull'[d].table = 1 => pull'[d].got = {}
           /\ \A e \in pull'[d].got :
                /\ e.row.owner = UserOf[d] /\ e.row.seq > pull'[d].since
                /\ OwnRow(UserOf[d], rows'[e.id])
                /\ \/ rows'[e.id] = e.row
                   \/ \A f \in pull'[d].got : f.row.seq < rows'[e.id].seq
           /\ \A i \in Ids :
                Collected(d)' /\ OwnRow(UserOf[d], rows'[i])
                    /\ rows'[i].seq > pull'[d].since =>
                  \/ [id |-> i, row |-> rows'[i]] \in pull'[d].got
                  \/ FullBelow(d, i)'
                  \/ \A e \in pull'[d].got : e.row.seq < rows'[i].seq
  BY DEF GotCurrent, NotGot, OwnRow
<1>2. ASSUME NEW i \in Ids, rows'[i] # rows[i], OwnRow(UserOf[d], rows'[i])
      PROVE  \A e \in pull[d].got : e.row.seq < rows'[i].seq
  <2>1. rows'[i].seq \in Nat /\ rows'[i].seq > lastSeq[UserOf[d]]
    BY <1>2, Published DEF OwnRow
  <2>2. \A e \in pull[d].got : e.row.seq \in Nat /\ e.row.seq <= lastSeq[UserOf[d]]
    BY <1>1 DEF SeqInv, GotBounded, Entry, Row
  <2>3. lastSeq[UserOf[d]] \in Nat
    BY <1>1, DevicesAssumption DEF SeqInv, TypeOK, StateTypeOK
  <2> QED BY <2>1, <2>2, <2>3
<1>3. ASSUME NEW i \in Ids, OwnRow(UserOf[d], rows[i])
      PROVE  OwnRow(UserOf[d], rows'[i])
  <2>1. CASE rows'[i] # rows[i]
    BY <1>3, <2>1, Published DEF OwnRow
  <2> QED BY <1>3, <2>1
<1>4. CASE pull'[d] = pull[d]
  <2>1. pull[d].table = 1 => pull[d].got = {}
    BY DEF FeedInv, GotCurrent
  <2>2. ASSUME NEW e \in pull[d].got
        PROVE  /\ e.row.owner = UserOf[d] /\ e.row.seq > pull[d].since
               /\ OwnRow(UserOf[d], rows'[e.id])
               /\ \/ rows'[e.id] = e.row
                  \/ \A f \in pull[d].got : f.row.seq < rows'[e.id].seq
    <3>1. /\ e.row.owner = UserOf[d] /\ e.row.seq > pull[d].since
          /\ OwnRow(UserOf[d], rows[e.id])
          /\ \/ rows[e.id] = e.row
             \/ \A f \in pull[d].got : f.row.seq < rows[e.id].seq
      BY DEF FeedInv, GotCurrent
    <3>2. e.id \in Ids
      BY <1>1 DEF Entry
    <3> QED BY <1>2, <1>3, <3>1, <3>2
  <2>3. ASSUME NEW i \in Ids, Collected(d)', OwnRow(UserOf[d], rows'[i]),
               rows'[i].seq > pull[d].since
        PROVE  \/ [id |-> i, row |-> rows'[i]] \in pull[d].got
               \/ FullBelow(d, i)'
               \/ \A e \in pull[d].got : e.row.seq < rows'[i].seq
    <3>1. CASE rows'[i] = rows[i]
      <4>1. Collected(d) /\ (FullBelow(d, i) => FullBelow(d, i)')
        BY <1>4, <2>3, <3>1 DEF Collected, FullBelow
      <4> QED BY <2>3, <3>1, <4>1 DEF FeedInv, NotGot
    <3> QED BY <1>2, <2>3, <3>1
  <2> QED BY <1>4, <2>1, <2>2, <2>3
<1>5. CASE pull'[d].got = {} /\ pull'[d].table \in {0, 1}
  <2>1. ~Collected(d)'
    BY <1>1, <1>5 DEF Collected
  <2> QED BY <1>5, <2>1
<1>6. CASE PullTable(d)
  <2>1. pull[d].table = 1 /\ pull[d].got = {} /\ UNCHANGED rows
    BY <1>1, <1>6 DEF PullTable, FeedInv, GotCurrent
  <2>2. /\ pull'[d].table = 2 /\ pull'[d].since = pull[d].since
        /\ pull'[d].got \subseteq InRange(UserOf[d], 1, pull[d].since)
        /\ \A e \in InRange(UserOf[d], 1, pull[d].since) :
             e \in pull'[d].got \/ Cardinality(Below(pull'[d].got, e)) >= Cap
    <3>1. IsFiniteSet(pull[d].got)
      BY DEF FeedInv, PageInv, TablesRead
    <3> DEFINE R == InRange(UserOf[d], 1, pull[d].since)
    <3>2. /\ pull'[d].table = 1 + 1 /\ pull'[d].since = pull[d].since
          /\ pull'[d].got \subseteq {} \cup R
          /\ \A e \in R :
               \/ e \in pull'[d].got
               \/ /\ pull'[d].more
                  /\ Cardinality(Below(pull'[d].got, e)) >= Cap
      BY <1>1, <1>6, <2>1, <3>1, PullTableCollects
    <3> HIDE DEF R
    <3>3. pull'[d].table = 2 /\ pull'[d].got \subseteq R
      BY <3>2
    <3> QED BY <3>2, <3>3 DEF R
  <2>3. \A e \in pull'[d].got :
          /\ rows[e.id] = e.row /\ e.row.owner = UserOf[d]
          /\ e.row.seq > pull[d].since /\ OwnRow(UserOf[d], rows[e.id])
    BY <2>2 DEF InRange, OwnRow
  <2>4. ASSUME NEW i \in Ids, OwnRow(UserOf[d], rows[i]), rows[i].seq > pull[d].since
        PROVE  [id |-> i, row |-> rows[i]] \in pull'[d].got \/ FullBelow(d, i)'
    <3> DEFINE e == [id |-> i, row |-> rows[i]]
    <3>1. TableOf[i] = 1
      BY <1>1, TablesAssumption
    <3>2. e \in InRange(UserOf[d], 1, pull[d].since)
      BY <2>4, <3>1 DEF InRange
    <3>3. Cardinality(Below(pull'[d].got, e)) >= Cap => FullBelow(d, i)'
      BY <2>1 DEF Below, FullBelow
    <3> QED BY <2>2, <3>2, <3>3
  <2> QED BY <2>1, <2>2, <2>3, <2>4
<1> QED BY <1>1, <1>4, <1>5, <1>6, PullMoves


\* A device has a received row from the page, and the others from before.
LEMMA ReceivedRow ==
  ASSUME NEW d \in Devices, NEW i \in Ids
  PROVE  /\ (\A x \in Page(d) : x.id # i) => Received(d)[i] = held[d][i]
         /\ (\E x \in Page(d) : x.id = i) =>
              \E x \in Page(d) : x.id = i /\ Received(d)[i] = x.row
BY DEF Received

\* What a device has after a page is current up to the cursor the page answers
\* with, whatever was published while the page was being read.
LEMMA ReceivedCurrent ==
  ASSUME FeedInv, NEW d \in Devices, NEW i \in Ids, Collected(d),
         OwnRow(UserOf[d], rows[i]), rows[i].seq <= NewCursor(d)
  PROVE  Received(d)[i] = rows[i]
<1> DEFINE e == [id |-> i, row |-> rows[i]]
           G == pull[d].got
<1>1. /\ PageInv /\ rows[i] \in Row /\ rows[i].seq \in Nat
      /\ G \subseteq Entry /\ Page(d) \subseteq G
      /\ cursor[d] \in Nat
  BY PageGot
  DEF FeedInv, PageInv, SeqInv, TypeOK, StateTypeOK, PullTypeOK, OwnRow, Row
<1>2. /\ pull[d].since = cursor[d]
      /\ \A x \in Page(d) : x.row.seq > cursor[d]
  BY PageBetween
<1>3. ASSUME NEW x \in Page(d), x.id = i
      PROVE  \/ rows[i] = x.row
             \/ \A f \in G : f.row.seq < rows[i].seq
  BY <1>1, <1>3 DEF FeedInv, GotCurrent
<1>4. \A f \in G : f.row.seq \in Nat
  BY <1>1 DEF Entry, Row
<1>5. CASE rows[i].seq > cursor[d]
  <2>1. /\ ~FullBelow(d, i)
        /\ e \in G => e \in Page(d)
        /\ \E m \in G : rows[i].seq <= m.row.seq
    BY <1>1, <1>2, <1>5, OnPage
  <2>2. ~(\A f \in G : f.row.seq < rows[i].seq)
    BY <1>1, <1>4, <2>1
  <2>3. e \in Page(d)
    BY <1>2, <1>5, <2>1, <2>2 DEF FeedInv, NotGot
  <2>4. \E x \in Page(d) : x.id = i
    BY <2>3
  <2>5. PICK x \in Page(d) : x.id = i /\ Received(d)[i] = x.row
    BY <2>4, ReceivedRow
  <2> QED BY <1>3, <2>2, <2>5
<1>6. CASE ~(rows[i].seq > cursor[d])
  <2>1. \A x \in Page(d) : x.row.seq > rows[i].seq
    BY <1>1, <1>2, <1>4, <1>6
  <2>2. \A x \in Page(d) : x.id # i
    BY <1>1, <1>3, <1>4, <2>1
  <2>3. held[d][i] = rows[i]
    BY <1>1, <1>6 DEF FeedInv, Covered
  <2> QED BY <2>2, <2>3, ReceivedRow
<1> QED BY <1>5, <1>6

LEMMA CoveredKeeps ==
  ASSUME FeedInv, PushesOnly, [Next]_vars
  PROVE  Covered'
<1> SUFFICES ASSUME NEW d \in Devices, NEW i \in Ids,
                    OwnRow(UserOf[d], rows'[i]), rows'[i].seq <= cursor'[d]
    PROVE  held'[d][i] = rows'[i]
  BY DEF Covered, OwnRow
<1>1. CASE cursor'[d] = cursor[d] /\ held'[d] = held[d]
  <2>1. CASE rows'[i] = rows[i]
    BY <1>1, <2>1 DEF FeedInv, Covered
  <2>2. CASE rows'[i] # rows[i]
    <3>1. rows'[i].seq \in Nat /\ rows'[i].seq > lastSeq[UserOf[d]]
      BY <2>2, Published DEF OwnRow
    <3>2. /\ cursor[d] \in Nat /\ lastSeq[UserOf[d]] \in Nat
          /\ cursor[d] <= lastSeq[UserOf[d]]
      BY DevicesAssumption
      DEF FeedInv, PageInv, SeqInv, TypeOK, StateTypeOK, CursorsBehind
    <3> QED BY <1>1, <3>1, <3>2
  <2> QED BY <2>1, <2>2
<1>2. CASE /\ PullDeliver(d) /\ UNCHANGED rows
           /\ cursor'[d] = NewCursor(d) /\ held'[d] = Received(d)
  <2>1. Collected(d)
    BY <1>2 DEF PullDeliver, Answer
  <2> QED BY <1>2, <2>1, ReceivedCurrent
<1> QED BY <1>1, <1>2, DeviceMoves

LEMMA FeedInvInit == Init => FeedInv
<1> SUFFICES ASSUME Init PROVE FeedInv
  OBVIOUS
<1>1. \A d \in Devices :
        /\ pull[d].got = {} /\ pull[d].table = 0 /\ cursor[d] = 0
        /\ \A i \in Ids : rows[i] = None
        /\ lastSeq[UserOf[d]] = 0
  BY DevicesAssumption DEF Init, PullInit, NoPull, StateInit, NoRows
<1>2. CursorsBehind
  BY <1>1 DEF CursorsBehind
<1>3. GotCurrent /\ NotGot /\ Covered
  BY <1>1 DEF GotCurrent, NotGot, Covered, OwnRow
<1> QED BY <1>2, <1>3, PageInvInit DEF FeedInv

\* FeedInv holds in every reachable state of an engine only pushes write through.
THEOREM FeedInvariant ==
  ASSUME PushesOnly
  PROVE  Spec => []FeedInv
<1>1. FeedInv /\ [Next]_vars => FeedInv'
  <2>1. PageInv /\ [Next]_vars => PageInv'
    BY SeqInvStep, AsOfKeeps, TablesKeeps DEF PageInv
  <2> QED BY <2>1, CursorsKeep, GotKeeps, CoveredKeeps DEF FeedInv
<1> QED BY FeedInvInit, <1>1, PTL DEF Spec

\* A device that has passed a row's number has the row as it is: no pull ever
\* skips what a push publishes, however the two interleave (SyncService.pull,
\* SyncService.push).
THEOREM CursorsCover ==
  ASSUME PushesOnly
  PROVE  Spec => []Covered
<1>1. FeedInv => Covered
  BY DEF FeedInv
<1> QED BY FeedInvariant, <1>1, PTL

\* A page holds rows of the device's account, and a row does not change hands.
LEMMA HeldKeeps ==
  ASSUME FeedInv, PushesOnly, [Next]_vars, HeldOwn
  PROVE  HeldOwn'
<1> SUFFICES ASSUME NEW d \in Devices, NEW i \in Ids, held'[d][i] # None
    PROVE  OwnRow(UserOf[d], rows'[i])
  BY DEF HeldOwn, OwnRow
<1>1. ASSUME OwnRow(UserOf[d], rows[i]) PROVE OwnRow(UserOf[d], rows'[i])
  <2>1. CASE rows'[i] # rows[i]
    BY <1>1, <2>1, Published DEF OwnRow
  <2> QED BY <1>1, <2>1
<1>2. CASE held'[d] = held[d]
  BY <1>1, <1>2 DEF HeldOwn
<1>3. CASE PullDeliver(d) /\ held'[d] = Received(d)
  <2>1. Collected(d)
    BY <1>3 DEF PullDeliver, Answer
  <2>2. CASE \A x \in Page(d) : x.id # i
    BY <1>1, <1>3, <2>2, ReceivedRow DEF HeldOwn
  <2>3. CASE \E x \in Page(d) : x.id = i
    BY <1>1, <2>1, <2>3, PageBetween DEF FeedInv, GotCurrent
  <2> QED BY <2>2, <2>3
<1> QED BY <1>2, <1>3, DeviceMoves

\* There is no state in which a pull has nothing more to give and the device is
\* wrong about a row, or has a row of another account (SyncService.pull).
THEOREM CaughtUpDevicesAgree ==
  ASSUME PushesOnly
  PROVE  Spec => []CaughtUpAgrees
<1>1. Init => HeldOwn
  BY DEF Init, StateInit, NoRows, HeldOwn
<1>2. FeedInv /\ HeldOwn /\ [Next]_vars => HeldOwn'
  BY HeldKeeps
<1>3. FeedInv /\ HeldOwn => CaughtUpAgrees
  <2> SUFFICES ASSUME FeedInv, HeldOwn, NEW d \in Devices,
                      CaughtUp(d), NEW i \in Ids
               PROVE  IF OwnRow(UserOf[d], rows[i]) THEN held[d][i] = rows[i]
                                                    ELSE held[d][i] = None
    BY DEF CaughtUpAgrees, Agrees
  <2>1. CASE OwnRow(UserOf[d], rows[i])
    BY <2>1 DEF FeedInv, Covered, CaughtUp
  <2>2. CASE ~OwnRow(UserOf[d], rows[i])
    BY <2>2 DEF HeldOwn
  <2> QED BY <2>1, <2>2
<1> QED BY FeedInvariant, <1>1, <1>2, <1>3, PTL DEF Spec

-----------------------------------------------------------------------------
(* The refinement                                                          *)

\* A row keeps its version or gets one from the draft of the push that commits.
LEMMA CommitPublishes ==
  ASSUME FeedInv, PushesOnly, [Next]_vars, NEW c \in Devices, PushCommit(c)
  PROVE  Feed!Publish(UserOf[c])
<1> DEFINE u == UserOf[c]
           changed == {i \in Ids : rows'[i] # rows[i]}
<1>1. /\ SeqInv /\ u \in Users /\ lastSeq[u] \in Nat
      /\ rows \in [Ids -> Row \cup {None}]
      /\ cursor \in [Devices -> Nat]
  BY DevicesAssumption DEF FeedInv, PageInv, SeqInv, TypeOK, StateTypeOK
<1>2. ASSUME NEW i \in changed
      PROVE  /\ rows'[i] = draft[c][i] /\ draft[c][i] # None
             /\ rows'[i].owner = u /\ rows'[i].seq \in Nat
             /\ rows'[i].seq > lastSeq[u]
             /\ rows[i] # None => rows[i].owner = u
  <2>1. rows'[i] = IF draft[c][i] # None THEN draft[c][i] ELSE rows[i]
    BY <1>1, <1>2, CommittedRows
  <2>2. rows'[i] = draft[c][i] /\ draft[c][i] # None
    BY <1>2, <2>1
  <2>3. draft[c][i].owner = u /\ draft[c][i].seq > lastSeq[u]
    BY <1>1, <1>2, <2>2 DEF SeqInv, DraftNumbered
  <2>4. draft[c][i].seq \in Nat
    BY <1>1, <1>2, <2>2 DEF SeqInv, TypeOK, StateTypeOK, Row
  <2>5. rows[i] # None => rows[i].owner = u
    BY <1>1, <1>2, <2>2 DEF SeqInv, DraftOwned
  <2> QED BY <2>2, <2>3, <2>4, <2>5
<1>3. ASSUME NEW i \in changed
      PROVE  /\ rows[i] = None \/ Feed!Owned(u, i)
             /\ Feed!Owned(u, i)'
             /\ \A j \in Ids : Feed!Owned(u, j) => rows'[i].seq > rows[j].seq
             /\ \A d \in Devices : UserOf[d] = u => rows'[i].seq > cursor[d]
  <2>1. rows[i] = None \/ Feed!Owned(u, i)
    BY <1>2 DEF Feed!Owned
  <2>2. Feed!Owned(u, i)'
    BY <1>2 DEF Feed!Owned
  <2>3. ASSUME NEW j \in Ids, Feed!Owned(u, j)
        PROVE  rows'[i].seq > rows[j].seq
    <3>1. rows[j].seq \in 1..lastSeq[u]
      BY <1>1, <2>3 DEF Feed!Owned, SeqInv, SeqsDistinct
    <3> QED BY <1>1, <1>2, <3>1
  <2>4. ASSUME NEW d \in Devices, UserOf[d] = u
        PROVE  rows'[i].seq > cursor[d]
    <3>1. cursor[d] <= lastSeq[u] /\ cursor[d] \in Nat
      BY <1>1, <2>4 DEF FeedInv, CursorsBehind
    <3> QED BY <1>1, <1>2, <3>1
  <2> QED BY <2>1, <2>2, <2>3, <2>4
<1>4. ASSUME NEW i \in changed, NEW j \in changed, rows'[i].seq = rows'[j].seq
      PROVE  i = j
  BY <1>1, <1>2, <1>4 DEF SeqInv, DraftNumbered
<1>5. UNCHANGED <<cursor, held>>
  BY DEF PushCommit
<1> QED BY <1>3, <1>4, <1>5 DEF Feed!Publish

\* A page moves its device along the feed.
LEMMA PageDelivers ==
  ASSUME FeedInv, FeedInv', NEW d \in Devices, PullDeliver(d)
  PROVE  Feed!Deliver(d)
<1>1. /\ Collected(d) /\ UNCHANGED rows
      /\ cursor' = [cursor EXCEPT ![d] = NewCursor(d)]
      /\ held' = [held EXCEPT ![d] = Received(d)]
  BY DEF PullDeliver, Answer
<1>2. cursor \in [Devices -> Nat] /\ held \in [Devices -> [Ids -> Row \cup {None}]]
  BY DEF FeedInv, PageInv, SeqInv, TypeOK, StateTypeOK
<1>3. cursor'[d] = NewCursor(d) /\ held'[d] = Received(d)
  BY <1>1, <1>2
<1>4. cursor'[d] >= cursor[d]
  BY <1>1, <1>2, <1>3, PageBetween
<1>5. ASSUME NEW i \in Ids, held'[d][i] # held[d][i]
      PROVE  /\ held'[d][i] # None /\ held'[d][i].owner = UserOf[d]
             /\ held'[d][i].seq > cursor[d] /\ held'[d][i].seq <= cursor'[d]
  <2>1. PICK x \in Page(d) : held'[d][i] = x.row
    BY <1>3, <1>5, ReceivedRow
  <2>2. x \in Entry /\ x.row.owner = UserOf[d]
        /\ x.row.seq > cursor[d] /\ x.row.seq <= NewCursor(d)
    BY <1>1, PageBetween
  <2> QED BY <1>3, <2>1, <2>2, NoneAssumption DEF Entry
<1>6. \A e \in Devices \ {d} : cursor'[e] = cursor[e] /\ held'[e] = held[e]
  BY <1>1, <1>2
<1>7. Feed!Covers(d)'
  BY DEF FeedInv, Covered, Feed!Covers, Feed!Owned, OwnRow
<1> QED BY <1>1, <1>4, <1>5, <1>6, <1>7 DEF Feed!Deliver

\* Every step of the engine is a step of the feed, or one it does not see.
LEMMA FeedStep ==
  ASSUME PushesOnly, FeedInv, FeedInv', [Next]_vars
  PROVE  [Feed!Next]_Feed!feedVars
<1>1. ASSUME NEW d \in Devices, PullDeliver(d)
      PROVE  Feed!Next
  BY <1>1, PageDelivers DEF Feed!Next
<1>2. ASSUME NEW c \in Devices, PushCommit(c)
      PROVE  Feed!Next
  BY <1>2, CommitPublishes, DevicesAssumption DEF Feed!Next
<1>3. ASSUME \A d \in Devices : ~PullDeliver(d) /\ ~PushCommit(d)
      PROVE  UNCHANGED <<rows, cursor, held>>
  <2>1. ASSUME NEW d \in Devices, PushStep(d)
        PROVE  UNCHANGED <<rows, cursor, held>>
    <3>1. CASE PushReply(d)
      BY <3>1 DEF PushReply, CursorsAfterReply, PushesOnly
    <3>2. CASE ~PushReply(d)
      BY <1>3, <2>1, <3>2
      DEF PushStep, PushBegin, PushConflict, PushNoop, PushRefuse, PushFind, PushWrite,
          PushCollide, PushFail, Rollback
    <3> QED BY <3>1, <3>2
  <2>2. ASSUME NEW d \in Devices, PullStep(d)
        PROVE  UNCHANGED <<rows, cursor, held>>
    BY <1>3, <2>2 DEF PullStep, PullBegin, PullTable, PullLost, PullDie, Answer
  <2>3. CASE UNCHANGED vars
    BY <2>3 DEF vars
  <2> QED BY <2>1, <2>2, <2>3 DEF Next, PushesOnly
<1> QED BY <1>1, <1>2, <1>3 DEF Feed!feedVars

\* The sync engine implements the change feed: the clients of push and pull can
\* be understood as readers of one ordered log per account.
THEOREM EngineImplementsFeed ==
  ASSUME PushesOnly
  PROVE  Spec => ImplementsFeed
<1>1. Init => Feed!Init
  BY DEF Init, StateInit, NoRows, Feed!Init
<1>2. FeedInv /\ FeedInv' /\ [Next]_vars => [Feed!Next]_Feed!feedVars
  BY FeedStep
<1> QED BY FeedInvariant, <1>1, <1>2, PTL DEF Spec, ImplementsFeed, Feed!Spec
=============================================================================
