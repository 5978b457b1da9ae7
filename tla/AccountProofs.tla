---------------------------- MODULE AccountProofs -----------------------------
(***************************************************************************)
(* Proofs about Accounts for any number of users, requests and files: what *)
(* requests, erasures and the cache know of an account stays true of it    *)
(* until an erasure meets another request of the account.                  *)
(***************************************************************************)
EXTENDS Accounts, TLAPS, FiniteSetTheorems, SequenceTheorems

-----------------------------------------------------------------------------
(* Requests                                                                *)

LEMMA UidsOK ==
  /\ Uids \subseteq Nat /\ 0 \notin Uids
  /\ Cardinality(Uids) \in Nat
  /\ Handlers \subseteq Workers /\ Sweeper \in Workers /\ Sweeper \notin Handlers
<1>1. Cardinality(Uids) \in Nat /\ Uids = 1..Cardinality(Uids)
  BY AccountAssumption, FS_CardinalityType
<1> QED BY <1>1, AccountAssumption DEF Workers

LEMMA NoneApart ==
  None \notin User /\ None \notin Principal /\ None \notin Key /\ None \notin File
BY AccountAssumption

LEMMA IdleOK ==
  /\ Idle \in Request
  /\ Idle.op = "idle" /\ Idle.pc = "idle" /\ Idle.uid = 0 /\ Idle.id = 0
  /\ Idle.from = 0 /\ Idle.key = None /\ Idle.doomed = {} /\ Idle.listed = {}
<1>1. ASSUME NEW none \in Seq(Files)
      PROVE  [op |-> "idle", pc |-> "idle", uid |-> 0, anonymous |-> FALSE, id |-> 0,
         file |-> None, key |-> None, seq |-> 0, victim |-> 0, from |-> 0,
         moved |-> none, doomed |-> {}, rows |-> {}, listed |-> {}] \in Request
  BY DEF Request, Statements
<1>2. <<>> \in Seq(Files)
  OBVIOUS
<1> QED BY <1>1, <1>2 DEF Idle

LEMMA IdleFits ==
  ASSUME NEW w \in Workers
  PROVE  StageOK(w, Idle) /\ SubjectOK(Idle)
BY IdleOK DEF StageOK, SubjectOK, Acting, Operations, Changing, Erasing, Moving, Emptying

\* The requests' part of the invariant.
WorkersFit ==
  /\ worker \in [Workers -> Request]
  /\ \A w \in Workers : StageOK(w, worker[w]) /\ SubjectOK(worker[w])

LEMMA RequestOf ==
  ASSUME WorkersFit, NEW w \in Workers
  PROVE  worker[w] \in Request /\ StageOK(w, worker[w]) /\ SubjectOK(worker[w])
BY DEF WorkersFit

LEMMA Becomes ==
  ASSUME worker \in [Workers -> Request], NEW w \in Workers, NEW q, Become(w, q)
  PROVE  worker'[w] = q /\ \A v \in Workers : v # w => worker'[v] = worker[v]
BY DEF Become

LEMMA BecomeFits ==
  ASSUME WorkersFit, NEW w \in Workers, NEW q \in Request, Become(w, q),
         StageOK(w, q), SubjectOK(q), DOMAIN lastSeq \subseteq DOMAIN lastSeq',
         crossed \subseteq crossed'
  PROVE  WorkersFit'
<1>1. worker' \in [Workers -> Request]
  BY DEF WorkersFit, Become
<1>2. worker'[w] = q /\ \A v \in Workers : v # w => worker'[v] = worker[v]
  BY Becomes DEF WorkersFit
<1>3. ASSUME NEW v \in Workers
      PROVE  StageOK(v, worker[v])' /\ SubjectOK(worker[v])'
  <2>1. PICK r : r = worker'[v]
    OBVIOUS
  <2>2. StageOK(v, r) /\ SubjectOK(r)
    BY <1>2, <2>1 DEF WorkersFit
  <2>3. StageOK(v, worker[v])'
    BY <2>1, <2>2 DEF StageOK
  <2>4. SubjectOK(worker[v])'
    BY <2>1, <2>2 DEF SubjectOK, Known, Acting, MadeFor
  <2> QED BY <2>3, <2>4
<1> QED BY <1>1, <1>3 DEF WorkersFit

-----------------------------------------------------------------------------
(* Keys                                                                    *)

\* There is a key nobody has seen, since only finitely many are around.
LEMMA FreshKeyOK ==
  ASSUME IsFiniteSet(KeysAround), NEW id \in Nat, NEW f \in Files
  PROVE  /\ FreshKey(id, f) \in Key /\ FreshKey(id, f) \notin KeysAround
         /\ FreshKey(id, f).account = id /\ FreshKey(id, f).file = f
<1> DEFINE n == Cardinality(KeysAround)
           S == [account : {id}, file : {f}, no : 0..n]
<1>1. n \in Nat
  BY FS_CardinalityType
<1>2. \E k \in S : k \notin KeysAround
  <2> SUFFICES ASSUME S \subseteq KeysAround PROVE FALSE
    OBVIOUS
  <2> DEFINE g == [i \in 0..n |-> [account |-> id, file |-> f, no |-> i]]
  <2>1. g \in [0..n -> KeysAround]
    OBVIOUS
  <2>2. \A i, j \in 0..n : g[i] = g[j] => i = j
    OBVIOUS
  <2>3. g \in Injection(0..n, KeysAround)
    BY <2>1, <2>2 DEF Injection, IsInjective
  <2>4. IsFiniteSet(0..n) /\ Cardinality(0..n) = n + 1
    BY <1>1, FS_Interval
  <2> HIDE DEF g, n
  <2>5. Cardinality(0..n) <= Cardinality(KeysAround)
    BY <2>3, FS_Injection
  <2> QED BY <1>1, <2>4, <2>5 DEF n
<1>3. FreshKey(id, f) = CHOOSE k \in S : k \notin KeysAround
  BY DEF FreshKey
<1>4. FreshKey(id, f) \in S /\ FreshKey(id, f) \notin KeysAround
  BY <1>2, <1>3
<1>5. \A k \in S : k \in Key /\ k.account = id /\ k.file = f
  BY <1>1 DEF Key
<1> HIDE DEF S
<1> QED BY <1>4, <1>5

LEMMA KeysKept ==
  ASSUME IsFiniteSet(KeysAround), worker \in [Workers -> Request],
         NEW w \in Workers, NEW q, Become(w, q), NEW k,
         q.key \in KeysAround \union {None}, q.doomed \subseteq KeysAround,
         urls' \subseteq KeysAround \union {k}, objects' \subseteq KeysAround,
         \A f \in Files : files'[f] # None => files'[f].key \in KeysAround \union {None}
  PROVE  IsFiniteSet(KeysAround')
<1> DEFINE T == (KeysAround \union {k}) \union {None}
<1>1. IsFiniteSet(T)
  BY FS_AddElement
<1>2. worker'[w] = q /\ \A v \in Workers : v # w => worker'[v] = worker[v]
  BY Becomes
<1>3. \A v \in Workers : worker[v].key \in KeysAround /\ worker[v].doomed \subseteq KeysAround
  BY DEF KeysAround
<1>4. \A v \in Workers : worker'[v].key \in T /\ worker'[v].doomed \subseteq T
  BY <1>2, <1>3
<1>5. KeysAround' \subseteq T
  BY <1>4 DEF KeysAround
<1> QED BY <1>1, <1>5, FS_Subset

-----------------------------------------------------------------------------
(* Types                                                                   *)

MarksFit ==
  /\ firebase \in [Uids -> {"guest", "linked", "gone"}]
  /\ stale \in SUBSET (Uids \X BOOLEAN)
  /\ seenAs \in [Uids -> SUBSET {"linked", "late", "back"}]
  /\ lost \subseteq Nat
  /\ torn \in BOOLEAN

RowsFit ==
  /\ users \in [Uids -> User \union {None}]
  /\ cache \in [Uids -> Principal \union {None}]
  /\ lastSeq \in Seq(Nat)
  /\ files \in [Files -> File \union {None}]
  /\ \A u \in Uids : users[u] # None => Known(users[u].id)
  /\ \A u \in Uids : cache[u] # None => Known(cache[u].id)
  /\ \A u, v \in Uids :
       users[u] # None /\ users[v] # None /\ users[u].id = users[v].id => u = v
  /\ \A f \in Files : files[f] # None =>
       Known(files[f].owner) /\ (files[f].key # None => MadeFor(f, files[f].key))

KeysFit ==
  /\ urls \subseteq Key /\ objects \subseteq Key /\ crossed \subseteq Key
  /\ IsFiniteSet(KeysAround)

LEMMA FitParts == FitInv <=> MarksFit /\ RowsFit /\ KeysFit /\ WorkersFit
BY DEF FitInv, StateTypeOK, TablesOK, MarksFit, RowsFit, KeysFit, WorkersFit

LEMMA RowsStay ==
  ASSUME RowsFit, UNCHANGED <<users, cache, lastSeq, files>>, crossed \subseteq crossed'
  PROVE  RowsFit'
BY DEF RowsFit, Known, MadeFor

LEMMA MarksStay ==
  ASSUME MarksFit, UNCHANGED <<firebase, stale, seenAs, lost>>, NEW w, NEW q, Become(w, q)
  PROVE  MarksFit'
BY DEF MarksFit, Become

\* A statement that changes its request only, or hands out an upload URL.
LEMMA QuietFits ==
  ASSUME FitInv, NEW w \in Workers, NEW q \in Request, Become(w, q),
         StageOK(w, q), SubjectOK(q), NEW k,
         q.key \in KeysAround \union {None}, q.doomed \subseteq KeysAround,
         UNCHANGED <<users, cache, lastSeq, files, objects>>,
         crossed \subseteq crossed', crossed' \subseteq crossed \union Key,
         urls' \subseteq urls \union {k}, urls' \subseteq Key
  PROVE  RowsFit' /\ KeysFit' /\ WorkersFit'
<1>1. MarksFit /\ RowsFit /\ KeysFit /\ WorkersFit
  BY FitParts
<1>2. urls \subseteq KeysAround /\ objects \subseteq KeysAround
      /\ \A f \in Files : files[f] # None => files[f].key \in KeysAround
  BY DEF KeysAround
<1>3. urls' \subseteq KeysAround \union {k} /\ objects' \subseteq KeysAround
      /\ \A f \in Files : files'[f] # None => files'[f].key \in KeysAround \union {None}
  BY <1>2
<1>4. IsFiniteSet(KeysAround')
  BY <1>1, <1>3, KeysKept DEF KeysFit, WorkersFit
<1>5. KeysFit'
  BY <1>1, <1>4 DEF KeysFit
<1>6. WorkersFit'
  BY <1>1, BecomeFits
<1> QED BY <1>1, <1>5, <1>6, RowsStay

LEMMA KeyAround ==
  ASSUME NEW w \in Workers
  PROVE  worker[w].key \in KeysAround /\ worker[w].doomed \subseteq KeysAround
BY DEF KeysAround

LEMMA FinishFits ==
  ASSUME FitInv, NEW w \in Workers, Finish(w),
         UNCHANGED <<users, cache, lastSeq, files, urls, objects, crossed>>
  PROVE  RowsFit' /\ KeysFit' /\ WorkersFit'
<1>1. Become(w, Idle) /\ urls \subseteq Key
  BY FitParts DEF Finish, KeysFit
<1>2. Idle.key \in KeysAround \union {None} /\ Idle.doomed \subseteq KeysAround
  BY IdleOK
<1> QED BY <1>1, <1>2, IdleOK, IdleFits, QuietFits

LEMMA RequestFit ==
  ASSUME FitInv, NEW w \in Workers
  PROVE  /\ worker[w] \in Request /\ StageOK(w, worker[w]) /\ SubjectOK(worker[w])
         /\ worker[w].key \in KeysAround /\ worker[w].doomed \subseteq KeysAround
BY FitParts, RequestOf, KeyAround

\* The next statement, with a file perhaps.
LEMMA ChoseFits ==
  ASSUME FitInv, NEW w \in Workers, NEW pc \in Statements, NEW f \in Files, Chose(w, pc, f),
         StageOK(w, [worker[w] EXCEPT !.pc = pc]),
         Acting(worker[w]), worker[w].op # "confirm", pc \in {"number", "find"},
         UNCHANGED <<users, cache, lastSeq, files, urls, objects, crossed>>
  PROVE  RowsFit' /\ KeysFit' /\ WorkersFit'
<1> DEFINE r == worker[w]
           q == [r EXCEPT !.pc = pc, !.file = f]
<1>1. /\ r \in Request /\ StageOK(w, r) /\ SubjectOK(r)
      /\ r.key \in KeysAround /\ r.doomed \subseteq KeysAround
  BY RequestFit
<1>2. q \in Request
  BY <1>1 DEF Request
<1>3. q.key = r.key /\ q.doomed = r.doomed /\ q.pc = pc /\ q.file = f /\ q.op = r.op
      /\ q.uid = r.uid /\ q.id = r.id /\ q.listed = r.listed
  BY <1>1 DEF Request
<1>4. StageOK(w, q)
  BY <1>1, <1>3 DEF StageOK, Acting, Request, Operations
<1>5. SubjectOK(q)
  BY <1>1, <1>3 DEF SubjectOK, Acting, Operations, Erasing, Moving, Emptying
<1>6. Become(w, q) /\ urls \subseteq Key
  BY FitParts DEF Chose, KeysFit
<1> HIDE DEF q, r
<1> QED BY <1>1, <1>2, <1>3, <1>4, <1>5, <1>6, QuietFits

LEMMA GotoFits ==
  ASSUME FitInv, NEW w \in Workers, NEW pc \in Statements, Goto(w, pc),
         StageOK(w, [worker[w] EXCEPT !.pc = pc]),
         SubjectOK([worker[w] EXCEPT !.pc = pc]),
         UNCHANGED <<users, cache, lastSeq, files, urls, objects, crossed>>
  PROVE  RowsFit' /\ KeysFit' /\ WorkersFit'
<1> DEFINE r == worker[w]
           q == [r EXCEPT !.pc = pc]
<1>1. /\ r \in Request
      /\ r.key \in KeysAround /\ r.doomed \subseteq KeysAround
  BY RequestFit
<1>2. q \in Request /\ q.key = r.key /\ q.doomed = r.doomed
  BY <1>1 DEF Request
<1>3. Become(w, q) /\ urls \subseteq Key /\ StageOK(w, q) /\ SubjectOK(q)
  BY FitParts DEF Goto, KeysFit
<1> HIDE DEF q, r
<1> QED BY <1>1, <1>2, <1>3, QuietFits

\* A request that ends with writing one row.
LEMMA RowFits ==
  ASSUME FitInv, NEW w \in Workers, Finish(w), NEW f \in Files, NEW x \in File, NEW k,
         files' = [files EXCEPT ![f] = x],
         Known(x.owner), x.key # None => x.key \in KeysAround /\ MadeFor(f, x.key),
         urls' \subseteq urls \union {k}, urls' \subseteq Key,
         lastSeq' \in Seq(Nat), DOMAIN lastSeq' = DOMAIN lastSeq,
         UNCHANGED <<users, cache, objects, crossed>>
  PROVE  RowsFit' /\ KeysFit' /\ WorkersFit'
<1>1. RowsFit /\ KeysFit /\ WorkersFit
  BY FitParts
<1>2. Become(w, Idle)
  BY DEF Finish
<1>3. files' \in [Files -> File \union {None}]
      /\ files'[f] = x /\ \A g \in Files : g # f => files'[g] = files[g]
  BY <1>1 DEF RowsFit
<1>4. RowsFit'
  <2>1. \A g \in Files : files'[g] # None =>
          /\ files'[g].owner \in DOMAIN lastSeq
          /\ files'[g].key # None => MadeFor(g, files'[g].key)
    BY <1>1, <1>3 DEF RowsFit, Known
  <2> QED BY <1>1, <1>3, <2>1 DEF RowsFit, Known, MadeFor
<1>5. WorkersFit'
  BY <1>1, <1>2, IdleOK, IdleFits, BecomeFits
<1>6. KeysFit'
  <2>1. /\ urls \subseteq KeysAround /\ objects \subseteq KeysAround
        /\ \A g \in Files : files[g] # None => files[g].key \in KeysAround
    BY DEF KeysAround
  <2>2. /\ urls' \subseteq KeysAround \union {k} /\ objects' \subseteq KeysAround
        /\ \A g \in Files : files'[g] # None => files'[g].key \in KeysAround \union {None}
    BY <1>3, <2>1
  <2>3. Idle.key \in KeysAround \union {None} /\ Idle.doomed \subseteq KeysAround
    BY IdleOK
  <2>4. worker \in [Workers -> Request] /\ IsFiniteSet(KeysAround)
    BY <1>1 DEF WorkersFit, KeysFit
  <2>5. IsFiniteSet(KeysAround')
    BY <1>2, <2>2, <2>3, <2>4, KeysKept
  <2> QED BY <1>1, <2>5 DEF KeysFit
<1> QED BY <1>4, <1>5, <1>6

LEMMA OwnFile ==
  ASSUME FitInv, NEW f \in Files, files[f] # None
  PROVE  /\ files[f] \in File /\ Known(files[f].owner) /\ files[f].key \in KeysAround
         /\ files[f].key # None => MadeFor(f, files[f].key)
BY FitParts DEF RowsFit, KeysAround

\* seq.next.
LEMMA Counted ==
  ASSUME RowsFit, NEW id, Known(id), lastSeq' = [lastSeq EXCEPT ![id] = @ + 1]
  PROVE  /\ lastSeq' \in Seq(Nat) /\ DOMAIN lastSeq' = DOMAIN lastSeq
         /\ lastSeq[id] \in Nat /\ lastSeq[id] + 1 \in Nat /\ id \in Nat
         /\ lastSeq'[id] = lastSeq[id] + 1
         /\ \A other \in DOMAIN lastSeq : other # id => lastSeq'[other] = lastSeq[other]
<1>1. lastSeq \in Seq(Nat) /\ id \in DOMAIN lastSeq
  BY DEF RowsFit, Known
<1>2. DOMAIN lastSeq = 1..Len(lastSeq) /\ lastSeq[id] \in Nat /\ id \in Nat
  BY <1>1
<1> QED BY <1>1, <1>2

LEMMA UrlFits ==
  ASSUME FitInv, NEW id, Known(id), NEW f \in Files,
         urls' = urls \union {FreshKey(id, f)}
  PROVE  urls' \subseteq Key
<1>1. lastSeq \in Seq(Nat) /\ id \in DOMAIN lastSeq /\ IsFiniteSet(KeysAround) /\ urls \subseteq Key
  BY FitParts DEF RowsFit, Known, KeysFit
<1>2. id \in Nat
  BY <1>1
<1> QED BY <1>1, <1>2, FreshKeyOK

LEMMA UploadFits ==
  ASSUME FitInv, NEW w \in Workers, UploadStep(w)
  PROVE  RowsFit' /\ KeysFit' /\ WorkersFit'
<1> DEFINE r == worker[w]
<1>1. /\ r \in Request /\ StageOK(w, r) /\ SubjectOK(r)
      /\ r.key \in KeysAround /\ r.doomed \subseteq KeysAround
  BY RequestFit
<1>2. /\ RowsFit /\ KeysFit /\ WorkersFit /\ urls \subseteq Key
      /\ Attachments \subseteq Files /\ VoiceNotes \subseteq Files
  BY FitParts DEF KeysFit, Files
<1>3. r.op \in {"create", "ask", "confirm", "edit", "remove", "push"} /\ r.pc # "upsert"
        => r.op \in Operations /\ Acting(r) /\ Known(r.id)
  BY <1>1 DEF SubjectOK, Acting, Operations
<1>4. ASSUME CreateAttachment(w) \/ CreateVoiceNote(w)
      PROVE  RowsFit' /\ KeysFit' /\ WorkersFit'
  <2>1. /\ At(w, "create", "begin")
        /\ Finish(w) \/ \E f \in Files : Chose(w, "number", f)
        /\ UNCHANGED <<users, cache, lastSeq, files, urls, objects, crossed>>
    BY <1>2, <1>4 DEF CreateAttachment, CreateVoiceNote, tables, bucket
  <2>2. StageOK(w, [r EXCEPT !.pc = "number"])
    BY <1>1, <2>1 DEF StageOK, At, Request, Changing, Operations, Erasing, Moving, Emptying
  <2> QED BY <1>1, <1>3, <2>1, <2>2, FinishFits, ChoseFits DEF At, Statements
<1>5. ASSUME CreateWrite(w)
      PROVE  RowsFit' /\ KeysFit' /\ WorkersFit'
  <2>1. /\ r.op = "create" /\ r.pc = "write" /\ Finish(w)
        /\ UNCHANGED <<users, cache, lastSeq, objects, crossed>>
    BY <1>5 DEF CreateWrite, At
  <2>2. r.file \in Files /\ Known(r.id)
    BY <1>1, <1>3, <2>1 DEF SubjectOK
  <2>3. CASE files[r.file] # None
    BY <1>5, <2>1, <2>3, FinishFits DEF CreateWrite
  <2>4. CASE files[r.file] = None
    <3> DEFINE x == [owner |-> r.id, deleted |-> FALSE, seq |-> r.seq, key |-> None]
    <3>1. files' = [files EXCEPT ![r.file] = x] /\ urls' = urls \union {FreshKey(r.id, r.file)}
      BY <1>5, <2>4 DEF CreateWrite
    <3>2. x \in File /\ x.owner = r.id /\ x.key = None
      BY <1>1 DEF Request, File
    <3>3. urls' \subseteq Key
      BY <2>2, <3>1, UrlFits
    <3>4. lastSeq' \in Seq(Nat) /\ DOMAIN lastSeq' = DOMAIN lastSeq
      BY <1>2, <2>1 DEF RowsFit
    <3> HIDE DEF x, r
    <3> QED BY <2>1, <2>2, <3>1, <3>2, <3>3, <3>4, RowFits
  <2> QED BY <2>3, <2>4
<1>6. ASSUME AskAttachment(w) \/ AskVoiceNote(w)
      PROVE  RowsFit' /\ KeysFit' /\ WorkersFit'
  <2>1. /\ At(w, "ask", "begin")
        /\ UNCHANGED <<users, cache, lastSeq, files, objects, crossed>>
        /\ \E f \in Files :
             \/ Finish(w) /\ urls' = urls \union {FreshKey(r.id, f)}
             \/ Chose(w, "find", f) /\ UNCHANGED urls
    BY <1>2, <1>6 DEF AskAttachment, AskVoiceNote, tables
  <2>2. PICK f \in Files :
             \/ Finish(w) /\ urls' = urls \union {FreshKey(r.id, f)}
             \/ Chose(w, "find", f) /\ UNCHANGED urls
    BY <2>1
  <2>3. StageOK(w, [r EXCEPT !.pc = "find"]) /\ Acting(r) /\ Known(r.id) /\ r.op = "ask"
    BY <1>1, <1>3, <2>1 DEF StageOK, At, Request, Changing, Operations, Erasing, Moving, Emptying
  <2>4. CASE Chose(w, "find", f) /\ UNCHANGED urls
    BY <2>1, <2>3, <2>4, ChoseFits DEF Statements
  <2>5. CASE Finish(w) /\ urls' = urls \union {FreshKey(r.id, f)}
    <3>1. urls' \subseteq Key
      BY <2>3, <2>5, UrlFits
    <3>2. Idle.key \in KeysAround \union {None} /\ Idle.doomed \subseteq KeysAround
      BY IdleOK
    <3>3. Become(w, Idle) /\ urls' \subseteq urls \union {FreshKey(r.id, f)}
      BY <2>5 DEF Finish
    <3> QED BY <2>1, <3>1, <3>2, <3>3, IdleOK, IdleFits, QuietFits
  <2> QED BY <2>2, <2>4, <2>5
<1>7. ASSUME ConfirmFind(w)
      PROVE  RowsFit' /\ KeysFit' /\ WorkersFit'
  <2>1. /\ r.op = "confirm" /\ r.pc = "begin"
        /\ UNCHANGED <<users, cache, lastSeq, files, urls, objects>>
    BY <1>7 DEF ConfirmFind, At, tables
  <2>2. PICK f \in Files, k \in urls \union objects :
          IF OwnedKey(r.id, k)
          THEN /\ Become(w, [r EXCEPT !.pc = "head", !.file = f, !.key = k])
               /\ crossed' = IF k.file = f THEN crossed ELSE crossed \union {k}
          ELSE Finish(w) /\ UNCHANGED crossed
    BY <1>7 DEF ConfirmFind
  <2>3. CASE OwnedKey(r.id, k)
    <3> DEFINE q == [r EXCEPT !.pc = "head", !.file = f, !.key = k]
    <3>1. k \in Key /\ k \in KeysAround /\ k # None
      BY <1>2, NoneApart DEF KeysFit, KeysAround
    <3>2. q \in Request
      BY <1>1, <3>1 DEF Request, Statements
    <3>3. /\ q.key = k /\ q.doomed = r.doomed /\ q.pc = "head" /\ q.file = f
          /\ q.op = r.op /\ q.uid = r.uid /\ q.id = r.id /\ q.listed = r.listed
      BY <1>1 DEF Request
    <3>4. /\ crossed \subseteq crossed' /\ crossed' \subseteq Key
          /\ k.file = f \/ k \in crossed'
      BY <1>2, <2>2, <2>3, <3>1 DEF KeysFit
    <3>5. WorkersFit'
      <4>1. worker'[w] = q /\ \A v \in Workers : v # w => worker'[v] = worker[v]
        BY <1>2, <2>2, <2>3, Becomes DEF WorkersFit
      <4>2. worker' \in [Workers -> Request]
        BY <1>2, <2>2, <2>3, <3>2 DEF WorkersFit, Become
      <4>3. StageOK(w, worker[w])' /\ SubjectOK(worker[w])'
        <5>1. StageOK(w, q)
          BY <1>1, <2>1, <3>3 DEF StageOK, Operations, Erasing, Moving, Emptying
        <5>2. MadeFor(f, k)'
          BY <3>4 DEF MadeFor
        <5>3. PICK p : p = worker'[w]
          OBVIOUS
        <5>4. p.op = "confirm" /\ p.pc = "head" /\ p.key = k /\ p.file = f
              /\ p.uid = r.uid /\ p.id = r.id /\ p.listed = r.listed
          BY <2>1, <3>3, <4>1, <5>3
        <5>5. r.uid \in Uids /\ Known(r.id) /\ r.listed = {}
          BY <1>1, <1>3, <2>1 DEF SubjectOK, Operations
        <5> HIDE DEF q, r
        <5>6. SubjectOK(worker[w])'
          BY <2>1, <2>3, <3>1, <5>2, <5>3, <5>4, <5>5
             DEF SubjectOK, Acting, Known, OwnedKey, Erasing, Moving, Emptying
        <5> QED BY <4>1, <5>1, <5>6 DEF StageOK
      <4>4. ASSUME NEW v \in Workers, v # w
            PROVE  StageOK(v, worker[v])' /\ SubjectOK(worker[v])'
        <5>1. PICK p : p = worker[v] /\ p = worker'[v]
          BY <4>1, <4>4
        <5>2. StageOK(v, p) /\ SubjectOK(p)
          BY <1>2, <5>1 DEF WorkersFit
        <5>3. SubjectOK(worker[v])'
          BY <2>1, <3>4, <5>1, <5>2 DEF SubjectOK, Known, Acting, MadeFor
        <5> QED BY <5>1, <5>2, <5>3 DEF StageOK
      <4> QED BY <4>2, <4>3, <4>4 DEF WorkersFit
    <3>6. IsFiniteSet(KeysAround')
      <4>1. /\ Become(w, q) /\ worker \in [Workers -> Request] /\ IsFiniteSet(KeysAround)
            /\ q.key \in KeysAround \union {None} /\ q.doomed \subseteq KeysAround
        BY <1>1, <1>2, <2>2, <2>3, <3>1, <3>3 DEF WorkersFit, KeysFit
      <4>2. /\ urls' \subseteq KeysAround \union {k} /\ objects' \subseteq KeysAround
            /\ \A g \in Files : files'[g] # None => files'[g].key \in KeysAround \union {None}
        BY <2>1 DEF KeysAround
      <4> HIDE DEF q
      <4> QED BY <4>1, <4>2, KeysKept
    <3> QED BY <1>2, <2>1, <3>4, <3>5, <3>6, RowsStay DEF KeysFit
  <2>4. CASE ~OwnedKey(r.id, k)
    BY <2>1, <2>2, <2>4, FinishFits
  <2> QED BY <2>3, <2>4
<1>8. ASSUME ConfirmHead(w)
      PROVE  RowsFit' /\ KeysFit' /\ WorkersFit'
  <2>1. /\ r.op = "confirm" /\ r.pc = "head" /\ (Goto(w, "find") \/ Finish(w))
        /\ UNCHANGED <<users, cache, lastSeq, files, urls, objects, crossed>>
    BY <1>8 DEF ConfirmHead, At, tables, bucket
  <2>2. StageOK(w, [r EXCEPT !.pc = "find"])
    BY <1>1, <2>1 DEF StageOK, Request, Operations, Erasing, Moving, Emptying
  <2>3. SubjectOK([r EXCEPT !.pc = "find"])
    BY <1>1, <1>3, <2>1 DEF SubjectOK, Request, Acting, Operations, Erasing, Moving, Emptying
  <2> QED BY <2>1, <2>2, <2>3, FinishFits, GotoFits DEF Statements
<1>9. ASSUME EditBegin(w)
      PROVE  RowsFit' /\ KeysFit' /\ WorkersFit'
  <2>1. /\ r.op \in {"edit", "remove"} /\ r.pc = "begin"
        /\ \E f \in Files : Chose(w, "number", f)
        /\ UNCHANGED <<users, cache, lastSeq, files, urls, objects, crossed>>
    BY <1>9 DEF EditBegin, tables, bucket
  <2>2. StageOK(w, [r EXCEPT !.pc = "number"])
    BY <1>1, <2>1 DEF StageOK, Request, Changing, Operations, Erasing, Moving, Emptying
  <2> QED BY <1>1, <1>3, <2>1, <2>2, ChoseFits DEF Statements
<1>10. ASSUME EditFind(w)
       PROVE  RowsFit' /\ KeysFit' /\ WorkersFit'
  <2>1. /\ r.pc = "find" /\ (Goto(w, "number") \/ Finish(w))
        /\ UNCHANGED <<users, cache, lastSeq, files, urls, objects, crossed>>
    BY <1>10 DEF EditFind, tables, bucket
  <2>2. r.op \in {"ask", "confirm"}
    BY <1>1, <2>1 DEF StageOK
  <2>3. StageOK(w, [r EXCEPT !.pc = "number"])
    BY <1>1, <2>1, <2>2 DEF StageOK, Request, Changing, Operations, Erasing, Moving, Emptying
  <2>4. SubjectOK([r EXCEPT !.pc = "number"])
    BY <1>1, <1>3, <2>1, <2>2 DEF SubjectOK, Request, Acting, Operations, Erasing, Moving, Emptying
  <2> QED BY <2>1, <2>3, <2>4, FinishFits, GotoFits DEF Statements
<1>11. ASSUME EditWrite(w)
       PROVE  RowsFit' /\ KeysFit' /\ WorkersFit'
  <2>1. /\ r.op \in {"ask", "confirm", "edit", "remove"} /\ r.pc = "write" /\ Finish(w)
        /\ UNCHANGED <<users, cache, lastSeq, objects, crossed>>
    BY <1>11 DEF EditWrite
  <2>2. /\ r.file \in Files /\ Known(r.id)
        /\ r.op = "confirm" => r.key # None /\ MadeFor(r.file, r.key)
    BY <1>1, <1>3, <2>1 DEF SubjectOK
  <2>3. CASE files[r.file] = None
    BY <1>11, <2>1, <2>3, FinishFits DEF EditWrite
  <2>4. CASE files[r.file] # None
    <3> DEFINE old == files[r.file]
               x == [old EXCEPT !.seq = r.seq,
                                !.key = IF r.op = "confirm" THEN r.key ELSE @,
                                !.deleted = @ \/ r.op = "remove"]
    <3>1. /\ files' = [files EXCEPT ![r.file] = x]
          /\ urls' = IF r.op = "ask" THEN urls \union {FreshKey(r.id, r.file)} ELSE urls
      BY <1>11, <2>4 DEF EditWrite
    <3>2. /\ old \in File /\ Known(old.owner) /\ old.key \in KeysAround
          /\ old.key # None => MadeFor(r.file, old.key)
      BY <2>2, <2>4, OwnFile
    <3>3. /\ x \in File /\ x.owner = old.owner
          /\ x.key = IF r.op = "confirm" THEN r.key ELSE old.key
      BY <1>1, <2>2, <3>2 DEF Request, File
    <3>4. urls' \subseteq Key /\ urls' \subseteq urls \union {FreshKey(r.id, r.file)}
      BY <1>2, <2>2, <3>1, UrlFits
    <3>5. lastSeq' \in Seq(Nat) /\ DOMAIN lastSeq' = DOMAIN lastSeq
      BY <1>2, <2>1 DEF RowsFit
    <3>6. x.key # None => x.key \in KeysAround /\ MadeFor(r.file, x.key)
      BY <1>1, <2>2, <3>2, <3>3
    <3>7. Known(x.owner)
      BY <3>2, <3>3
    <3> HIDE DEF x, old, r
    <3> QED BY <2>1, <2>2, <3>1, <3>3, <3>4, <3>5, <3>6, <3>7, RowFits
  <2> QED BY <2>3, <2>4
<1>12. ASSUME NumberFile(w)
       PROVE  RowsFit' /\ KeysFit' /\ WorkersFit'
  <2> DEFINE q == [r EXCEPT !.pc = "write", !.seq = lastSeq[r.id] + 1]
  <2>1. /\ r.pc = "number" /\ Become(w, q)
        /\ lastSeq' = [lastSeq EXCEPT ![r.id] = @ + 1]
        /\ UNCHANGED <<users, cache, files, urls, objects, crossed>>
    BY <1>12 DEF NumberFile, Number, bucket
  <2>2. r.op \in Changing /\ Acting(r) /\ Known(r.id)
    BY <1>1, <1>3, <2>1 DEF StageOK, Changing
  <2>3. /\ lastSeq' \in Seq(Nat) /\ DOMAIN lastSeq' = DOMAIN lastSeq
        /\ lastSeq[r.id] + 1 \in Nat
    BY <1>2, <2>1, <2>2, Counted
  <2>4. q \in Request
    BY <1>1, <2>3 DEF Request, Statements
  <2>5. /\ q.key = r.key /\ q.doomed = r.doomed /\ q.pc = "write" /\ q.file = r.file
        /\ q.op = r.op /\ q.uid = r.uid /\ q.id = r.id /\ q.listed = r.listed
    BY <1>1 DEF Request
  <2>6. StageOK(w, q)
    BY <1>1, <2>1, <2>2, <2>5 DEF StageOK, Changing, Operations, Erasing, Moving, Emptying
  <2>7. SubjectOK(q)
    BY <1>1, <2>1, <2>2, <2>5 DEF SubjectOK, Acting, Changing, Operations, Erasing, Moving, Emptying
  <2> HIDE DEF q, r
  <2>8. WorkersFit'
    BY <1>2, <2>1, <2>3, <2>4, <2>6, <2>7, BecomeFits
  <2>9. RowsFit'
    BY <1>2, <2>1, <2>3 DEF RowsFit, Known, MadeFor
  <2>10. IsFiniteSet(KeysAround')
    <3>1. /\ urls \subseteq KeysAround /\ objects \subseteq KeysAround
          /\ \A g \in Files : files[g] # None => files[g].key \in KeysAround
      BY DEF KeysAround
    <3>2. worker \in [Workers -> Request] /\ IsFiniteSet(KeysAround)
      BY <1>2 DEF WorkersFit, KeysFit
    <3>3. /\ urls' \subseteq KeysAround \union {None} /\ objects' \subseteq KeysAround
          /\ \A g \in Files : files'[g] # None => files'[g].key \in KeysAround \union {None}
      BY <2>1, <3>1
    <3>4. q.key \in KeysAround \union {None} /\ q.doomed \subseteq KeysAround
      BY <1>1, <2>5
    <3> QED BY <2>1, <3>2, <3>3, <3>4, KeysKept
  <2> QED BY <1>2, <2>1, <2>8, <2>9, <2>10 DEF KeysFit
<1>13. ASSUME Push(w)
       PROVE  RowsFit' /\ KeysFit' /\ WorkersFit'
  <2>1. /\ r.op = "push" /\ r.pc = "begin" /\ Finish(w)
        /\ lastSeq' = [lastSeq EXCEPT ![r.id] = @ + 1]
        /\ UNCHANGED <<users, cache, urls, objects, crossed>>
    BY <1>13 DEF Push, At, bucket
  <2>2. PICK f \in Files, deleted \in BOOLEAN :
          files' = [files EXCEPT ![f] = Pushed(f, r.id, deleted)]
    BY <1>13 DEF Push
  <2>3. Known(r.id)
    BY <1>3, <2>1
  <2>4. /\ lastSeq' \in Seq(Nat) /\ DOMAIN lastSeq' = DOMAIN lastSeq
        /\ lastSeq[r.id] + 1 \in Nat /\ r.id \in Nat
    BY <1>2, <2>1, <2>3, Counted
  <2> DEFINE x == Pushed(f, r.id, deleted)
  <2>5. x.owner = r.id /\ x.key = IF files[f] = None THEN None ELSE files[f].key
    BY DEF Pushed
  <2>6. x \in File
    <3>1. (IF files[f] = None THEN None ELSE files[f].key) \in Key \union {None}
      BY OwnFile DEF File
    <3> QED BY <2>4, <3>1 DEF Pushed, File
  <2>7. x.key # None => x.key \in KeysAround /\ MadeFor(f, x.key)
    BY <2>5, OwnFile
  <2> HIDE DEF x, r
  <2> QED BY <1>2, <2>1, <2>2, <2>3, <2>4, <2>5, <2>6, <2>7, RowFits DEF x
<1>14. ASSUME Answer(w)
       PROVE  RowsFit' /\ KeysFit' /\ WorkersFit'
  BY <1>14, FinishFits DEF Answer, tables, bucket
<1> QED
  BY <1>4, <1>5, <1>6, <1>7, <1>8, <1>9, <1>10, <1>11, <1>12, <1>13, <1>14 DEF UploadStep

-----------------------------------------------------------------------------
(* What an eraser does next                                                *)

SweptNext(listed, q) ==
  \/ listed = {} /\ q = Idle
  \/ \E d \in listed :
       q = [Idle EXCEPT !.op = "sweep", !.pc = "firebase",
                        !.victim = d.uid, !.from = d.id, !.listed = listed \ {d}]

ErasedNext(r, q) ==
  \/ r.doomed # {} /\ q = [r EXCEPT !.rows = {}, !.pc = "objects"]
  \/ r.doomed = {} /\ r.op = "adopt" /\ q = [r EXCEPT !.rows = {}, !.pc = "firebase"]
  \/ r.doomed = {} /\ r.op = "sweep" /\ SweptNext(r.listed, q)
  \/ r.doomed = {} /\ r.op = "delete" /\ q = Idle

LEMMA SweepOnGives ==
  ASSUME NEW listed, SweepOn(listed)
  PROVE  \E q : SweptNext(listed, q) /\ Become(Sweeper, q)
BY DEF SweepOn, SweptNext, Finish

LEMMA ObjectsGive ==
  ASSUME NEW w \in Workers, NEW r \in Request, Objects(w, r), StageOK(w, r), r.pc \in Erasing
  PROVE  \E q : ErasedNext(r, q) /\ Become(w, q)
<1> DEFINE done == [r EXCEPT !.rows = {}]
<1>0. done.op = r.op /\ done.listed = r.listed
  BY DEF Request
<1>1. CASE r.doomed # {}
  BY <1>1 DEF Objects, ErasedNext
<1>2. CASE r.doomed = {} /\ r.op = "adopt"
  BY <1>0, <1>2 DEF Objects, Onward, ErasedNext
<1>3. CASE r.doomed = {} /\ r.op = "sweep"
  <2>1. SweepOn(r.listed) /\ w = Sweeper
    BY <1>0, <1>3 DEF Objects, Onward, StageOK
  <2> QED BY <1>3, <2>1, SweepOnGives DEF ErasedNext
<1>4. CASE r.doomed = {} /\ r.op = "delete"
  BY <1>0, <1>4 DEF Objects, Onward, ErasedNext, Finish
<1> QED BY <1>1, <1>2, <1>3, <1>4 DEF StageOK

Listed == [uid : Uids, id : Nat]

LEMMA SweptNextFits ==
  ASSUME NEW listed \in SUBSET Listed, \A d \in listed : Known(d.id),
         NEW q, SweptNext(listed, q)
  PROVE  /\ q \in Request /\ StageOK(Sweeper, q) /\ SubjectOK(q)
         /\ q.key = None /\ q.doomed = {} /\ q.uid = 0
         /\ q.op \in {"idle", "sweep"} /\ ~Acting(q)
<1>1. CASE q = Idle
  BY <1>1, IdleOK, IdleFits, UidsOK DEF Acting, Operations
<1>2. ASSUME NEW d \in listed,
             q = [Idle EXCEPT !.op = "sweep", !.pc = "firebase",
                        !.victim = d.uid, !.from = d.id, !.listed = listed \ {d}]
      PROVE  /\ q \in Request /\ StageOK(Sweeper, q) /\ SubjectOK(q)
             /\ q.key = None /\ q.doomed = {} /\ q.uid = 0
             /\ q.op \in {"idle", "sweep"} /\ ~Acting(q)
  <2>1. d.uid \in Uids /\ d.id \in Nat /\ d.uid \in Nat /\ Known(d.id)
    BY UidsOK DEF Listed
  <2>2. /\ q.op = "sweep" /\ q.pc = "firebase" /\ q.victim = d.uid /\ q.from = d.id
        /\ q.listed = listed \ {d} /\ q.key = None /\ q.doomed = {} /\ q.uid = 0
    BY <1>2 DEF Idle
  <2>3. q \in Request
    BY <1>2, <2>1, IdleOK DEF Request, Statements, Listed
  <2>4. StageOK(Sweeper, q)
    BY <2>2 DEF StageOK, Operations, Erasing, Moving, Emptying
  <2>5. SubjectOK(q)
    BY <2>1, <2>2 DEF SubjectOK, Acting, Operations, Erasing, Moving, Emptying
  <2> QED BY <2>2, <2>3, <2>4, <2>5 DEF Acting, Operations
<1> QED BY <1>1, <1>2 DEF SweptNext

LEMMA ErasedNextFits ==
  ASSUME NEW w \in Workers, NEW r \in Request, StageOK(w, r), SubjectOK(r),
         r.pc \in {"rest", "objects"}, NEW q, ErasedNext(r, q)
  PROVE  /\ q \in Request /\ StageOK(w, q) /\ SubjectOK(q)
         /\ q.key \in {r.key, None} /\ q.doomed \subseteq r.doomed
<1>1. r.op \in {"delete", "adopt", "sweep"}
  BY DEF StageOK, Erasing, Moving, Emptying
<1>2. ASSUME NEW pc \in {"objects", "firebase"}, q = [r EXCEPT !.rows = {}, !.pc = pc],
             r.op # "delete" \/ pc = "objects"
      PROVE  q \in Request /\ StageOK(w, q) /\ SubjectOK(q) /\ q.key = r.key
             /\ q.doomed \subseteq r.doomed
  <2>1. q \in Request
    BY <1>2 DEF Request, Statements
  <2>2. /\ q.key = r.key /\ q.doomed = r.doomed /\ q.pc = pc /\ q.file = r.file
        /\ q.op = r.op /\ q.uid = r.uid /\ q.id = r.id /\ q.listed = r.listed
        /\ q.from = r.from /\ q.victim = r.victim
    BY <1>2 DEF Request
  <2>3. StageOK(w, q)
    BY <1>1, <1>2, <2>2 DEF StageOK, Operations, Erasing, Moving, Emptying
  <2>4. SubjectOK(q)
    BY <1>1, <1>2, <2>2 DEF SubjectOK, Acting, Operations, Erasing, Moving, Emptying
  <2> QED BY <2>1, <2>2, <2>3, <2>4
<1>3. CASE q = Idle
  BY <1>3, IdleOK, IdleFits
<1>4. CASE r.op = "sweep" /\ SweptNext(r.listed, q)
  <2>1. r.listed \in SUBSET Listed /\ \A d \in r.listed : Known(d.id)
    BY DEF Request, Listed, SubjectOK
  <2>2. w = Sweeper
    BY <1>4 DEF StageOK
  <2> QED BY <1>4, <2>1, <2>2, SweptNextFits
<1> QED BY <1>2, <1>3, <1>4 DEF ErasedNext

\* No statement of an erasure brings a key.
LEMMA KeysFade ==
  ASSUME FitInv, NEW w \in Workers, NEW q, Become(w, q),
         q.key \in KeysAround \union {None}, q.doomed \subseteq KeysAround,
         urls' \subseteq urls, objects' \subseteq objects, UNCHANGED crossed,
         \A f \in Files : files'[f] # None =>
           \E g \in Files : files[g] # None /\ files'[f].key = files[g].key
  PROVE  KeysFit'
<1>1. KeysFit /\ WorkersFit
  BY FitParts
<1>2. /\ urls \subseteq KeysAround /\ objects \subseteq KeysAround
      /\ \A f \in Files : files[f] # None => files[f].key \in KeysAround
  BY DEF KeysAround
<1>3. /\ urls' \subseteq KeysAround \union {None} /\ objects' \subseteq KeysAround
      /\ \A f \in Files : files'[f] # None => files'[f].key \in KeysAround \union {None}
  BY <1>2
<1>4. worker \in [Workers -> Request] /\ IsFiniteSet(KeysAround)
  BY <1>1 DEF WorkersFit, KeysFit
<1>5. IsFiniteSet(KeysAround')
  BY <1>3, <1>4, KeysKept
<1> QED BY <1>1, <1>5 DEF KeysFit

\* What the transaction has deleted when it commits.
Gone(r) == r.rows \union (OwnedBy(r.from) \intersect Attachments)

LEMMA CommitRows ==
  ASSUME RowsFit, NEW r, Commit(r), UNCHANGED <<cache, crossed>>
  PROVE  /\ RowsFit' /\ DOMAIN lastSeq' = DOMAIN lastSeq
         /\ \A f \in Files : files'[f] = IF f \in Gone(r) THEN None ELSE files[f]
         /\ \A u \in Uids : users'[u] = IF u = r.victim THEN None ELSE users[u]
         /\ \A id \in DOMAIN lastSeq : lastSeq'[id] = IF id = r.from THEN 0 ELSE lastSeq[id]
<1>1. \A f \in Files : files'[f] = IF f \in Gone(r) THEN None ELSE files[f]
  BY DEF Commit, Erased, Gone
<1>2. files' \in [Files -> File \union {None}]
  BY <1>1 DEF Commit, Erased, RowsFit
<1>3. \A u \in Uids : users'[u] = IF u = r.victim THEN None ELSE users[u]
  BY DEF Commit, RowsFit
<1>4. users' \in [Uids -> User \union {None}]
  BY DEF Commit, RowsFit
<1>5. /\ lastSeq' \in Seq(Nat) /\ DOMAIN lastSeq' = DOMAIN lastSeq
      /\ \A id \in DOMAIN lastSeq : lastSeq'[id] = IF id = r.from THEN 0 ELSE lastSeq[id]
  <2>1. lastSeq \in Seq(Nat) /\ lastSeq' = [lastSeq EXCEPT ![r.from] = 0]
    BY DEF Commit, RowsFit
  <2>2. CASE r.from \in DOMAIN lastSeq
    BY <2>1, <2>2
  <2>3. CASE r.from \notin DOMAIN lastSeq
    <3>1. [lastSeq EXCEPT ![r.from] = 0] = lastSeq
      BY <2>1, <2>3
    <3> QED BY <2>1, <2>3, <3>1
  <2> QED BY <2>2, <2>3
<1>6. RowsFit'
  BY <1>1, <1>2, <1>3, <1>4, <1>5 DEF RowsFit, Known, MadeFor
<1> QED BY <1>1, <1>3, <1>5, <1>6

LEMMA EraseFits ==
  ASSUME FitInv, NEW w \in Workers, EraseStep(w)
  PROVE  RowsFit' /\ KeysFit' /\ WorkersFit'
<1> DEFINE r == worker[w]
<1>1. /\ r \in Request /\ StageOK(w, r) /\ SubjectOK(r)
      /\ r.key \in KeysAround /\ r.doomed \subseteq KeysAround
  BY RequestFit
<1>2. RowsFit /\ KeysFit /\ WorkersFit
  BY FitParts
<1>3. r.pc \in Erasing => r.op \in {"delete", "adopt", "sweep"}
  BY <1>1 DEF StageOK
<1>4. ASSUME FirebaseDelete(w)
      PROVE  RowsFit' /\ KeysFit' /\ WorkersFit'
  <2>1. /\ r.pc = "firebase" /\ (Goto(w, "forget") \/ Finish(w))
        /\ UNCHANGED <<users, cache, lastSeq, files, urls, objects, crossed>>
    BY <1>4 DEF FirebaseDelete, tables, bucket
  <2>2. StageOK(w, [r EXCEPT !.pc = "forget"])
    BY <1>1, <1>3, <2>1 DEF StageOK, Request, Operations, Erasing, Moving, Emptying
  <2>3. SubjectOK([r EXCEPT !.pc = "forget"])
    BY <1>1, <1>3, <2>1 DEF SubjectOK, Request, Acting, Operations, Erasing, Moving, Emptying
  <2> QED BY <2>1, <2>2, <2>3, FinishFits, GotoFits DEF Statements
<1>5. ASSUME Forget(w)
      PROVE  RowsFit' /\ KeysFit' /\ WorkersFit'
  <2>1. /\ r.pc = "forget"
        /\ cache' = cache \/ cache' = [cache EXCEPT ![r.victim] = None]
        /\ UNCHANGED <<users, lastSeq, files, urls, objects, crossed>>
    BY <1>5 DEF Forget, tables, bucket
  <2>2. RowsFit'
    BY <1>2, <2>1 DEF RowsFit, Known, MadeFor
  <2>3. \A f \in Files : files'[f] # None =>
          \E g \in Files : files[g] # None /\ files'[f].key = files[g].key
    BY <2>1
  <2>4. CASE r.op = "adopt"
    <3>1. Become(w, Idle) /\ Idle.key \in KeysAround \union {None} /\ Idle.doomed \subseteq KeysAround
      BY <1>5, <2>4, IdleOK DEF Forget, Finish
    <3>2. KeysFit'
      BY <2>1, <2>3, <3>1, KeysFade
    <3>3. WorkersFit'
      BY <1>2, <2>1, <3>1, IdleOK, IdleFits, BecomeFits
    <3> QED BY <2>2, <3>2, <3>3
  <2>5. CASE r.op # "adopt"
    <3> DEFINE q == [r EXCEPT !.pc = "keys"]
    <3>1. Become(w, q) /\ r.op \in {"delete", "sweep"}
      BY <1>3, <1>5, <2>1, <2>5 DEF Forget, Goto, Erasing, Moving, Emptying
    <3>2. q \in Request /\ q.key = r.key /\ q.doomed = r.doomed
      BY <1>1 DEF Request, Statements
    <3>3. StageOK(w, q)
      BY <1>1, <2>1, <3>1 DEF StageOK, Request, Operations, Erasing, Moving, Emptying
    <3>4. SubjectOK(q)
      BY <1>1, <2>1, <3>1 DEF SubjectOK, Request, Acting, Operations, Erasing, Moving, Emptying
    <3> HIDE DEF q, r
    <3>5. KeysFit'
      BY <1>1, <2>1, <2>3, <3>1, <3>2, KeysFade
    <3>6. WorkersFit'
      BY <1>2, <2>1, <3>1, <3>2, <3>3, <3>4, BecomeFits
    <3> QED BY <2>2, <3>5, <3>6
  <2> QED BY <2>4, <2>5
<1>6. ASSUME EraseKeys(w)
      PROVE  RowsFit' /\ KeysFit' /\ WorkersFit'
  <2>1. /\ r.pc \in {"keys", "photos", "memos"}
        /\ \E pc \in {"photos", "memos", "erase"}, table \in {Attachments, VoiceNotes} : Doom(w, pc, table)
        /\ UNCHANGED <<users, cache, lastSeq, files, urls, objects, crossed>>
    BY <1>6 DEF EraseKeys, tables, bucket
  <2>2. PICK pc \in {"photos", "memos", "erase"}, table \in {Attachments, VoiceNotes} : Doom(w, pc, table)
    BY <2>1
  <2> DEFINE keys == DoomedKeys(r.from, table)
             q == [r EXCEPT !.pc = pc, !.doomed = @ \union keys]
  <2>3. Become(w, q) /\ keys \subseteq Key /\ keys \subseteq KeysAround /\ q \in Request
    <3>1. \A f \in OwnedBy(r.from) : f \in Files /\ files[f] # None
      BY DEF OwnedBy
    <3>2. \A f \in OwnedBy(r.from) : files[f].key \in Key \union {None} /\ files[f].key \in KeysAround
      BY <3>1, OwnFile DEF File
    <3>3. keys \subseteq Key /\ keys \subseteq KeysAround
      BY <3>2 DEF DoomedKeys
    <3>4. Become(w, q)
      BY <2>2 DEF Doom
    <3> HIDE DEF keys
    <3> QED BY <1>1, <3>3, <3>4 DEF Request, Statements
  <2>4. /\ q.key = r.key /\ q.doomed = r.doomed \union keys /\ q.pc = pc /\ q.file = r.file
        /\ q.op = r.op /\ q.uid = r.uid /\ q.id = r.id /\ q.listed = r.listed
        /\ q.from = r.from /\ q.victim = r.victim
    BY <1>1 DEF Request
  <2>5. StageOK(w, q)
    BY <1>1, <1>3, <2>1, <2>4 DEF StageOK, Operations, Erasing, Moving, Emptying
  <2>6. SubjectOK(q)
    BY <1>1, <1>3, <2>1, <2>4 DEF SubjectOK, Acting, Operations, Erasing, Moving, Emptying
  <2>7. urls' \subseteq urls \union {None} /\ urls' \subseteq Key /\ crossed' \subseteq Key
    BY <1>2, <2>1 DEF KeysFit
  <2> HIDE DEF q, r, keys
  <2> QED BY <1>1, <2>1, <2>3, <2>4, <2>5, <2>6, <2>7, QuietFits
<1>9. ASSUME EraseFirst(w)
      PROVE  RowsFit' /\ KeysFit' /\ WorkersFit'
  <2> DEFINE rows == Erased(r.from) \intersect VoiceNotes
             q == [r EXCEPT !.pc = "rest", !.rows = rows]
  <2>1. /\ r.pc = "erase" /\ Become(w, q)
        /\ UNCHANGED <<users, cache, lastSeq, files, urls, objects, crossed>>
    BY <1>9 DEF EraseFirst, tables, bucket
  <2>2. rows \subseteq Files
    BY DEF Files
  <2>3. q \in Request
    BY <1>1, <2>2 DEF Request, Statements
  <2>4. /\ q.key = r.key /\ q.doomed = r.doomed /\ q.pc = "rest" /\ q.file = r.file
        /\ q.op = r.op /\ q.uid = r.uid /\ q.id = r.id /\ q.listed = r.listed
        /\ q.from = r.from /\ q.victim = r.victim
    BY <1>1 DEF Request
  <2>5. StageOK(w, q)
    BY <1>1, <1>3, <2>1, <2>4 DEF StageOK, Operations, Erasing, Moving, Emptying
  <2>6. SubjectOK(q)
    BY <1>1, <1>3, <2>1, <2>4 DEF SubjectOK, Acting, Operations, Erasing, Moving, Emptying
  <2>7. urls' \subseteq urls \union {None} /\ urls' \subseteq Key /\ crossed' \subseteq Key
    BY <1>2, <2>1 DEF KeysFit
  <2> HIDE DEF q, r, rows
  <2> QED BY <1>1, <2>1, <2>3, <2>4, <2>5, <2>6, <2>7, QuietFits
<1>7. ASSUME EraseRows(w)
      PROVE  RowsFit' /\ KeysFit' /\ WorkersFit'
  <2>1. r.pc = "rest" /\ UNCHANGED <<cache, urls, objects, crossed>>
    BY <1>7 DEF EraseRows, bucket
  <2>2. CASE users[r.victim] # None /\ users[r.victim].id = r.from
    <3>1. Commit(r) /\ Objects(w, r)
      BY <1>7, <2>2 DEF EraseRows
    <3>2. PICK q : ErasedNext(r, q) /\ Become(w, q)
      BY <1>1, <2>1, <3>1, ObjectsGive DEF Erasing, Moving, Emptying
    <3>3. /\ q \in Request /\ StageOK(w, q) /\ SubjectOK(q)
          /\ q.key \in {r.key, None} /\ q.doomed \subseteq r.doomed
      BY <1>1, <2>1, <3>2, ErasedNextFits
    <3>4. /\ RowsFit' /\ DOMAIN lastSeq' = DOMAIN lastSeq
          /\ \A f \in Files : files'[f] = None \/ files'[f] = files[f]
      BY <1>2, <2>1, <3>1, CommitRows
    <3> HIDE DEF r
    <3>5. WorkersFit'
      BY <1>2, <2>1, <3>2, <3>3, <3>4, BecomeFits
    <3>6. KeysFit'
      BY <1>1, <2>1, <3>2, <3>3, <3>4, KeysFade
    <3> QED BY <3>4, <3>5, <3>6
  <2>3. CASE ~(users[r.victim] # None /\ users[r.victim].id = r.from)
    BY <1>7, <2>1, <2>3, FinishFits DEF EraseRows, tables
  <2> QED BY <2>2, <2>3
<1>8. ASSUME EraseObject(w)
      PROVE  RowsFit' /\ KeysFit' /\ WorkersFit'
  <2>1. /\ r.pc = "objects" /\ objects' \subseteq objects
        /\ UNCHANGED <<users, cache, lastSeq, files, urls, crossed>>
    BY <1>8 DEF EraseObject, tables
  <2>2. PICK k \in r.doomed : Objects(w, [r EXCEPT !.doomed = @ \ {k}])
    BY <1>8 DEF EraseObject
  <2> DEFINE s == [r EXCEPT !.doomed = @ \ {k}]
  <2>3. s \in Request
    BY <1>1 DEF Request
  <2>4. /\ s.key = r.key /\ s.doomed = r.doomed \ {k} /\ s.pc = r.pc /\ s.file = r.file
        /\ s.op = r.op /\ s.uid = r.uid /\ s.id = r.id /\ s.listed = r.listed
        /\ s.from = r.from /\ s.victim = r.victim
    BY <1>1 DEF Request
  <2>5. StageOK(w, s)
    BY <1>1, <1>3, <2>1, <2>4 DEF StageOK, Operations, Erasing, Moving, Emptying
  <2>6. SubjectOK(s)
    BY <1>1, <2>1, <2>4 DEF SubjectOK, Acting
  <2>7. Objects(w, s)
    BY <2>2
  <2> HIDE DEF s, r
  <2>8. PICK q : ErasedNext(s, q) /\ Become(w, q)
    BY <2>1, <2>3, <2>4, <2>5, <2>7, ObjectsGive DEF Erasing, Moving, Emptying
  <2>9. /\ q \in Request /\ StageOK(w, q) /\ SubjectOK(q)
        /\ q.key \in {s.key, None} /\ q.doomed \subseteq s.doomed
    BY <2>1, <2>3, <2>4, <2>5, <2>6, <2>8, ErasedNextFits
  <2>10. RowsFit'
    BY <1>2, <2>1, RowsStay
  <2>11. WorkersFit'
    BY <1>2, <2>1, <2>8, <2>9, BecomeFits
  <2>12. KeysFit'
    <3>1. q.key \in KeysAround \union {None} /\ q.doomed \subseteq KeysAround
      BY <1>1, <2>4, <2>9
    <3> QED BY <2>1, <2>8, <3>1, KeysFade
  <2> QED BY <2>10, <2>11, <2>12
<1> QED
  BY <1>4, <1>5, <1>6, <1>7, <1>8, <1>9 DEF EraseStep

-----------------------------------------------------------------------------
(* Signing in, deleting, adopting                                          *)

LEMMA MarksSeen ==
  ASSUME MarksFit, NEW u \in Uids, NEW anonymous, NEW also \in SUBSET {"back"},
         Seen(u, anonymous, also)
  PROVE  seenAs' \in [Uids -> SUBSET {"linked", "late", "back"}]
BY DEF MarksFit, Seen, Served

LEMMA EnterFits ==
  ASSUME FitInv, NEW w \in Handlers, NEW op \in Operations, Enter(w, op)
  PROVE  RowsFit' /\ KeysFit' /\ WorkersFit' /\ MarksFit'
<1>1. RowsFit /\ KeysFit /\ WorkersFit /\ MarksFit /\ w \in Workers
  BY FitParts, UidsOK
<1>2. PICK u \in Uids, anonymous \in BOOLEAN :
        LET r == [Idle EXCEPT !.op = op, !.uid = u, !.anonymous = anonymous] IN
        /\ \/ /\ Cached(u, anonymous)
              /\ Become(w, [r EXCEPT !.pc = "begin", !.id = cache[u].id])
              /\ Seen(u, anonymous, {})
           \/ /\ Become(w, [r EXCEPT !.pc = "upsert"])
              /\ UNCHANGED seenAs
        /\ UNCHANGED <<tokens, tables, cache, bucket>>
  BY DEF Enter
<1>3. UNCHANGED <<firebase, stale, lost, users, cache, lastSeq, files, urls, objects, crossed>>
  BY <1>2 DEF tokens, tables, bucket
<1>4. ASSUME NEW q \in Request, q.op = op, q.uid = u, q.pc \in {"begin", "upsert"},
             q.pc = "begin" => Known(q.id),
             q.key = None, q.doomed = {}, q.listed = {}, Become(w, q)
      PROVE  RowsFit' /\ KeysFit' /\ WorkersFit'
  <2>1. StageOK(w, q)
    BY <1>4 DEF StageOK, Operations, Erasing, Moving, Emptying
  <2>2. SubjectOK(q)
    BY <1>4 DEF SubjectOK, Acting, Operations, Erasing, Moving, Emptying
  <2>3. urls' \subseteq urls \union {None} /\ urls' \subseteq Key
    BY <1>1, <1>3 DEF KeysFit
  <2>4. q.key \in KeysAround \union {None} /\ q.doomed \subseteq KeysAround
    BY <1>4
  <2> QED BY <1>1, <1>3, <1>4, <2>1, <2>2, <2>3, <2>4, QuietFits
<1> DEFINE r == [Idle EXCEPT !.op = op, !.uid = u, !.anonymous = anonymous]
<1>5. r \in Request
  <2>1. u \in Nat /\ op \in Operations \union {"idle", "sweep"}
    BY UidsOK
  <2> QED BY <2>1, IdleOK DEF Request
<1>6. /\ r.op = op /\ r.uid = u /\ r.key = None /\ r.doomed = {} /\ r.listed = {}
      /\ r.id = 0
  BY DEF Idle
<1>7. RowsFit' /\ KeysFit' /\ WorkersFit'
  <2> HIDE DEF r
  <2>1. CASE /\ Cached(u, anonymous)
             /\ Become(w, [r EXCEPT !.pc = "begin", !.id = cache[u].id])
    <3> DEFINE q == [r EXCEPT !.pc = "begin", !.id = cache[u].id]
    <3>1. cache[u] \in Principal /\ Known(cache[u].id)
      BY <1>1, <2>1 DEF RowsFit, Cached
    <3>2. cache[u].id \in Nat
      BY <3>1 DEF Principal
    <3>3. q \in Request /\ q.pc = "begin" /\ q.id = cache[u].id
          /\ q.op = r.op /\ q.uid = r.uid /\ q.key = r.key /\ q.doomed = r.doomed
          /\ q.listed = r.listed
      BY <1>5, <3>2 DEF Request, Statements
    <3>4. Become(w, q)
      BY <2>1
    <3> HIDE DEF q
    <3> QED BY <1>4, <1>6, <3>1, <3>3, <3>4
  <2>2. CASE Become(w, [r EXCEPT !.pc = "upsert"])
    <3> DEFINE q == [r EXCEPT !.pc = "upsert"]
    <3>1. q \in Request /\ q.pc = "upsert"
          /\ q.op = r.op /\ q.uid = r.uid /\ q.key = r.key /\ q.doomed = r.doomed
          /\ q.listed = r.listed
      BY <1>5 DEF Request, Statements
    <3>2. Become(w, q)
      BY <2>2
    <3> HIDE DEF q
    <3> QED BY <1>4, <1>6, <3>1, <3>2
  <2> QED BY <1>2, <2>1, <2>2 DEF r
<1>8. seenAs' \in [Uids -> SUBSET {"linked", "late", "back"}]
  BY <1>1, <1>2, MarksSeen DEF MarksFit
<1>9. torn' \in BOOLEAN
  BY <1>1, <1>2 DEF Become, MarksFit
<1> QED BY <1>1, <1>3, <1>7, <1>8, <1>9 DEF MarksFit

\* The row of a user, made at first sight.
LEMMA UpsertRows ==
  ASSUME FitInv, NEW w \in Workers, Upsert(w)
  PROVE  LET r == worker[w]
             fresh == users[r.uid] = None
             id == IF fresh THEN Len(lastSeq) + 1 ELSE users[r.uid].id
         IN
         /\ r.uid \in Uids /\ r.op \in Operations /\ id \in Nat /\ id # 0
         /\ users'[r.uid] = [id |-> id, anonymous |-> r.anonymous, seen |-> TRUE]
         /\ \A u \in Uids : u # r.uid => users'[u] = users[u]
         /\ lastSeq' \in Seq(Nat) /\ id \in DOMAIN lastSeq'
         /\ DOMAIN lastSeq \subseteq DOMAIN lastSeq'
         /\ \A i \in DOMAIN lastSeq' :
              lastSeq'[i] = IF i \in DOMAIN lastSeq THEN lastSeq[i] ELSE 0
         /\ fresh => id \notin DOMAIN lastSeq
         /\ RowsFit'
<1> DEFINE r == worker[w]
           fresh == users[r.uid] = None
           id == IF fresh THEN Len(lastSeq) + 1 ELSE users[r.uid].id
           row == [id |-> id, anonymous |-> r.anonymous, seen |-> TRUE]
<1>1. r \in Request /\ StageOK(w, r) /\ SubjectOK(r) /\ RowsFit
  BY RequestFit, FitParts
<1>2. /\ r.pc = "upsert" /\ users' = [users EXCEPT ![r.uid] = row]
      /\ lastSeq' = IF fresh THEN Append(lastSeq, 0) ELSE lastSeq
      /\ UNCHANGED <<files, cache, crossed>>
  BY DEF Upsert, bucket
<1>3. r.op \in Operations /\ r.uid \in Uids
  <2>1. r.op \in Operations
    BY <1>1, <1>2, IdleOK DEF StageOK, Request, Erasing, Moving, Emptying
  <2> QED BY <1>1, <2>1 DEF SubjectOK
<1>4. lastSeq \in Seq(Nat) /\ DOMAIN lastSeq = 1..Len(lastSeq) /\ Len(lastSeq) \in Nat
  BY <1>1 DEF RowsFit
<1>5. ~fresh => users[r.uid] \in User /\ users[r.uid].id \in DOMAIN lastSeq
  BY <1>1, <1>3 DEF RowsFit, Known
<1>6. /\ id \in Nat /\ id # 0 /\ id \in DOMAIN lastSeq' /\ lastSeq' \in Seq(Nat)
      /\ DOMAIN lastSeq \subseteq DOMAIN lastSeq'
      /\ \A i \in DOMAIN lastSeq' :
           lastSeq'[i] = IF i \in DOMAIN lastSeq THEN lastSeq[i] ELSE 0
      /\ fresh => id \notin DOMAIN lastSeq
  <2>1. CASE fresh
    <3>1. lastSeq' = Append(lastSeq, 0) /\ id = Len(lastSeq) + 1
      BY <1>2, <2>1
    <3> HIDE DEF id
    <3> QED BY <1>4, <2>1, <3>1
  <2>2. CASE ~fresh
    <3>1. lastSeq' = lastSeq /\ id = users[r.uid].id
      BY <1>2, <2>2
    <3> HIDE DEF id
    <3> QED BY <1>4, <1>5, <2>2, <3>1
  <2> QED BY <2>1, <2>2
<1>7. row \in User /\ row.id = id
  BY <1>1, <1>6 DEF User, Request
<1> HIDE DEF row
<1>8. users' \in [Uids -> User \union {None}]
      /\ users'[r.uid] = row /\ \A u \in Uids : u # r.uid => users'[u] = users[u]
  BY <1>1, <1>2, <1>3, <1>7 DEF RowsFit
<1>9. \A u \in Uids : u # r.uid /\ users[u] # None => users[u].id # id
  <2>1. CASE fresh
    BY <1>1, <1>6, <2>1 DEF RowsFit, Known
  <2>2. CASE ~fresh
    BY <1>1, <1>3, <2>2 DEF RowsFit
  <2> QED BY <2>1, <2>2
<1>10. RowsFit'
  <2> HIDE DEF id, fresh
  <2>1. \A u, v \in Uids :
          users'[u] # None /\ users'[v] # None /\ users'[u].id = users'[v].id => u = v
    BY <1>1, <1>7, <1>8, <1>9 DEF RowsFit
  <2>2. \A u \in Uids : users'[u] # None => users'[u].id \in DOMAIN lastSeq'
    BY <1>1, <1>6, <1>7, <1>8 DEF RowsFit, Known
  <2> QED BY <1>1, <1>2, <1>6, <1>8, <2>1, <2>2 DEF RowsFit, Known, MadeFor
<1> QED BY <1>3, <1>6, <1>8, <1>10 DEF row

LEMMA ResolveFits ==
  ASSUME FitInv, NEW w \in Workers, resolvePrincipal(w)
  PROVE  RowsFit' /\ KeysFit' /\ WorkersFit' /\ MarksFit'
<1> DEFINE r == worker[w]
<1>1. /\ r \in Request /\ StageOK(w, r) /\ SubjectOK(r)
      /\ r.key \in KeysAround /\ r.doomed \subseteq KeysAround
  BY RequestFit
<1>2. RowsFit /\ KeysFit /\ WorkersFit /\ MarksFit
  BY FitParts
<1>3. ASSUME NEW q \in Request, Become(w, q), q.op = r.op, q.uid = r.uid, q.key = r.key,
             q.doomed = r.doomed, q.listed = r.listed, q.pc \in {"remember", "begin"},
             r.op \in Operations, q.id \in DOMAIN lastSeq', RowsFit',
             DOMAIN lastSeq \subseteq DOMAIN lastSeq', UNCHANGED <<files, urls, objects, crossed>>
      PROVE  KeysFit' /\ WorkersFit'
  <2>1. StageOK(w, q)
    BY <1>1, <1>3 DEF StageOK, Operations, Erasing, Moving, Emptying
  <2>2. KeysFit'
    BY <1>1, <1>3, KeysFade
  <2>3. worker' \in [Workers -> Request]
    BY <1>2, <1>3 DEF WorkersFit, Become
  <2>4. worker'[w] = q /\ \A v \in Workers : v # w => worker'[v] = worker[v]
    BY <1>2, <1>3, Becomes DEF WorkersFit
  <2>5. ASSUME NEW v \in Workers
        PROVE  StageOK(v, worker[v])' /\ SubjectOK(worker[v])'
    <3>1. CASE v = w
      <4>1. StageOK(v, worker[v])'
        BY <2>1, <2>4, <3>1 DEF StageOK
      <4>2. q.uid \in Uids
        BY <1>1, <1>3 DEF SubjectOK
      <4>3. \A d \in q.listed : FALSE
        BY <1>1, <1>3 DEF SubjectOK, Operations
      <4>4. SubjectOK(worker[v])'
        BY <1>3, <2>4, <3>1, <4>2, <4>3 DEF SubjectOK, Known, Acting, Erasing, Moving, Emptying, Operations
      <4> QED BY <4>1, <4>4
    <3>2. CASE v # w
      <4>1. PICK s : s = worker[v] /\ worker'[v] = s
        BY <2>4, <3>2
      <4>2. StageOK(v, s) /\ SubjectOK(s)
        BY <1>2, <4>1 DEF WorkersFit
      <4>3. StageOK(v, worker[v])'
        BY <4>1, <4>2 DEF StageOK
      <4>4. SubjectOK(worker[v])'
        BY <1>3, <4>1, <4>2 DEF SubjectOK, Known, Acting, MadeFor
      <4> QED BY <4>3, <4>4
    <3> QED BY <3>1, <3>2
  <2> QED BY <2>2, <2>3, <2>5 DEF WorkersFit
<1>4. ASSUME Upsert(w)
      PROVE  RowsFit' /\ KeysFit' /\ WorkersFit' /\ MarksFit'
  <2> DEFINE id == IF users[r.uid] = None THEN Len(lastSeq) + 1 ELSE users[r.uid].id
             q == [r EXCEPT !.pc = "remember", !.id = id]
  <2>1. /\ Become(w, q) /\ Seen(r.uid, r.anonymous, IF SweepHas(r.uid) THEN {"back"} ELSE {})
        /\ UNCHANGED <<files, urls, objects, crossed, firebase, stale, lost>>
    BY <1>4 DEF Upsert, tokens, bucket
  <2>2. /\ r.uid \in Uids /\ r.op \in Operations /\ id \in Nat
        /\ id \in DOMAIN lastSeq' /\ DOMAIN lastSeq \subseteq DOMAIN lastSeq' /\ RowsFit'
    BY <1>4, UpsertRows
  <2> HIDE DEF id
  <2>3. q \in Request
    BY <1>1, <2>2 DEF Request, Statements
  <2>4. /\ q.op = r.op /\ q.uid = r.uid /\ q.key = r.key /\ q.pc = "remember"
        /\ q.doomed = r.doomed /\ q.listed = r.listed /\ q.id = id
    BY <1>1 DEF Request
  <2> HIDE DEF q
  <2>5. KeysFit' /\ WorkersFit'
    BY <1>3, <2>1, <2>2, <2>3, <2>4
  <2>6. MarksFit'
    <3>1. (IF SweepHas(r.uid) THEN {"back"} ELSE {}) \in SUBSET {"back"}
      OBVIOUS
    <3> HIDE DEF r
    <3>2. seenAs' \in [Uids -> SUBSET {"linked", "late", "back"}]
      BY <1>2, <2>1, <2>2, <3>1, MarksSeen
    <3> QED BY <1>2, <2>1, <3>2 DEF MarksFit, Become
  <2> QED BY <2>2, <2>5, <2>6
<1>5. ASSUME Remember(w)
      PROVE  RowsFit' /\ KeysFit' /\ WorkersFit' /\ MarksFit'
  <2> DEFINE q == [r EXCEPT !.pc = "begin"]
             p == [id |-> r.id, anonymous |-> r.anonymous]
  <2>1. /\ Become(w, q) /\ r.pc = "remember" /\ cache' = [cache EXCEPT ![r.uid] = p]
        /\ UNCHANGED <<users, lastSeq, files, urls, objects, crossed, firebase, stale, lost, seenAs>>
    BY <1>5 DEF Remember, Goto, tokens, tables, bucket
  <2>2. r.op \in Operations /\ r.uid \in Uids /\ Known(r.id)
    <3>1. r.op \in Operations
      BY <1>1, <2>1, IdleOK DEF StageOK, Request, Erasing, Moving, Emptying
    <3> QED BY <1>1, <2>1, <3>1 DEF SubjectOK, Acting
  <2>3. p \in Principal /\ p.id = r.id
    BY <1>1 DEF Request, Principal
  <2>4. RowsFit'
    <3> HIDE DEF p, r
    <3>1. /\ cache' \in [Uids -> Principal \union {None}]
          /\ \A u \in Uids : cache'[u] # None => cache'[u].id \in DOMAIN lastSeq
      BY <1>2, <2>1, <2>2, <2>3 DEF RowsFit, Known
    <3> QED BY <1>2, <2>1, <3>1 DEF RowsFit, Known, MadeFor
  <2>5. /\ q \in Request /\ q.pc = "begin"
        /\ q.op = r.op /\ q.uid = r.uid /\ q.key = r.key
        /\ q.doomed = r.doomed /\ q.listed = r.listed /\ q.id = r.id
    BY <1>1 DEF Request, Statements
  <2>6. r.id \in DOMAIN lastSeq'
    BY <2>1, <2>2 DEF Known
  <2> HIDE DEF q
  <2>7. KeysFit' /\ WorkersFit'
    BY <1>3, <2>1, <2>2, <2>4, <2>5, <2>6
  <2>8. MarksFit'
    BY <1>2, <2>1, MarksStay
  <2> QED BY <2>4, <2>7, <2>8
<1> QED BY <1>4, <1>5 DEF resolvePrincipal

\* What a statement of an erasure that only changes its request makes of it.
LEMMA TargetFits ==
  ASSUME FitInv, NEW w \in Workers, NEW q \in Request, Become(w, q),
         LET r == worker[w] IN
         /\ r.op \in {"delete", "adopt"} /\ q.op = r.op /\ q.uid = r.uid /\ q.id = r.id
         /\ q.key = r.key /\ q.doomed = r.doomed /\ q.listed = r.listed,
         Acting(worker[w]), q.victim \in Uids,
         \/ q.op = "delete" /\ q.pc = "firebase" /\ q.victim = q.uid /\ q.from = q.id
         \/ /\ q.op = "adopt" /\ q.pc \in {"firebase"} \union Moving /\ q.victim # q.uid
            /\ q.pc # "firebase" => Known(q.from),
         UNCHANGED <<users, cache, lastSeq, files, urls, objects, crossed>>
  PROVE  RowsFit' /\ KeysFit' /\ WorkersFit'
<1> DEFINE r == worker[w]
<1>1. /\ r \in Request /\ StageOK(w, r) /\ SubjectOK(r)
      /\ r.key \in KeysAround /\ r.doomed \subseteq KeysAround
  BY RequestFit
<1>2. StageOK(w, q)
  BY <1>1 DEF StageOK, Operations, Erasing, Moving, Emptying
<1>3. SubjectOK(q)
  BY <1>1 DEF SubjectOK, Acting, Operations, Erasing, Moving, Emptying
<1>4. urls' \subseteq urls \union {None} /\ urls' \subseteq Key
  BY FitParts DEF KeysFit
<1> QED BY <1>1, <1>2, <1>3, <1>4, QuietFits

LEMMA DeleteFits ==
  ASSUME FitInv, NEW w \in Workers, DeleteBegin(w)
  PROVE  RowsFit' /\ KeysFit' /\ WorkersFit'
<1> DEFINE r == worker[w]
           q == [r EXCEPT !.pc = "firebase", !.victim = r.uid, !.from = r.id]
<1>1. r \in Request /\ SubjectOK(r)
  BY RequestFit
<1>2. /\ r.op = "delete" /\ r.pc = "begin" /\ (Become(w, q) \/ Finish(w))
      /\ UNCHANGED <<users, cache, lastSeq, files, urls, objects, crossed>>
  BY DEF DeleteBegin, At, tables, bucket
<1>3. Acting(r) /\ r.uid \in Uids
  BY <1>1, <1>2 DEF SubjectOK, Acting, Operations
<1>4. /\ q \in Request /\ q.op = r.op /\ q.uid = r.uid /\ q.id = r.id /\ q.pc = "firebase"
      /\ q.key = r.key /\ q.doomed = r.doomed /\ q.listed = r.listed
      /\ q.victim = r.uid /\ q.from = r.id
  BY <1>1 DEF Request, Statements
<1> HIDE DEF q
<1> QED BY <1>2, <1>3, <1>4, TargetFits, FinishFits

\* The list of rows an adoption moves.
LEMMA BySeqOK ==
  ASSUME NEW S, S \subseteq Files, NEW s \in BySeq(S)
  PROVE  s \in Seq(Files) /\ IsInjective(s) /\ Range(s) = S
<1>1. IsFiniteSet(S)
  BY AccountAssumption, FS_Subset
<1>2. Cardinality(S) \in Nat
  BY <1>1, FS_CardinalityType
<1> HIDE DEF Cardinality
<1>3. s \in [1..Cardinality(S) -> S] /\ IsInjective(s) /\ Range(s) = S
  BY DEF BySeq
<1> QED BY <1>2, <1>3

\* The rows moved have the numbers of a block, each its own.
LEMMA MovedRows ==
  ASSUME RowsFit, NEW r \in Request, Known(r.id),
         \A n \in DOMAIN r.moved : files[r.moved[n]] # None,
         Move(r), UNCHANGED <<users, cache, crossed>>
  PROVE  /\ RowsFit'
         /\ lastSeq[r.id] \in Nat /\ Len(r.moved) \in Nat
         /\ DOMAIN lastSeq' = DOMAIN lastSeq
         /\ lastSeq'[r.id] = lastSeq[r.id] + Len(r.moved)
         /\ \A id \in DOMAIN lastSeq : id # r.id => lastSeq'[id] = lastSeq[id]
         /\ \A f \in Files : f \notin Range(r.moved) => files'[f] = files[f]
         /\ \A f \in Range(r.moved) :
              /\ f \in Files /\ files[f] # None /\ files'[f] \in File
              /\ files'[f].owner = r.id /\ files'[f].key = files[f].key
              /\ files'[f].deleted = files[f].deleted
              /\ \E n \in 1..Len(r.moved) :
                   r.moved[n] = f /\ files'[f].seq = lastSeq[r.id] + n
<1> DEFINE base == lastSeq[r.id]
           len == Len(r.moved)
<1>1. r.moved \in Seq(Files) /\ r.id \in Nat
  BY DEF Request
<1>2. len \in Nat /\ DOMAIN r.moved = 1..len
  BY <1>1
<1>3. lastSeq \in Seq(Nat) /\ r.id \in DOMAIN lastSeq
  BY DEF RowsFit, Known
<1>4. base \in Nat
  BY <1>3
<1>5. /\ DOMAIN lastSeq' = DOMAIN lastSeq /\ lastSeq'[r.id] = base + len
      /\ \A id \in DOMAIN lastSeq : id # r.id => lastSeq'[id] = lastSeq[id]
      /\ lastSeq' \in Seq(Nat)
  <2>1. base + len \in Nat
    BY <1>2, <1>4
  <2>2. lastSeq' = [lastSeq EXCEPT ![r.id] = base + len]
    BY DEF Move
  <2> HIDE DEF base, len
  <2> QED BY <1>3, <2>1, <2>2
<1>6. \A f \in Files : f \in Range(r.moved) <=> Contains(r.moved, f)
  BY <1>2 DEF Range, Contains
<1>7. ASSUME NEW f \in Files, f \notin Range(r.moved)
      PROVE  files'[f] = files[f]
  BY <1>6, <1>7 DEF Move
<1>8. ASSUME NEW f \in Range(r.moved)
      PROVE  /\ f \in Files /\ files[f] # None /\ files'[f] \in File
             /\ files'[f].owner = r.id /\ files'[f].key = files[f].key
             /\ files'[f].deleted = files[f].deleted
             /\ \E n \in 1..len : r.moved[n] = f /\ files'[f].seq = base + n
  <2> DEFINE n == CHOOSE i \in DOMAIN r.moved : r.moved[i] = f
  <2>1. n \in DOMAIN r.moved /\ r.moved[n] = f
    BY DEF Range
  <2>2. f \in Files /\ files[f] # None
    <3> HIDE DEF n
    <3> QED BY <1>1, <1>2, <2>1
  <2>3. files[f] \in File
    BY <2>2 DEF RowsFit
  <2>4. files'[f] = [files[f] EXCEPT !.owner = r.id, !.seq = base + n]
    BY <1>6, <2>2 DEF Move, Renumbered
  <2>5. n \in 1..len /\ base + n \in Nat
    BY <1>2, <1>4, <2>1
  <2> HIDE DEF n, base, len
  <2>6. /\ files'[f] \in File /\ files'[f].owner = r.id /\ files'[f].key = files[f].key
        /\ files'[f].deleted = files[f].deleted /\ files'[f].seq = base + n
    BY <1>1, <2>3, <2>4, <2>5 DEF File
  <2> QED BY <2>1, <2>2, <2>5, <2>6
<1>9. RowsFit'
  <2> HIDE DEF base, len
  <2>1. ASSUME NEW f \in Files
        PROVE  /\ files'[f] \in File \union {None}
               /\ files'[f] # None => files'[f].owner \in DOMAIN lastSeq
               /\ files'[f] # None /\ files'[f].key # None => MadeFor(f, files'[f].key)
    BY <1>3, <1>7, <1>8 DEF RowsFit, Known
  <2>2. files' \in [Files -> File \union {None}]
    BY <2>1 DEF Move
  <2> QED BY <1>5, <2>1, <2>2 DEF RowsFit, Known, MadeFor
<1> QED BY <1>2, <1>4, <1>5, <1>7, <1>8, <1>9

LEMMA AdoptFits ==
  ASSUME FitInv, NEW w \in Workers, Adopt(w)
  PROVE  RowsFit' /\ KeysFit' /\ WorkersFit'
<1> DEFINE r == worker[w]
<1>1. /\ r \in Request /\ StageOK(w, r) /\ SubjectOK(r)
      /\ r.key \in KeysAround /\ r.doomed \subseteq KeysAround
  BY RequestFit
<1>2. RowsFit /\ KeysFit /\ WorkersFit
  BY FitParts
<1>3. r.op = "adopt" /\ Acting(r) /\ r.uid \in Uids /\ Known(r.id)
  <2>1. r.op = "adopt" /\ r.pc \in {"begin", "list", "more", "move"}
    BY DEF Adopt, AdoptBegin, AdoptList, AdoptMore, AdoptMove, At
  <2> QED BY <1>1, <2>1 DEF SubjectOK, Acting, Operations
<1>4. ASSUME AdoptBegin(w)
      PROVE  RowsFit' /\ KeysFit' /\ WorkersFit'
  <2>1. /\ r.pc = "begin"
        /\ UNCHANGED <<users, cache, lastSeq, files, urls, objects, crossed>>
        /\ \/ Finish(w)
           \/ \E u \in Uids \ {r.uid} :
                IF users[u] = None
                THEN Become(w, [r EXCEPT !.pc = "firebase", !.victim = u])
                ELSE Become(w, [r EXCEPT !.pc = "list", !.victim = u, !.from = users[u].id])
    BY <1>4 DEF AdoptBegin, At, tables, bucket
  <2>2. ASSUME NEW u \in Uids \ {r.uid}, users[u] = None,
               Become(w, [r EXCEPT !.pc = "firebase", !.victim = u])
        PROVE  RowsFit' /\ KeysFit' /\ WorkersFit'
    <3> DEFINE q == [r EXCEPT !.pc = "firebase", !.victim = u]
    <3>1. u \in Nat
      BY UidsOK
    <3>2. /\ q \in Request /\ q.op = r.op /\ q.uid = r.uid /\ q.id = r.id /\ q.pc = "firebase"
          /\ q.key = r.key /\ q.doomed = r.doomed /\ q.listed = r.listed /\ q.victim = u
      BY <1>1, <3>1 DEF Request, Statements
    <3>3. Become(w, q)
      BY <2>2
    <3> HIDE DEF q
    <3> QED BY <1>3, <2>1, <3>2, <3>3, TargetFits
  <2>3. ASSUME NEW u \in Uids \ {r.uid}, users[u] # None,
               Become(w, [r EXCEPT !.pc = "list", !.victim = u, !.from = users[u].id])
        PROVE  RowsFit' /\ KeysFit' /\ WorkersFit'
    <3> DEFINE q == [r EXCEPT !.pc = "list", !.victim = u, !.from = users[u].id]
    <3>1. u \in Nat /\ users[u].id \in Nat /\ Known(users[u].id)
      BY <1>2, <2>3, UidsOK DEF RowsFit, User
    <3>2. /\ q \in Request /\ q.op = r.op /\ q.uid = r.uid /\ q.id = r.id /\ q.pc = "list"
          /\ q.key = r.key /\ q.doomed = r.doomed /\ q.listed = r.listed /\ q.victim = u
          /\ q.from = users[u].id
      BY <1>1, <3>1 DEF Request, Statements
    <3>3. Become(w, q)
      BY <2>3
    <3> HIDE DEF q
    <3> QED BY <1>3, <2>1, <3>1, <3>2, <3>3, TargetFits DEF Moving
  <2> QED BY <2>1, <2>2, <2>3, FinishFits
<1>5. ASSUME NEW pc \in {"more", "move"}, NEW moved \in Seq(Files), r.pc \in {"list", "more"},
             Become(w, [r EXCEPT !.pc = pc, !.moved = moved]),
             UNCHANGED <<users, cache, lastSeq, files, urls, objects, crossed>>
      PROVE  RowsFit' /\ KeysFit' /\ WorkersFit'
  <2> DEFINE q == [r EXCEPT !.pc = pc, !.moved = moved]
  <2>1. /\ q \in Request /\ q.op = r.op /\ q.uid = r.uid /\ q.id = r.id /\ q.pc = pc
        /\ q.key = r.key /\ q.doomed = r.doomed /\ q.listed = r.listed
        /\ q.victim = r.victim /\ q.from = r.from
    BY <1>1 DEF Request, Statements
  <2>2. r.victim \in Uids /\ r.victim # r.uid /\ Known(r.from)
    BY <1>1, <1>3, <1>5 DEF SubjectOK, Moving
  <2>3. Become(w, q)
    BY <1>5
  <2> HIDE DEF q
  <2> QED BY <1>3, <1>5, <2>1, <2>2, <2>3, TargetFits DEF Moving
<1>7. ASSUME AdoptList(w) \/ AdoptMore(w)
      PROVE  RowsFit' /\ KeysFit' /\ WorkersFit'
  <2>1. ToMove(r.from) \subseteq Files
    BY DEF ToMove, LiveOf, OwnedBy
  <2>2. CASE AdoptList(w)
    <3>1. /\ r.pc = "list" /\ UNCHANGED <<users, cache, lastSeq, files, urls, objects, crossed>>
      BY <2>2 DEF AdoptList, At, tables, bucket
    <3>2. PICK rows \in BySeq(ToMove(r.from) \intersect Attachments) :
            Become(w, [r EXCEPT !.pc = "more", !.moved = rows])
      BY <2>2 DEF AdoptList
    <3>3. rows \in Seq(Files)
      BY <2>1, BySeqOK
    <3> QED BY <1>5, <3>1, <3>2, <3>3
  <2>3. CASE AdoptMore(w)
    <3>1. /\ r.pc = "more" /\ UNCHANGED <<users, cache, lastSeq, files, urls, objects, crossed>>
      BY <2>3 DEF AdoptMore, At, tables, bucket
    <3>2. PICK rows \in BySeq(ToMove(r.from) \intersect VoiceNotes) :
            Become(w, [r EXCEPT !.pc = "move", !.moved = @ \o rows])
      BY <2>3 DEF AdoptMore
    <3>3. rows \in Seq(Files)
      BY <2>1, BySeqOK
    <3>4. r.moved \o rows \in Seq(Files)
      BY <1>1, <3>3 DEF Request
    <3> QED BY <1>5, <3>1, <3>2, <3>4
  <2> QED BY <1>7, <2>2, <2>3
<1>6. ASSUME AdoptMove(w)
      PROVE  RowsFit' /\ KeysFit' /\ WorkersFit'
  <2>1. /\ r.pc = "move" /\ UNCHANGED <<users, cache, urls, objects, crossed>>
    BY <1>6 DEF AdoptMove, At, bucket
  <2>2. CASE \E n \in DOMAIN r.moved : files[r.moved[n]] = None
    BY <1>6, <2>1, <2>2, FinishFits DEF AdoptMove
  <2>3. CASE \A n \in DOMAIN r.moved : files[r.moved[n]] # None
    <3> DEFINE q == [r EXCEPT !.pc = "keys", !.moved = <<>>]
    <3>1. Move(r) /\ Become(w, q)
      BY <1>6, <2>3 DEF AdoptMove
    <3>2. /\ RowsFit' /\ DOMAIN lastSeq' = DOMAIN lastSeq
          /\ \A f \in Files : f \notin Range(r.moved) => files'[f] = files[f]
          /\ \A f \in Range(r.moved) : files[f] # None /\ files'[f].key = files[f].key
                                       /\ f \in Files
      <4> HIDE DEF q
      <4> QED BY <1>1, <1>2, <1>3, <2>1, <2>3, <3>1, MovedRows
    <3>3. <<>> \in Seq(Files)
      OBVIOUS
    <3>4. /\ q \in Request /\ q.op = r.op /\ q.uid = r.uid /\ q.id = r.id /\ q.pc = "keys"
          /\ q.key = r.key /\ q.doomed = r.doomed /\ q.listed = r.listed
          /\ q.victim = r.victim /\ q.from = r.from
      BY <1>1, <3>3 DEF Request, Statements
    <3>5. Become(w, q)
      BY <3>1
    <3> HIDE DEF q, r
    <3>6. StageOK(w, q)
      BY <1>1, <1>3, <3>4 DEF StageOK, Operations, Erasing, Moving, Emptying
    <3>7. SubjectOK(q)
      BY <1>1, <1>3, <2>1, <3>4 DEF SubjectOK, Acting, Operations, Erasing, Moving, Emptying
    <3>8. WorkersFit'
      BY <1>2, <2>1, <3>2, <3>4, <3>5, <3>6, <3>7, BecomeFits
    <3>9. KeysFit'
      <4>1. \A f \in Files : files'[f] # None =>
              \E g \in Files : files[g] # None /\ files'[f].key = files[g].key
        BY <3>2
      <4> QED BY <1>1, <2>1, <3>4, <3>5, <4>1, KeysFade
    <3> QED BY <3>2, <3>8, <3>9
  <2> QED BY <2>2, <2>3
<1> QED BY <1>4, <1>6, <1>7 DEF Adopt

-----------------------------------------------------------------------------
(* The sweep, failures, and the rest                                       *)

LEMMA SweepFits ==
  ASSUME FitInv, SweepList
  PROVE  RowsFit' /\ KeysFit' /\ WorkersFit'
<1> DEFINE L == {[uid |-> u, id |-> users[u].id] : u \in {v \in Uids : Abandoned(v)}}
<1>1. RowsFit /\ KeysFit /\ Sweeper \in Workers
  BY FitParts, UidsOK
<1>2. SweepOn(L) /\ UNCHANGED <<users, cache, lastSeq, files, urls, objects, crossed>>
  BY DEF SweepList, tables, bucket
<1>3. L \in SUBSET Listed /\ \A d \in L : Known(d.id)
  BY <1>1 DEF RowsFit, Abandoned, Listed, User
<1> HIDE DEF L
<1>4. PICK q : SweptNext(L, q) /\ Become(Sweeper, q)
  BY <1>2, SweepOnGives
<1>5. /\ q \in Request /\ StageOK(Sweeper, q) /\ SubjectOK(q)
      /\ q.key = None /\ q.doomed = {}
  BY <1>3, <1>4, SweptNextFits
<1>6. urls' \subseteq urls \union {None} /\ urls' \subseteq Key
  BY <1>1, <1>2 DEF KeysFit
<1> QED BY <1>1, <1>2, <1>4, <1>5, <1>6, QuietFits DEF KeysFit

LEMMA UnheardFits ==
  ASSUME FitInv, NEW w \in Workers, EraseUnheard(w)
  PROVE  RowsFit' /\ KeysFit' /\ WorkersFit' /\ MarksFit'
<1> DEFINE r == worker[w]
<1>1. RowsFit /\ KeysFit /\ WorkersFit /\ MarksFit
  BY FitParts
<1>2. /\ Commit(r) /\ Become(w, Idle) /\ lost' = lost \union {r.from}
      /\ UNCHANGED <<cache, firebase, stale, urls, objects, crossed>>
  BY DEF EraseUnheard, Finish, tokens, bucket
<1>3. RowsFit' /\ \A f \in Files : files'[f] = None \/ files'[f] = files[f]
  BY <1>1, <1>2, CommitRows
<1>4. DOMAIN lastSeq' = DOMAIN lastSeq
  BY <1>1, <1>2, CommitRows
<1>5. WorkersFit'
  BY <1>1, <1>2, <1>4, IdleOK, IdleFits, BecomeFits
<1>6. KeysFit'
  <2>1. Idle.key \in KeysAround \union {None} /\ Idle.doomed \subseteq KeysAround
    BY IdleOK
  <2> HIDE DEF r
  <2> QED BY <1>2, <1>3, <2>1, KeysFade
<1>7. MarksFit'
  <2>1. r.from \in Nat
    BY RequestFit DEF Request
  <2> QED BY <1>1, <1>2, <2>1 DEF MarksFit, Commit, Become
<1> QED BY <1>3, <1>5, <1>6, <1>7

LEMMA RestartFits ==
  ASSUME FitInv, Restart
  PROVE  RowsFit' /\ KeysFit' /\ WorkersFit' /\ MarksFit'
<1>1. RowsFit /\ KeysFit /\ WorkersFit /\ MarksFit
  BY FitParts
<1>2. /\ UNCHANGED <<users, lastSeq, files, urls, objects, crossed, lost, firebase, stale, torn, seenAs>>
      /\ cache' = cache \/ cache' = [u \in Uids |-> None]
  BY DEF Restart, tables, bucket, tokens
<1>3. /\ worker' \in [Workers -> Request]
      /\ \A v \in Workers : worker'[v] = Idle \/ worker'[v] = worker[v]
  BY <1>1, IdleOK DEF WorkersFit, Restart, Workers
<1>4. RowsFit'
  BY <1>1, <1>2 DEF RowsFit, Known, MadeFor
<1>5. MarksFit'
  BY <1>1, <1>2 DEF MarksFit
<1>6. ASSUME NEW v \in Workers
      PROVE  StageOK(v, worker[v])' /\ SubjectOK(worker[v])'
  <2>1. PICK s : s = worker'[v]
    OBVIOUS
  <2>2. StageOK(v, s) /\ SubjectOK(s)
    BY <1>1, <1>3, <2>1, IdleFits DEF WorkersFit
  <2>3. StageOK(v, worker[v])'
    BY <2>1, <2>2 DEF StageOK
  <2>4. SubjectOK(worker[v])'
    BY <1>2, <2>1, <2>2 DEF SubjectOK, Known, Acting, MadeFor
  <2> QED BY <2>3, <2>4
<1>7. KeysFit'
  <2>1. IsFiniteSet(KeysAround \union {None})
    BY <1>1, FS_AddElement DEF KeysFit
  <2>2. KeysAround' \subseteq KeysAround \union {None}
    <3>1. /\ urls \subseteq KeysAround /\ objects \subseteq KeysAround
          /\ \A g \in Files : files[g] # None => files[g].key \in KeysAround
          /\ \A v \in Workers : worker[v].key \in KeysAround /\ worker[v].doomed \subseteq KeysAround
      BY DEF KeysAround
    <3>2. \A v \in Workers : worker'[v].key \in KeysAround \union {None}
                            /\ worker'[v].doomed \subseteq KeysAround
      BY <1>3, <3>1, IdleOK
    <3> QED BY <1>2, <3>1, <3>2 DEF KeysAround
  <2> QED BY <1>1, <1>2, <2>1, <2>2, FS_Subset DEF KeysFit
<1> QED BY <1>3, <1>4, <1>5, <1>6, <1>7 DEF WorkersFit

LEMMA TokenOK ==
  ASSUME NEW u \in Uids
  PROVE  Token(u) \in Uids \X BOOLEAN
<1>1. (firebase[u] = "guest") \in BOOLEAN
  OBVIOUS
<1>2. \A b \in BOOLEAN : <<u, b>> \in Uids \X BOOLEAN
  OBVIOUS
<1> QED BY <1>1, <1>2 DEF Token

LEMMA AroundFits ==
  ASSUME FitInv, Around
  PROVE  RowsFit' /\ KeysFit' /\ WorkersFit' /\ MarksFit'
<1>1. RowsFit /\ KeysFit /\ WorkersFit /\ MarksFit
  BY FitParts
<1>2. /\ UNCHANGED <<lastSeq, files, worker, torn, seenAs, lost, crossed>>
      /\ \/ \E u \in Uids : Link(u) \/ Month(u)
         \/ \E k \in urls : Put(k)
  BY DEF Around, Link, Month, Put, tables, bucket
<1>3. WorkersFit'
  <2>1. ASSUME NEW v \in Workers
        PROVE  StageOK(v, worker[v])' /\ SubjectOK(worker[v])'
    <3>1. StageOK(v, worker[v]) /\ SubjectOK(worker[v])
      BY <1>1 DEF WorkersFit
    <3> QED BY <1>2, <3>1 DEF StageOK, SubjectOK, Known, Acting, MadeFor
  <2> QED BY <1>1, <1>2, <2>1 DEF WorkersFit
<1>4. /\ urls \subseteq KeysAround /\ objects \subseteq KeysAround
      /\ \A g \in Files : files[g] # None => files[g].key \in KeysAround
      /\ \A v \in Workers : worker[v].key \in KeysAround /\ worker[v].doomed \subseteq KeysAround
  BY DEF KeysAround
<1>5. ASSUME urls' \subseteq urls, objects' \subseteq objects \union urls
      PROVE  KeysFit'
  <2>1. KeysAround' \subseteq KeysAround
    BY <1>2, <1>4, <1>5 DEF KeysAround
  <2> QED BY <1>1, <1>2, <1>5, <2>1, FS_Subset DEF KeysFit
<1>6. ASSUME NEW u \in Uids, Link(u)
      PROVE  RowsFit' /\ KeysFit' /\ MarksFit'
  <2>1. /\ UNCHANGED <<users, lastSeq, files, cache, urls, objects, crossed, torn, seenAs>>
        /\ firebase' = [firebase EXCEPT ![u] = "linked"]
        /\ stale' = stale \union {Token(u)}
    BY <1>6 DEF Link, tables, bucket
  <2>2. MarksFit'
    BY <1>1, <1>2, <2>1, TokenOK DEF MarksFit
  <2> QED BY <1>1, <1>5, <2>1, <2>2, RowsStay
<1>7. ASSUME NEW u \in Uids, Month(u)
      PROVE  RowsFit' /\ KeysFit' /\ MarksFit'
  <2>1. /\ UNCHANGED <<firebase, lastSeq, files, objects, crossed, worker, torn, seenAs>>
        /\ users[u] # None /\ users' = [users EXCEPT ![u].seen = FALSE]
        /\ stale' = {} /\ urls' = {} /\ cache' = [v \in Uids |-> None]
    BY <1>7 DEF Month
  <2>2. users[u] \in User
    BY <1>1, <2>1 DEF RowsFit
  <2> DEFINE row == [users[u] EXCEPT !.seen = FALSE]
  <2>3. row \in User /\ row.id = users[u].id /\ users' = [users EXCEPT ![u] = row]
    BY <2>1, <2>2 DEF User
  <2> HIDE DEF row
  <2>4. /\ users' \in [Uids -> User \union {None}]
        /\ \A v \in Uids : users'[v] # None => users[v] # None /\ users'[v].id = users[v].id
    BY <1>1, <2>1, <2>3 DEF RowsFit
  <2>5. RowsFit'
    BY <1>1, <2>1, <2>4 DEF RowsFit, Known, MadeFor
  <2>6. MarksFit'
    BY <1>1, <1>2, <2>1 DEF MarksFit
  <2> QED BY <1>5, <2>1, <2>5, <2>6
<1>8. ASSUME NEW k \in urls, Put(k)
      PROVE  RowsFit' /\ KeysFit' /\ MarksFit'
  <2>1. /\ UNCHANGED <<firebase, stale, users, lastSeq, files, cache, urls, torn, seenAs>>
        /\ objects' = objects \union {k}
    BY <1>8 DEF Put, tables, tokens
  <2>2. MarksFit'
    BY <1>1, <1>2, <2>1 DEF MarksFit
  <2> QED BY <1>1, <1>2, <1>5, <2>1, <2>2, RowsStay
<1> QED BY <1>2, <1>3, <1>6, <1>7, <1>8

LEMMA EraseMarks ==
  ASSUME FitInv, NEW w \in Workers, EraseStep(w)
  PROVE  MarksFit'
<1> DEFINE r == worker[w]
<1>1. MarksFit /\ r \in Request /\ StageOK(w, r) /\ SubjectOK(r)
  BY FitParts, RequestFit
<1>2. CASE FirebaseDelete(w)
  <2>1. r.victim \in Uids
    BY <1>1, <1>2 DEF FirebaseDelete, SubjectOK, Erasing, Moving, Emptying
  <2>2. /\ UNCHANGED <<seenAs, lost>> /\ (Goto(w, "forget") \/ Finish(w))
        /\ \/ UNCHANGED tokens
           \/ /\ firebase' = [firebase EXCEPT ![r.victim] = "gone"]
              /\ stale' = stale \union {Token(r.victim)}
    BY <1>2 DEF FirebaseDelete, tables
  <2>3. Token(r.victim) \in Uids \X BOOLEAN
    BY <2>1, TokenOK
  <2>4. torn' \in BOOLEAN
    BY <1>1, <2>2 DEF Goto, Finish, Become, MarksFit
  <2> HIDE DEF r
  <2> QED BY <1>1, <2>2, <2>3, <2>4 DEF MarksFit, tokens
<1>3. CASE Forget(w) \/ EraseKeys(w) \/ EraseFirst(w)
  BY <1>1, <1>3 DEF Forget, EraseKeys, Doom, EraseFirst, Goto, Finish, Become, MarksFit, tokens, tables
<1>4. ASSUME NEW s \in Request, StageOK(w, s), s.pc \in Erasing, Objects(w, s)
      PROVE  torn' \in BOOLEAN
  BY <1>1, <1>4, ObjectsGive DEF Become, MarksFit
<1>5. CASE EraseRows(w)
  <2>1. torn' \in BOOLEAN
    BY <1>1, <1>4, <1>5 DEF EraseRows, Finish, Become, MarksFit, Erasing, Moving, Emptying
  <2>2. /\ UNCHANGED <<firebase, stale, lost>>
        /\ seenAs' = seenAs \/ seenAs' = [seenAs EXCEPT ![r.victim] = {}]
    BY <1>5 DEF EraseRows, Commit, tokens, tables
  <2> QED BY <1>1, <2>1, <2>2 DEF MarksFit
<1>6. CASE EraseObject(w)
  <2>1. /\ UNCHANGED <<firebase, stale, seenAs, lost>> /\ r.pc = "objects"
        /\ \E k \in r.doomed : Objects(w, [r EXCEPT !.doomed = @ \ {k}])
    BY <1>6 DEF EraseObject, tokens, tables
  <2>2. \A k : StageOK(w, [r EXCEPT !.doomed = @ \ {k}])
               /\ [r EXCEPT !.doomed = @ \ {k}].pc \in Erasing
               /\ [r EXCEPT !.doomed = @ \ {k}] \in Request
    BY <1>1, <2>1 DEF StageOK, Request, Erasing, Moving, Emptying, Operations
  <2> QED BY <1>1, <1>4, <2>1, <2>2 DEF MarksFit
<1> QED BY <1>2, <1>3, <1>5, <1>6 DEF EraseStep

LEMMA OtherMarks ==
  ASSUME MarksFit, NEW w \in Workers,
         \/ UploadStep(w) \/ DeleteBegin(w) \/ Adopt(w) \/ SweepList
         \/ Finish(w) /\ UNCHANGED <<tokens, tables, seenAs>>
  PROVE  MarksFit'
<1>1. /\ UNCHANGED <<firebase, stale, lost>>
      /\ seenAs' = seenAs \/ seenAs' = [u \in Uids |-> seenAs[u] \ {"back"}]
  BY DEF UploadStep, CreateAttachment, CreateVoiceNote, CreateWrite, AskAttachment, AskVoiceNote,
         ConfirmFind, ConfirmHead, EditBegin, EditFind, NumberFile, EditWrite, Push, Answer,
         DeleteBegin, Adopt, AdoptBegin, AdoptList, AdoptMore, AdoptMove, SweepList, Number, tokens, tables
<1>2. \E v, q : Become(v, q)
  <2>1. CASE UploadStep(w)
    BY <2>1 DEF UploadStep, CreateAttachment, CreateVoiceNote, CreateWrite, AskAttachment,
         AskVoiceNote, ConfirmFind, ConfirmHead, EditBegin, EditFind, NumberFile, EditWrite,
         Push, Answer, Chose, Goto, Finish, Number
  <2>2. CASE DeleteBegin(w) \/ Adopt(w)
    BY <2>2 DEF DeleteBegin, Adopt, AdoptBegin, AdoptList, AdoptMore, AdoptMove, Finish
  <2>3. CASE SweepList
    BY <2>3, SweepOnGives DEF SweepList
  <2> QED BY <2>1, <2>2, <2>3 DEF Finish
<1> QED BY <1>1, <1>2 DEF MarksFit, Become

-----------------------------------------------------------------------------
(* FitInv is inductive                                                     *)

LEMMA StoredOK ==
  /\ Stored \in [Files -> File \union {None}]
  /\ \A f \in Files : Stored[f] # None => Stored[f].owner \in Uids
  /\ \A u \in Uids : StoredBy(u) \in Nat
<1>1. ASSUME NEW u \in Uids PROVE StoredBy(u) \in Nat
  <2> DEFINE S == {f \in Files : Stored[f] # None /\ Stored[f].owner = u}
  <2>1. IsFiniteSet(S)
    BY AccountAssumption, FS_Subset
  <2>2. Cardinality(S) \in Nat
    BY <2>1, FS_CardinalityType
  <2> QED BY <2>2 DEF StoredBy
<1> QED BY <1>1, AccountAssumption

LEMMA InitFits ==
  ASSUME StateInit
  PROVE  FitInv
<1>1. Cardinality(Uids) \in Nat /\ Uids = 1..Cardinality(Uids)
  BY UidsOK, AccountAssumption
<1>2. MarksFit
  BY DEF StateInit, MarksFit
<1>3. WorkersFit
  BY IdleOK, IdleFits DEF StateInit, WorkersFit
<1>4. lastSeq \in Seq(Nat) /\ DOMAIN lastSeq = Uids
  <2> DEFINE n == Cardinality(Uids)
  <2>1. lastSeq = [u \in 1..n |-> StoredBy(u)] /\ \A u \in 1..n : StoredBy(u) \in Nat
    BY <1>1, StoredOK DEF StateInit
  <2> HIDE DEF n
  <2> QED BY <1>1, <2>1 DEF n
<1>5. RowsFit
  <2>1. PICK cached \in SUBSET Uids :
          cache = [u \in Uids |-> IF u \in cached THEN [id |-> u, anonymous |-> u \in Guests]
                                                  ELSE None]
    BY DEF StateInit
  <2>2. \A u \in Uids : u \in Nat /\ (u \in Guests) \in BOOLEAN
    BY UidsOK
  <2>3. /\ users = [u \in Uids |-> [id |-> u, anonymous |-> u \in Guests, seen |-> TRUE]]
        /\ files = Stored
    BY DEF StateInit
  <2>4. \A u \in Uids : users[u] \in User /\ users[u].id = u
    BY <2>2, <2>3 DEF User
  <2>5. \A u \in Uids : cache[u] # None => cache[u] \in Principal /\ cache[u].id = u
    BY <2>1, <2>2 DEF Principal
  <2>6. users \in [Uids -> User \union {None}] /\ cache \in [Uids -> Principal \union {None}]
    BY <2>1, <2>3, <2>4, <2>5
  <2> QED BY <1>4, <2>3, <2>4, <2>5, <2>6, StoredOK, AccountAssumption DEF RowsFit, Known, MadeFor
<1>6. KeysFit
  <2> DEFINE key == [f \in Files |-> IF Stored[f] = None THEN None ELSE Stored[f].key]
             T == {key[f] : f \in Files}
  <2>1. IsFiniteSet(T)
    <3>1. key \in Surjection(Files, T)
      BY DEF Surjection
    <3> HIDE DEF key, T
    <3> QED BY <3>1, AccountAssumption, FS_Surjection
  <2>2. IsFiniteSet(T \union {None})
    BY <2>1, FS_AddElement
  <2>3. /\ files = Stored /\ urls = {} /\ crossed = {} /\ worker = [w \in Workers |-> Idle]
        /\ objects = {Stored[f].key : f \in {g \in Files : Stored[g] # None}} \ {None}
    BY DEF StateInit
  <2>4. KeysAround \subseteq T \union {None}
    BY <2>3, IdleOK DEF KeysAround
  <2>5. objects \subseteq Key
    BY <2>3, StoredOK DEF File
  <2> QED BY <2>2, <2>3, <2>4, <2>5, FS_Subset DEF KeysFit
<1> QED BY <1>2, <1>3, <1>5, <1>6, FitParts

LEMMA NextFits ==
  ASSUME FitInv, [Next]_vars
  PROVE  FitInv'
<1> SUFFICES RowsFit' /\ KeysFit' /\ WorkersFit' /\ MarksFit'
  BY DEF FitInv, StateTypeOK, TablesOK, MarksFit, RowsFit, KeysFit, WorkersFit
<1>1. MarksFit /\ RowsFit /\ KeysFit /\ WorkersFit
  BY FitParts
<1>2. ASSUME NEW w \in Handlers, Begin(w)
      PROVE  RowsFit' /\ KeysFit' /\ WorkersFit' /\ MarksFit'
  BY <1>2, EnterFits, AccountsAssumption DEF Begin
<1>3. ASSUME NEW w \in Handlers, Serve(w)
      PROVE  RowsFit' /\ KeysFit' /\ WorkersFit' /\ MarksFit'
  <2>1. w \in Workers
    BY UidsOK
  <2> QED BY <1>1, <1>3, <2>1, ResolveFits, UploadFits, DeleteFits, AdoptFits, EraseFits,
             EraseMarks, OtherMarks DEF Serve
<1>4. ASSUME Sweep
      PROVE  RowsFit' /\ KeysFit' /\ WorkersFit' /\ MarksFit'
  <2>1. Sweeper \in Workers
    BY UidsOK
  <2> QED BY <1>1, <1>4, <2>1, SweepFits, EraseFits, EraseMarks, OtherMarks DEF Sweep
<1>5. ASSUME NEW w \in Workers, Fail(w)
      PROVE  RowsFit' /\ KeysFit' /\ WorkersFit' /\ MarksFit'
  <2>1. CASE EraseUnheard(w)
    BY <2>1, UnheardFits
  <2>2. CASE Finish(w) /\ UNCHANGED <<tables, bucket, tokens, cache, seenAs>>
    <3>1. UNCHANGED <<users, cache, lastSeq, files, urls, objects, crossed>>
      BY <2>2 DEF tables, bucket
    <3> QED BY <1>1, <2>2, <3>1, FinishFits, OtherMarks
  <2> QED BY <1>5, <2>1, <2>2 DEF Fail
<1>6. ASSUME Around
      PROVE  RowsFit' /\ KeysFit' /\ WorkersFit' /\ MarksFit'
  BY <1>6, AroundFits
<1>7. ASSUME UNCHANGED vars
      PROVE  RowsFit' /\ KeysFit' /\ WorkersFit' /\ MarksFit'
  <2>1. UNCHANGED <<users, lastSeq, files, urls, objects, crossed, lost, firebase, stale, cache, worker, torn, seenAs>>
    BY <1>7 DEF vars, tables, bucket, tokens
  <2> QED BY <1>1, <2>1 DEF MarksFit, RowsFit, KeysFit, WorkersFit, KeysAround, Known, StageOK,
               SubjectOK, Acting, MadeFor
<1> QED BY <1>2, <1>3, <1>4, <1>5, <1>6, <1>7, RestartFits DEF Next, Crash

\* What requests, erasures, the sweep and clients' uploads make of users, files,
\* keys and the cache is of its type, whatever overlaps, fails or dies: a fresh
\* key is always found, every number is a counter's, and the orders in which an
\* eraser works never leave it without a next statement.
THEOREM AccountTypes == Spec => []TypeOK
<1>1. Init => FitInv /\ TypeOK
  BY InitFits, AccountsAssumption DEF Init, FitInv, TypeOK
<1>2. (FitInv /\ TypeOK) /\ [Next]_vars => (FitInv /\ TypeOK)'
  <2> SUFFICES ASSUME FitInv, TypeOK, [Next]_vars PROVE (FitInv /\ TypeOK)'
    OBVIOUS
  <2>1. FitInv'
    BY NextFits
  <2>2. requests' \in 0..MaxRequests /\ crashes' \in 0..MaxCrashes
    BY AccountsAssumption DEF TypeOK, Next, Begin, Serve, Crash, Around, bounds, vars
  <2> QED BY <2>1, <2>2 DEF FitInv, TypeOK
<1> QED BY <1>1, <1>2, PTL DEF Spec

-----------------------------------------------------------------------------
(* Guests and members                                                      *)

\* A request goes on as the user's it was, or ends.
Goes(r, q) ==
  \/ q.uid = 0
  \/ /\ q.uid = r.uid /\ q.anonymous = r.anonymous
     /\ q.pc = "remember" => r.pc = "remember"
     /\ Acting(q) => Acting(r)

\* A sweep comes by nobody it has not listed.
Narrows(r, q) ==
  q.op = "sweep" =>
    /\ r.op = "sweep" /\ q.listed \subseteq r.listed
    /\ \/ q.victim = r.victim /\ q.from = r.from
       \/ \E d \in r.listed : q.victim = d.uid /\ q.from = d.id

Kept(r, q) == Goes(r, q) /\ Narrows(r, q)

GuestsFit == ListOK /\ \A u \in Uids : GuestOK(u)

LEMMA KeptSame ==
  ASSUME NEW r PROVE Kept(r, r)
BY DEF Kept, Goes, Narrows

LEMMA UploadKeeps ==
  ASSUME FitInv, NEW w \in Workers, UploadStep(w)
  PROVE  /\ \E q : Become(w, q) /\ Kept(worker[w], q)
         /\ UNCHANGED <<firebase, stale, users, cache, seenAs>>
<1> DEFINE r == worker[w]
<1>1. r \in Request
  BY RequestFit
<1>2. UNCHANGED <<firebase, stale, users, cache, seenAs>>
  BY DEF UploadStep, CreateAttachment, CreateVoiceNote, CreateWrite, AskAttachment, AskVoiceNote,
         ConfirmFind, ConfirmHead, EditBegin, EditFind, NumberFile, EditWrite, Push, Answer,
         Number, tokens, tables
<1> DEFINE Goal == \E q : Become(w, q) /\ Kept(r, q)
<1>0. r.op # "sweep"
  <2>1. UploadStep(w) => r.pc \notin Erasing
    BY DEF UploadStep, CreateAttachment, CreateVoiceNote, CreateWrite, AskAttachment, AskVoiceNote,
         ConfirmFind, ConfirmHead, EditBegin, EditFind, NumberFile, EditWrite, Push, Answer, At,
         Erasing, Emptying
  <2> QED BY <2>1, RequestFit DEF StageOK
<1>3. ASSUME NEW q, Become(w, q), q = Idle \/ r.pc # "upsert",
             q = Idle \/ (q.uid = r.uid /\ q.anonymous = r.anonymous /\ q.op = r.op
                          /\ q.pc # "remember")
      PROVE  Goal
  <2>1. Kept(r, q)
    BY <1>0, <1>3, IdleOK DEF Kept, Goes, Narrows, Acting
  <2> QED BY <1>3, <2>1
<1> HIDE DEF Goal
<1>4. Finish(w) => Goal
  BY <1>3 DEF Finish
<1>5. ASSUME NEW pc \in {"head", "find", "number"}, NEW f, Chose(w, pc, f) \/ Goto(w, pc),
             r.pc # "upsert"
      PROVE  Goal
  <2>1. CASE Chose(w, pc, f)
    <3> DEFINE q == [r EXCEPT !.pc = pc, !.file = f]
    <3>1. q.uid = r.uid /\ q.anonymous = r.anonymous /\ q.op = r.op /\ q.pc # "remember"
      BY <1>1 DEF Request
    <3>2. Become(w, q)
      BY <2>1 DEF Chose
    <3> HIDE DEF q
    <3> QED BY <1>3, <1>5, <3>1, <3>2
  <2>2. CASE Goto(w, pc)
    <3> DEFINE q == [r EXCEPT !.pc = pc]
    <3>1. q.uid = r.uid /\ q.anonymous = r.anonymous /\ q.op = r.op /\ q.pc # "remember"
      BY <1>1 DEF Request
    <3>2. Become(w, q)
      BY <2>2 DEF Goto
    <3> HIDE DEF q
    <3> QED BY <1>3, <1>5, <3>1, <3>2
  <2> QED BY <1>5, <2>1, <2>2
<1>6. ASSUME CreateAttachment(w) \/ CreateVoiceNote(w) \/ CreateWrite(w)
       PROVE  Goal
  BY <1>4, <1>5, <1>6 DEF CreateAttachment, CreateVoiceNote, CreateWrite, At
<1>7. ASSUME AskAttachment(w) \/ AskVoiceNote(w)
       PROVE  Goal
  BY <1>4, <1>5, <1>7 DEF AskAttachment, AskVoiceNote, At
<1>8. ASSUME ConfirmFind(w)
       PROVE  Goal
  <2>1. ASSUME NEW f, NEW k, Become(w, [r EXCEPT !.pc = "head", !.file = f, !.key = k])
        PROVE  Goal
    <3> DEFINE q == [r EXCEPT !.pc = "head", !.file = f, !.key = k]
    <3>1. q.uid = r.uid /\ q.anonymous = r.anonymous /\ q.op = r.op /\ q.pc # "remember"
      BY <1>1 DEF Request
    <3>2. Become(w, q) /\ r.pc # "upsert"
      BY <1>8, <2>1 DEF ConfirmFind, At
    <3> HIDE DEF q
    <3> QED BY <1>3, <3>1, <3>2
  <2> QED BY <1>4, <1>8, <2>1 DEF ConfirmFind
<1>9. ASSUME ConfirmHead(w) \/ EditBegin(w) \/ EditFind(w)
       PROVE  Goal
  BY <1>4, <1>5, <1>9 DEF ConfirmHead, EditBegin, EditFind, At
<1>10. ASSUME NumberFile(w)
       PROVE  Goal
  <2> DEFINE q == [r EXCEPT !.pc = "write", !.seq = lastSeq[r.id] + 1]
  <2>1. q.uid = r.uid /\ q.anonymous = r.anonymous /\ q.op = r.op /\ q.pc # "remember"
    BY <1>1 DEF Request
  <2>2. Become(w, q) /\ r.pc # "upsert"
    BY <1>10 DEF NumberFile, Number
  <2> HIDE DEF q
  <2> QED BY <1>3, <2>1, <2>2
<1>11. ASSUME EditWrite(w) \/ Push(w) \/ Answer(w)
       PROVE  Goal
  BY <1>4, <1>11 DEF EditWrite, Push, Answer
<1> QED BY <1>2, <1>6, <1>7, <1>8, <1>9, <1>10, <1>11 DEF UploadStep, Goal

\* What an erasure, a failure or the passing of time takes away.
LEMMA EachGuest ==
  ASSUME GuestInv,
         \A w \in Workers : Goes(worker[w], worker'[w]),
         \A u \in Uids : firebase'[u] = "guest" =>
           firebase[u] = "guest" /\ (<<u, FALSE>> \in stale' => <<u, FALSE>> \in stale),
         \A u \in Uids : \/ seenAs'[u] \in {seenAs[u], seenAs[u] \ {"back"}}
                         \/ seenAs'[u] = {} /\ users'[u] = None,
         \A u \in Uids : users'[u] = users[u] \/ users'[u] = None,
         \A u \in Uids : cache'[u] = cache[u] \/ cache'[u] = None
  PROVE  \A u \in Uids : GuestOK(u)'
<1> SUFFICES ASSUME NEW u \in Uids PROVE GuestOK(u)'
  OBVIOUS
<1>1. GuestOK(u) /\ u # 0
  BY UidsOK DEF GuestInv
<1>2. \A w \in Workers : worker'[w].uid = u => Goes(worker[w], worker'[w]) /\ worker'[w].uid # 0
  BY <1>1
<1>3. firebase'[u] = "guest" =>
       /\ "linked" \notin seenAs'[u] /\ <<u, FALSE>> \notin stale'
       /\ cache'[u] # None => cache'[u].anonymous
       /\ \A w \in Workers : worker'[w].uid = u => worker'[w].anonymous
  BY <1>1, <1>2 DEF GuestOK, Goes
<1>4. users'[u] # None /\ users'[u].anonymous /\ "late" \notin seenAs'[u] =>
       /\ "linked" \notin seenAs'[u]
       /\ cache'[u] # None => cache'[u].anonymous
       /\ \A w \in Workers :
            worker'[w].uid = u /\ worker'[w].pc = "remember" => worker'[w].anonymous
  BY <1>1, <1>2 DEF GuestOK, Goes
<1>5. users'[u] # None /\ ~users'[u].seen =>
       cache'[u] = None /\ \A w \in Workers : worker'[w].uid = u => ~Acting(worker'[w])
  BY <1>1, <1>2 DEF GuestOK, Goes
<1> QED BY <1>3, <1>4, <1>5 DEF GuestOK, Acting

\* What becomes of those the sweep has listed.
LEMMA ListStays ==
  ASSUME GuestInv, Narrows(worker[Sweeper], worker'[Sweeper]),
         \A u \in Uids, id \in DOMAIN lastSeq :
           SweepHas(u) /\ SweptOK(u, id) => SweptOK(u, id)'
  PROVE  ListOK'
<1> DEFINE r == worker[Sweeper]
           q == worker'[Sweeper]
<1>1. r \in Request /\ SubjectOK(r) /\ StageOK(Sweeper, r)
  BY RequestFit, UidsOK DEF GuestInv
<1> DEFINE After(u, id) ==
      \/ users'[u] = None
      \/ "back" \in seenAs'[u]
      \/ users'[u].id = id /\ users'[u].anonymous /\ ~users'[u].seen
<1> SUFFICES ASSUME q.op = "sweep"
             PROVE  After(q.victim, q.from) /\ \A d \in q.listed : After(d.uid, d.id)
  BY DEF ListOK, SweptOK, Stands, Is, Unseen
<1>2. /\ r.op = "sweep" /\ q.listed \subseteq r.listed
      /\ \/ q.victim = r.victim /\ q.from = r.from
         \/ \E d \in r.listed : q.victim = d.uid /\ q.from = d.id
  BY DEF Narrows
<1>3. SweptOK(r.victim, r.from) /\ \A d \in r.listed : SweptOK(d.uid, d.id)
  BY <1>2 DEF GuestInv, ListOK
<1>4. r.victim \in Uids /\ r.from \in DOMAIN lastSeq /\ SweepHas(r.victim)
  BY <1>1, <1>2 DEF StageOK, SubjectOK, Known, SweepHas
<1>5. \A d \in r.listed : d.uid \in Uids /\ d.id \in DOMAIN lastSeq /\ SweepHas(d.uid)
  BY <1>1, <1>2 DEF SubjectOK, Known, Request, SweepHas
<1>6. \A u \in Uids, id \in DOMAIN lastSeq : SweepHas(u) /\ SweptOK(u, id) => After(u, id)
  BY DEF SweptOK, Stands, Is, Unseen
<1> HIDE DEF r, q, After
<1>7. After(r.victim, r.from) /\ \A d \in r.listed : After(d.uid, d.id)
  BY <1>3, <1>4, <1>5, <1>6
<1> QED BY <1>2, <1>7

LEMMA GuestsStay ==
  ASSUME GuestInv,
         \A w \in Workers : Kept(worker[w], worker'[w]),
         \A u \in Uids : firebase'[u] = "guest" =>
           firebase[u] = "guest" /\ (<<u, FALSE>> \in stale' => <<u, FALSE>> \in stale),
         \A u \in Uids : seenAs'[u] = seenAs[u] \/ (seenAs'[u] = {} /\ users'[u] = None),
         \A u \in Uids : users'[u] = users[u] \/ users'[u] = None,
         \A u \in Uids : cache'[u] = cache[u] \/ cache'[u] = None
  PROVE  GuestsFit'
<1>1. \A u \in Uids : GuestOK(u)'
  BY EachGuest DEF Kept
<1>2. \A u \in Uids, id \in DOMAIN lastSeq : SweptOK(u, id) => SweptOK(u, id)'
  BY DEF SweptOK, Stands, Is, Unseen
<1>3. Narrows(worker[Sweeper], worker'[Sweeper])
  BY UidsOK DEF Kept
<1>4. ListOK'
  BY <1>2, <1>3, ListStays
<1> QED BY <1>1, <1>4 DEF GuestsFit, ListOK, GuestOK, SweptOK, Stands, Is, Unseen, Acting

LEMMA OthersKept ==
  ASSUME FitInv, NEW w \in Workers, NEW q, Become(w, q), Kept(worker[w], q)
  PROVE  \A v \in Workers : Kept(worker[v], worker'[v])
BY FitParts, Becomes, KeptSame DEF WorkersFit

\* A statement that leaves the users and what is known of them.
LEMMA QuietGuests ==
  ASSUME GuestInv, NEW w \in Workers, NEW q, Become(w, q), Kept(worker[w], q),
         UNCHANGED <<firebase, stale, users, cache, seenAs>>
  PROVE  GuestsFit'
<1>1. \A v \in Workers : Kept(worker[v], worker'[v])
  BY OthersKept DEF GuestInv
<1> QED BY <1>1, GuestsStay

LEMMA FinishKept ==
  ASSUME NEW r
  PROVE  Kept(r, Idle)
BY IdleOK DEF Kept, Goes, Narrows

LEMMA ErasedNextKept ==
  ASSUME NEW r \in Request, r.pc \in {"rest", "objects"}, StageOK(Sweeper, r) \/ r.op # "sweep",
         SubjectOK(r), NEW q, ErasedNext(r, q)
  PROVE  Kept(r, q)
<1>1. ASSUME NEW pc \in {"objects", "firebase"}, q = [r EXCEPT !.rows = {}, !.pc = pc]
      PROVE  Kept(r, q)
  BY <1>1 DEF Request, Kept, Goes, Narrows, Acting
<1>2. CASE r.op = "sweep" /\ SweptNext(r.listed, q)
  <2>1. r.listed \in SUBSET Listed /\ \A d \in r.listed : Known(d.id)
    BY DEF Request, Listed, SubjectOK
  <2>2. Goes(r, q)
    BY <1>2, <2>1, SweptNextFits DEF Goes
  <2>3. Narrows(r, q)
    BY <1>2, IdleOK DEF SweptNext, Narrows, Idle
  <2> QED BY <2>2, <2>3 DEF Kept
<1> QED BY <1>1, <1>2, FinishKept DEF ErasedNext

\* The statements of eraseUser, once decided.
LEMMA EraseRowsGives ==
  ASSUME FitInv, NEW w \in Workers, EraseRows(w), Is(worker[w].victim, worker[w].from)
  PROVE  /\ Commit(worker[w]) /\ UNCHANGED <<firebase, stale, cache, urls, objects, crossed, lost>>
         /\ \E q : ErasedNext(worker[w], q) /\ Become(w, q) /\ Kept(worker[w], q)
<1> DEFINE r == worker[w]
<1>1. r \in Request /\ StageOK(w, r) /\ SubjectOK(r) /\ r.pc = "rest"
  BY RequestFit DEF EraseRows
<1>2. Commit(r) /\ Objects(w, r) /\ UNCHANGED <<firebase, stale, cache, urls, objects, crossed, lost>>
  BY DEF EraseRows, Is, tokens, bucket
<1>3. PICK q : ErasedNext(r, q) /\ Become(w, q)
  BY <1>1, <1>2, ObjectsGive DEF Erasing, Moving, Emptying
<1>4. StageOK(Sweeper, r) \/ r.op # "sweep"
  BY <1>1 DEF StageOK
<1> HIDE DEF r
<1>5. Kept(r, q)
  BY <1>1, <1>3, <1>4, ErasedNextKept
<1> QED BY <1>2, <1>3, <1>5 DEF r

LEMMA EraseObjectGives ==
  ASSUME FitInv, NEW w \in Workers, EraseObject(w)
  PROVE  LET r == worker[w] IN
         /\ r.pc = "objects"
         /\ UNCHANGED <<firebase, stale, users, cache, lastSeq, files, urls, crossed, lost, seenAs>>
         /\ \E k \in r.doomed : \E q, s :
              /\ s \in Request /\ s.pc = "objects" /\ s.op = r.op /\ s.uid = r.uid /\ s.id = r.id
              /\ s.victim = r.victim /\ s.from = r.from /\ s.listed = r.listed
              /\ s.doomed = r.doomed \ {k} /\ SubjectOK(s)
              /\ objects' \in {objects, objects \ {k}}
              /\ ErasedNext(s, q) /\ Become(w, q) /\ Kept(r, q)
<1> DEFINE r == worker[w]
<1>1. r \in Request /\ StageOK(w, r) /\ SubjectOK(r) /\ r.pc = "objects"
  BY RequestFit DEF EraseObject
<1>2. UNCHANGED <<firebase, stale, users, cache, lastSeq, files, urls, crossed, lost, seenAs>>
  BY DEF EraseObject, tokens, tables
<1>3. PICK k \in r.doomed : /\ Objects(w, [r EXCEPT !.doomed = @ \ {k}])
                           /\ objects' \in {objects, objects \ {k}}
  BY DEF EraseObject
<1> DEFINE s == [r EXCEPT !.doomed = @ \ {k}]
<1>4. /\ s \in Request /\ s.pc = "objects" /\ s.op = r.op /\ s.uid = r.uid /\ s.id = r.id
      /\ s.anonymous = r.anonymous /\ s.file = r.file /\ s.key = r.key
      /\ s.victim = r.victim /\ s.from = r.from /\ s.listed = r.listed
      /\ s.doomed = r.doomed \ {k}
  BY <1>1 DEF Request
<1>5. StageOK(w, s)
  BY <1>1, <1>4 DEF StageOK, Erasing, Moving, Emptying, Operations
<1>6. SubjectOK(s)
  BY <1>1, <1>4 DEF SubjectOK, Acting
<1>7. Objects(w, s)
  BY <1>3
<1> HIDE DEF s, r
<1>8. PICK q : ErasedNext(s, q) /\ Become(w, q)
  BY <1>4, <1>5, <1>7, ObjectsGive DEF Erasing, Moving, Emptying
<1>9. StageOK(Sweeper, s) \/ s.op # "sweep"
  BY <1>5 DEF StageOK
<1>10. Kept(s, q)
  BY <1>4, <1>6, <1>8, <1>9, ErasedNextKept
<1>11. Kept(r, q)
  BY <1>1, <1>4, <1>10 DEF Kept, Goes, Narrows, Acting
<1> QED BY <1>1, <1>2, <1>3, <1>4, <1>6, <1>8, <1>11 DEF r

LEMMA EraseGuests ==
  ASSUME GuestInv, NEW w \in Workers, EraseStep(w)
  PROVE  GuestsFit'
<1> DEFINE r == worker[w]
<1>1. FitInv /\ r \in Request /\ StageOK(w, r) /\ SubjectOK(r) /\ RowsFit /\ MarksFit
  BY RequestFit, FitParts DEF GuestInv
<1>2. ASSUME NEW pc \in {"forget", "keys"}, Goto(w, pc), r.pc \in Erasing
      PROVE  \A v \in Workers : Kept(worker[v], worker'[v])
  <2> DEFINE q == [r EXCEPT !.pc = pc]
  <2>1. Kept(r, q)
    BY <1>1, <1>2 DEF Kept, Goes, Narrows, Acting, Request, Erasing, Moving, Emptying
  <2>2. Become(w, q)
    BY <1>2 DEF Goto
  <2> HIDE DEF q
  <2> QED BY <1>1, <2>1, <2>2, OthersKept
<1>3. ASSUME Finish(w)
      PROVE  \A v \in Workers : Kept(worker[v], worker'[v])
  BY <1>1, <1>3, FinishKept, OthersKept DEF Finish
<1>4. ASSUME FirebaseDelete(w)
      PROVE  GuestsFit'
  <2>1. /\ r.pc = "firebase" /\ (Goto(w, "forget") \/ Finish(w))
        /\ UNCHANGED <<users, cache, seenAs>>
        /\ \/ UNCHANGED <<firebase, stale>>
           \/ /\ firebase' = [firebase EXCEPT ![r.victim] = "gone"]
              /\ stale' = stale \union {Token(r.victim)}
    BY <1>4 DEF FirebaseDelete, tables, tokens
  <2>2. \A v \in Workers : Kept(worker[v], worker'[v])
    BY <1>2, <1>3, <2>1 DEF Erasing, Moving, Emptying
  <2>3. \A u \in Uids : firebase'[u] = "guest" =>
           firebase[u] = "guest" /\ (<<u, FALSE>> \in stale' => <<u, FALSE>> \in stale)
    <3>1. CASE UNCHANGED <<firebase, stale>>
      BY <3>1
    <3>2. CASE /\ firebase' = [firebase EXCEPT ![r.victim] = "gone"]
               /\ stale' = stale \union {Token(r.victim)}
      <4>1. \A u \in Uids : firebase'[u] = "guest" => u # r.victim /\ firebase[u] = "guest"
        BY <1>1, <3>2 DEF MarksFit
      <4>2. \A u \in Uids : u # r.victim => <<u, FALSE>> # Token(r.victim)
        BY DEF Token
      <4> QED BY <3>2, <4>1, <4>2
    <3> QED BY <2>1, <3>1, <3>2
  <2> QED BY <2>1, <2>2, <2>3, GuestsStay
<1>5. ASSUME Forget(w)
      PROVE  GuestsFit'
  <2>1. /\ r.pc = "forget" /\ (Goto(w, "keys") \/ Finish(w))
        /\ UNCHANGED <<firebase, stale, users, seenAs>>
        /\ cache' = cache \/ cache' = [cache EXCEPT ![r.victim] = None]
    BY <1>5 DEF Forget, tables, tokens
  <2>2. \A v \in Workers : Kept(worker[v], worker'[v])
    BY <1>2, <1>3, <2>1 DEF Erasing, Moving, Emptying
  <2>3. \A u \in Uids : cache'[u] = cache[u] \/ cache'[u] = None
    BY <1>1, <2>1 DEF RowsFit
  <2> QED BY <2>1, <2>2, <2>3, GuestsStay
<1>6. ASSUME EraseKeys(w)
      PROVE  GuestsFit'
  <2>1. /\ r.pc \in {"keys", "photos", "memos"}
        /\ \E pc \in {"photos", "memos", "erase"}, table \in {Attachments, VoiceNotes} : Doom(w, pc, table)
        /\ UNCHANGED <<firebase, stale, users, cache, seenAs>>
    BY <1>6 DEF EraseKeys, tables, tokens
  <2>2. PICK pc \in {"photos", "memos", "erase"}, table \in {Attachments, VoiceNotes} : Doom(w, pc, table)
    BY <2>1
  <2> DEFINE q == [r EXCEPT !.pc = pc, !.doomed = @ \union DoomedKeys(r.from, table)]
  <2>3. Become(w, q)
    BY <2>2 DEF Doom
  <2>4. Kept(r, q)
    BY <1>1, <2>1 DEF Kept, Goes, Narrows, Acting, Request
  <2> HIDE DEF q
  <2> QED BY <2>1, <2>3, <2>4, QuietGuests
<1>9. ASSUME EraseFirst(w)
      PROVE  GuestsFit'
  <2> DEFINE q == [r EXCEPT !.pc = "rest", !.rows = Erased(r.from) \intersect VoiceNotes]
  <2>1. /\ Become(w, q) /\ r.pc = "erase" /\ UNCHANGED <<firebase, stale, users, cache, seenAs>>
    BY <1>9 DEF EraseFirst, tables, tokens
  <2>2. Kept(r, q)
    BY <1>1, <2>1 DEF Kept, Goes, Narrows, Acting, Request
  <2> HIDE DEF q
  <2> QED BY <2>1, <2>2, QuietGuests
<1>7. ASSUME EraseRows(w)
      PROVE  GuestsFit'
  <2>1. CASE Is(r.victim, r.from)
    <3>1. /\ Commit(r) /\ UNCHANGED <<firebase, stale, cache>>
          /\ \E q : Become(w, q) /\ Kept(r, q)
      BY <1>1, <1>7, <2>1, EraseRowsGives
    <3>2. \A v \in Workers : Kept(worker[v], worker'[v])
      BY <1>1, <3>1, OthersKept
    <3>3. \A u \in Uids :
            /\ users'[u] = users[u] \/ users'[u] = None
            /\ seenAs'[u] = seenAs[u] \/ (seenAs'[u] = {} /\ users'[u] = None)
      BY <1>1, <3>1 DEF Commit, RowsFit, MarksFit
    <3> QED BY <3>1, <3>2, <3>3, GuestsStay
  <2>2. CASE ~Is(r.victim, r.from)
    <3>1. Finish(w) /\ UNCHANGED <<firebase, stale, users, cache, seenAs>>
      BY <1>7, <2>2 DEF EraseRows, Is, tables, tokens
    <3> QED BY <3>1, FinishKept, QuietGuests DEF Finish
  <2> QED BY <2>1, <2>2
<1>8. ASSUME EraseObject(w)
      PROVE  GuestsFit'
  BY <1>1, <1>8, EraseObjectGives, QuietGuests
<1> QED BY <1>4, <1>5, <1>6, <1>7, <1>8, <1>9 DEF EraseStep

LEMMA TargetGuests ==
  ASSUME GuestInv, NEW w \in Workers, DeleteBegin(w) \/ Adopt(w)
  PROVE  GuestsFit'
<1> DEFINE r == worker[w]
           Goal == \E q : Become(w, q) /\ Kept(r, q)
<1>1. r \in Request
  BY RequestFit DEF GuestInv
<1>2. UNCHANGED <<firebase, stale, users, cache, seenAs>>
  BY DEF DeleteBegin, Adopt, AdoptBegin, AdoptList, AdoptMore, AdoptMove, tokens, tables
<1>3. r.pc \in {"begin", "list", "more", "move"} /\ r.op # "sweep"
  BY DEF DeleteBegin, Adopt, AdoptBegin, AdoptList, AdoptMore, AdoptMove, At
<1>4. ASSUME NEW q, Become(w, q), q.op = r.op, q.uid = r.uid,
          q.anonymous = r.anonymous, q.pc # "remember"
      PROVE  Goal
  <2>1. Kept(r, q)
    BY <1>1, <1>3, <1>4 DEF Kept, Goes, Narrows, Acting, Request
  <2> QED BY <1>4, <2>1
<1>5. Finish(w) => Goal
  BY FinishKept DEF Finish
<1> HIDE DEF Goal
<1>6. ASSUME DeleteBegin(w)
      PROVE  Goal
  <2> DEFINE q == [r EXCEPT !.pc = "firebase", !.victim = r.uid, !.from = r.id]
  <2>1. q.op = r.op /\ q.uid = r.uid /\ q.anonymous = r.anonymous /\ q.pc # "remember"
    BY <1>1 DEF Request
  <2>2. Become(w, q) \/ Finish(w)
    BY <1>6 DEF DeleteBegin
  <2> HIDE DEF q
  <2> QED BY <1>4, <1>5, <2>1, <2>2
<1>7. ASSUME AdoptBegin(w)
      PROVE  Goal
  <2>1. ASSUME NEW u, Become(w, [r EXCEPT !.pc = "firebase", !.victim = u])
        PROVE  Goal
    <3> DEFINE q == [r EXCEPT !.pc = "firebase", !.victim = u]
    <3>1. q.op = r.op /\ q.uid = r.uid /\ q.anonymous = r.anonymous /\ q.pc # "remember"
      BY <1>1 DEF Request
    <3>2. Become(w, q)
      BY <2>1
    <3> HIDE DEF q
    <3> QED BY <1>4, <3>1, <3>2
  <2>2. ASSUME NEW u, Become(w, [r EXCEPT !.pc = "list", !.victim = u, !.from = users[u].id])
        PROVE  Goal
    <3> DEFINE q == [r EXCEPT !.pc = "list", !.victim = u, !.from = users[u].id]
    <3>1. q.op = r.op /\ q.uid = r.uid /\ q.anonymous = r.anonymous /\ q.pc # "remember"
      BY <1>1 DEF Request
    <3>2. Become(w, q)
      BY <2>2
    <3> HIDE DEF q
    <3> QED BY <1>4, <3>1, <3>2
  <2> QED BY <1>5, <1>7, <2>1, <2>2 DEF AdoptBegin
<1>8. ASSUME AdoptList(w) \/ AdoptMore(w)
      PROVE  Goal
  <2>1. \E pc \in {"more", "move"} : \E rows : Become(w, [r EXCEPT !.pc = pc, !.moved = rows])
    BY <1>8 DEF AdoptList, AdoptMore
  <2>4. PICK pc \in {"more", "move"} : \E rows : Become(w, [r EXCEPT !.pc = pc, !.moved = rows])
    BY <2>1
  <2>5. PICK rows : Become(w, [r EXCEPT !.pc = pc, !.moved = rows])
    BY <2>4
  <2> DEFINE q == [r EXCEPT !.pc = pc, !.moved = rows]
  <2>2. q.op = r.op /\ q.uid = r.uid /\ q.anonymous = r.anonymous /\ q.pc # "remember"
    BY <1>1 DEF Request
  <2>3. Become(w, q)
    BY <2>5
  <2> HIDE DEF q
  <2> QED BY <1>4, <2>2, <2>3
<1>9. ASSUME AdoptMove(w)
      PROVE  Goal
  <2> DEFINE q == [r EXCEPT !.pc = "keys", !.moved = <<>>]
  <2>1. q.op = r.op /\ q.uid = r.uid /\ q.anonymous = r.anonymous /\ q.pc # "remember"
    BY <1>1 DEF Request
  <2>2. Become(w, q) \/ Finish(w)
    BY <1>9 DEF AdoptMove
  <2> HIDE DEF q
  <2> QED BY <1>4, <1>5, <2>1, <2>2
<1>10. Goal
  BY <1>6, <1>7, <1>8, <1>9 DEF Adopt
<1> QED BY <1>2, <1>10, QuietGuests DEF Goal

LEMMA SweepListGives ==
  ASSUME FitInv, SweepList
  PROVE  LET L == {[uid |-> u, id |-> users[u].id] : u \in {v \in Uids : Abandoned(v)}} IN
         /\ L \in SUBSET Listed /\ \A d \in L : Known(d.id)
         /\ worker[Sweeper] = Idle
         /\ UNCHANGED <<firebase, stale, users, cache, lastSeq, files, urls, objects, crossed, lost>>
         /\ seenAs' = [u \in Uids |-> seenAs[u] \ {"back"}]
         /\ \E q : SweptNext(L, q) /\ Become(Sweeper, q)
<1> DEFINE L == {[uid |-> u, id |-> users[u].id] : u \in {v \in Uids : Abandoned(v)}}
<1>1. RowsFit
  BY FitParts
<1>2. SweepOn(L) /\ worker[Sweeper] = Idle
      /\ UNCHANGED <<firebase, stale, users, cache, lastSeq, files, urls, objects, crossed, lost>>
      /\ seenAs' = [u \in Uids |-> seenAs[u] \ {"back"}]
  BY DEF SweepList, tables, bucket, tokens
<1>3. L \in SUBSET Listed /\ \A d \in L : Known(d.id)
  BY <1>1 DEF RowsFit, Abandoned, Listed, User
<1>4. \E q : SweptNext(L, q) /\ Become(Sweeper, q)
  <2> HIDE DEF L
  <2> QED BY <1>2, SweepOnGives
<1> QED BY <1>2, <1>3, <1>4

LEMMA SweepGuests ==
  ASSUME GuestInv, SweepList
  PROVE  GuestsFit'
<1>1. FitInv /\ Sweeper \in Workers
  BY UidsOK DEF GuestInv
<1> DEFINE L == {[uid |-> u, id |-> users[u].id] : u \in {v \in Uids : Abandoned(v)}}
<1>2. PICK q :
        /\ L \in SUBSET Listed
        /\ \A d \in L : Known(d.id)
        /\ SweptNext(L, q) /\ Become(Sweeper, q)
        /\ UNCHANGED <<firebase, stale, users, cache>>
        /\ seenAs' = [u \in Uids |-> seenAs[u] \ {"back"}]
  BY <1>1, SweepListGives
<1>3. \A d \in L : d.uid \in Uids /\ Stands(d.uid, d.id)
  BY DEF Abandoned, Stands, Is, Unseen
<1> HIDE DEF L
<1>4. worker'[Sweeper] = q /\ \A v \in Workers : v # Sweeper => worker'[v] = worker[v]
  BY <1>1, <1>2, Becomes, FitParts DEF WorkersFit
<1>5. \A v \in Workers : Goes(worker[v], worker'[v])
  BY <1>2, <1>4, SweptNextFits DEF Goes
<1>6. \A u \in Uids : GuestOK(u)'
  BY <1>2, <1>5, EachGuest
<1>7. ListOK'
  <2>1. q.op = "sweep" => /\ \E d \in L : q.victim = d.uid /\ q.from = d.id
                          /\ q.listed \subseteq L
    BY <1>2, IdleOK DEF SweptNext, Idle
  <2>2. \A d \in L : SweptOK(d.uid, d.id)'
    BY <1>2, <1>3 DEF SweptOK, Stands, Is, Unseen
  <2> QED BY <1>4, <2>1, <2>2 DEF ListOK, SweptOK, Stands, Is, Unseen
<1> QED BY <1>6, <1>7 DEF GuestsFit, ListOK, GuestOK, SweptOK, Stands, Is, Unseen, Acting

LEMMA CrashGuests ==
  ASSUME GuestInv, Restart \/ \E w \in Workers : Fail(w)
  PROVE  GuestsFit'
<1>1. FitInv /\ RowsFit /\ MarksFit /\ WorkersFit
  BY FitParts DEF GuestInv
<1>2. ASSUME NEW r PROVE Kept(r, r) /\ Kept(r, Idle)
  BY FinishKept, KeptSame
<1>3. CASE Restart
  <2>1. UNCHANGED <<firebase, stale, users, seenAs>>
    BY <1>3 DEF Restart, tables, tokens
  <2>2. \A w \in Workers : worker'[w] = worker[w] \/ worker'[w] = Idle
    BY <1>1, <1>3 DEF Restart, WorkersFit
  <2>3. \A u \in Uids : cache'[u] = cache[u] \/ cache'[u] = None
    BY <1>3 DEF Restart
  <2>4. \A w \in Workers : Kept(worker[w], worker'[w])
    BY <1>2, <2>2
  <2> QED BY <2>1, <2>3, <2>4, GuestsStay
<1>4. ASSUME NEW w \in Workers, Finish(w), UNCHANGED <<firebase, stale, users, cache, seenAs>>
      PROVE  GuestsFit'
  BY <1>4, FinishKept, QuietGuests DEF Finish
<1>5. ASSUME NEW w \in Workers, EraseUnheard(w)
      PROVE  GuestsFit'
  <2>1. /\ Commit(worker[w]) /\ UNCHANGED <<firebase, stale, cache>>
        /\ worker' = [worker EXCEPT ![w] = Idle]
    BY <1>5 DEF EraseUnheard, tokens, Finish, Become
  <2>2. \A v \in Workers : worker'[v] = worker[v] \/ worker'[v] = Idle
    BY <1>1, <2>1 DEF WorkersFit
  <2>3. \A v \in Workers : Kept(worker[v], worker'[v])
    BY <1>2, <2>2
  <2>4. \A u \in Uids :
          /\ users'[u] = users[u] \/ users'[u] = None
          /\ seenAs'[u] = seenAs[u] \/ (seenAs'[u] = {} /\ users'[u] = None)
    BY <1>1, <2>1 DEF Commit, RowsFit, MarksFit
  <2> QED BY <2>1, <2>3, <2>4, GuestsStay
<1>6. ASSUME NEW w \in Workers, Fail(w)
      PROVE  GuestsFit'
  BY <1>4, <1>5, <1>6 DEF Fail, tables, tokens
<1> QED BY <1>3, <1>6

LEMMA AroundGuests ==
  ASSUME GuestInv, Around
  PROVE  GuestsFit'
<1>1. FitInv /\ RowsFit /\ MarksFit /\ WorkersFit
  BY FitParts DEF GuestInv
<1>2. ASSUME UNCHANGED worker
      PROVE  \A w \in Workers : Kept(worker[w], worker'[w])
  BY <1>2, KeptSame
<1>3. ASSUME NEW v \in Uids, Link(v)
      PROVE  GuestsFit'
  <2>1. /\ UNCHANGED <<users, cache, worker, seenAs>> /\ firebase[v] = "guest"
        /\ firebase' = [firebase EXCEPT ![v] = "linked"]
        /\ stale' = stale \union {<<v, TRUE>>}
    BY <1>3 DEF Link, Token, tables
  <2>2. \A u \in Uids : firebase'[u] = "guest" =>
           firebase[u] = "guest" /\ (<<u, FALSE>> \in stale' => <<u, FALSE>> \in stale)
    BY <1>1, <2>1 DEF MarksFit
  <2> QED BY <1>2, <2>1, <2>2, GuestsStay
<1>4. ASSUME NEW v \in Uids, Month(v)
      PROVE  GuestsFit'
  <2>1. ASSUME NEW u \in Uids
        PROVE  /\ GuestOK(u) /\ u # 0 /\ cache'[u] = None /\ stale' = {}
               /\ UNCHANGED <<firebase, worker, seenAs>>
               /\ \A w \in Workers : worker[w].uid = 0
    BY <1>4, UidsOK, IdleOK DEF Month, GuestInv
  <2>2. ASSUME NEW u \in Uids
        PROVE  users'[u] # None => users[u] # None /\ users'[u].anonymous = users[u].anonymous
    <3>1. users' = [users EXCEPT ![v].seen = FALSE] /\ users[v] # None /\ users[v] \in User
      BY <1>1, <1>4 DEF Month, RowsFit
    <3>2. [users[v] EXCEPT !.seen = FALSE].anonymous = users[v].anonymous
      BY <3>1 DEF User
    <3> QED BY <1>1, <3>1, <3>2 DEF RowsFit
  <2>3. ASSUME NEW u \in Uids
        PROVE  GuestOK(u)'
    <3>1. /\ GuestOK(u) /\ u # 0 /\ cache'[u] = None /\ stale' = {}
          /\ UNCHANGED <<firebase, worker, seenAs>>
          /\ \A w \in Workers : worker[w].uid = 0
      BY <2>1
    <3>2. users'[u] # None => users[u] # None /\ users'[u].anonymous = users[u].anonymous
      BY <2>2
    <3> QED BY <3>1, <3>2 DEF GuestOK, Acting
  <2>4. worker'[Sweeper] = Idle
    BY <1>1, <1>4, UidsOK DEF Month
  <2> QED BY <2>3, <2>4, IdleOK DEF GuestsFit, ListOK, GuestOK, SweptOK, Stands, Is, Unseen, Acting
<1>5. ASSUME NEW k, Put(k)
      PROVE  GuestsFit'
  BY <1>2, <1>5, GuestsStay DEF Put, tables, tokens
<1> QED BY <1>3, <1>4, <1>5 DEF Around

LEMMA EnterGuests ==
  ASSUME GuestInv, NEW w \in Handlers, NEW op \in Operations, Enter(w, op)
  PROVE  GuestsFit'
<1>1. FitInv /\ RowsFit /\ MarksFit /\ WorkersFit /\ w \in Workers
  BY FitParts, UidsOK DEF GuestInv
<1>2. PICK u \in Uids, anonymous \in BOOLEAN :
        LET r == [Idle EXCEPT !.op = op, !.uid = u, !.anonymous = anonymous] IN
        /\ worker[w] = Idle /\ Verifies(<<u, anonymous>>)
        /\ \/ /\ Cached(u, anonymous)
              /\ Become(w, [r EXCEPT !.pc = "begin", !.id = cache[u].id])
              /\ Seen(u, anonymous, {})
           \/ Become(w, [r EXCEPT !.pc = "upsert"]) /\ UNCHANGED seenAs
        /\ UNCHANGED <<firebase, stale, users, cache>>
  BY DEF Enter, tokens, tables
<1>3. PICK q : /\ Become(w, q) /\ q.uid = u /\ q.anonymous = anonymous
               /\ \/ Cached(u, anonymous) /\ q.pc = "begin" /\ Seen(u, anonymous, {})
                  \/ q.pc = "upsert" /\ UNCHANGED seenAs
  <2> DEFINE r == [Idle EXCEPT !.op = op, !.uid = u, !.anonymous = anonymous]
  <2>1. /\ [r EXCEPT !.pc = "begin", !.id = cache[u].id].uid = u
        /\ [r EXCEPT !.pc = "begin", !.id = cache[u].id].anonymous = anonymous
        /\ [r EXCEPT !.pc = "begin", !.id = cache[u].id].pc = "begin"
        /\ [r EXCEPT !.pc = "upsert"].uid = u
        /\ [r EXCEPT !.pc = "upsert"].anonymous = anonymous
        /\ [r EXCEPT !.pc = "upsert"].pc = "upsert"
    BY DEF Idle
  <2> HIDE DEF r
  <2>2. \/ /\ Cached(u, anonymous) /\ Seen(u, anonymous, {})
           /\ Become(w, [r EXCEPT !.pc = "begin", !.id = cache[u].id])
        \/ Become(w, [r EXCEPT !.pc = "upsert"]) /\ UNCHANGED seenAs
    BY <1>2 DEF r
  <2> QED BY <2>1, <2>2
<1>4. worker'[w] = q /\ \A v \in Workers : v # w => worker'[v] = worker[v]
  BY <1>1, <1>3, Becomes DEF WorkersFit
<1>5. firebase[u] = "guest" => anonymous = TRUE
  BY <1>2 DEF Verifies, Token, GuestInv, GuestOK
<1>6. GuestOK(u)'
  <2>1. GuestOK(u) /\ seenAs[u] \in SUBSET {"linked", "late", "back"} /\ u \in DOMAIN seenAs
    BY <1>1 DEF GuestInv, MarksFit
  <2>2. seenAs'[u] = seenAs[u] \/ (~anonymous /\ seenAs'[u] = seenAs[u] \union {"linked"})
          \/ (firebase[u] # "guest" /\ "late" \in seenAs'[u])
    BY <1>3, <2>1 DEF Seen, Served
  <2>3. firebase'[u] = "guest" =>
         /\ "linked" \notin seenAs'[u] /\ <<u, FALSE>> \notin stale'
         /\ cache'[u] # None => cache'[u].anonymous
         /\ \A v \in Workers : worker'[v].uid = u => worker'[v].anonymous
    BY <1>2, <1>3, <1>4, <1>5, <2>1, <2>2 DEF GuestOK
  <2>4. users'[u] # None /\ users'[u].anonymous /\ "late" \notin seenAs'[u] =>
         /\ "linked" \notin seenAs'[u]
         /\ cache'[u] # None => cache'[u].anonymous
         /\ \A v \in Workers :
              worker'[v].uid = u /\ worker'[v].pc = "remember" => worker'[v].anonymous
    <3> SUFFICES ASSUME users[u] # None, users[u].anonymous, "late" \notin seenAs'[u]
                 PROVE  /\ "linked" \notin seenAs'[u]
                        /\ cache[u] # None => cache[u].anonymous
                        /\ \A v \in Workers :
                             worker'[v].uid = u /\ worker'[v].pc = "remember" => worker'[v].anonymous
      BY <1>2
    <3>1. "late" \notin seenAs[u]
      BY <1>3, <2>1 DEF Seen
    <3>2. /\ "linked" \notin seenAs[u]
          /\ cache[u] # None => cache[u].anonymous
          /\ \A v \in Workers :
               worker[v].uid = u /\ worker[v].pc = "remember" => worker[v].anonymous
      BY <2>1, <3>1 DEF GuestOK
    <3>3. seenAs'[u] = seenAs[u]
      BY <1>3, <2>1, <2>2, <3>2 DEF Cached
    <3> QED BY <1>3, <1>4, <3>2, <3>3
  <2>5. users'[u] # None /\ ~users'[u].seen =>
         cache'[u] = None /\ \A v \in Workers : worker'[v].uid = u => ~Acting(worker'[v])
    BY <1>2, <1>3, <1>4, <2>1 DEF GuestOK, Cached, Acting
  <2> QED BY <2>3, <2>4, <2>5 DEF GuestOK, Acting
<1>7. ASSUME NEW v \in Uids, v # u
      PROVE  GuestOK(v)'
  <2>1. GuestOK(v) /\ seenAs'[v] = seenAs[v]
    BY <1>1, <1>3, <1>7 DEF GuestInv, Seen, MarksFit
  <2>2. \A x \in Workers : worker'[x].uid = v => worker'[x] = worker[x]
    BY <1>3, <1>4, <1>7
  <2> QED BY <1>2, <2>1, <2>2 DEF GuestOK, Acting
<1>8. ListOK'
  <2>1. worker'[Sweeper] = worker[Sweeper]
    BY <1>4, UidsOK
  <2>2. Narrows(worker[Sweeper], worker'[Sweeper])
    BY <2>1, KeptSame DEF Kept
  <2>3. \A v \in Uids : users'[v] = users[v] /\ seenAs[v] \subseteq seenAs'[v]
    BY <1>1, <1>2, <1>3 DEF Seen, MarksFit
  <2>4. \A v \in Uids, id \in DOMAIN lastSeq : SweptOK(v, id) => SweptOK(v, id)'
    BY <2>3 DEF SweptOK, Stands, Is, Unseen
  <2> QED BY <2>2, <2>4, ListStays
<1>9. \A v \in Uids : GuestOK(v)'
  BY <1>6, <1>7
<1> QED BY <1>8, <1>9 DEF GuestsFit, ListOK, GuestOK, SweptOK, Stands, Is, Unseen, Acting

LEMMA ResolveGuests ==
  ASSUME GuestInv, NEW w \in Workers, resolvePrincipal(w)
  PROVE  GuestsFit'
<1> DEFINE r == worker[w]
<1>1. /\ FitInv /\ RowsFit /\ MarksFit /\ r \in Request /\ StageOK(w, r) /\ SubjectOK(r)
      /\ worker \in [Workers -> Request]
  BY FitParts, RequestFit DEF GuestInv, WorkersFit
<1>2. CASE Upsert(w)
  <2> DEFINE id == IF users[r.uid] = None THEN Len(lastSeq) + 1 ELSE users[r.uid].id
             q == [r EXCEPT !.pc = "remember", !.id = id]
  <2>1. /\ r.uid \in Uids
        /\ users'[r.uid].anonymous = r.anonymous /\ users'[r.uid].seen = TRUE
        /\ \A u \in Uids : u # r.uid => users'[u] = users[u]
    <3>1. /\ r.uid \in Uids
          /\ users'[r.uid] = [id |-> id, anonymous |-> r.anonymous, seen |-> TRUE]
          /\ \A u \in Uids : u # r.uid => users'[u] = users[u]
      BY <1>1, <1>2, UpsertRows
    <3> HIDE DEF id, q
    <3> QED BY <3>1
  <2>2. Become(w, q) /\ Seen(r.uid, r.anonymous, IF SweepHas(r.uid) THEN {"back"} ELSE {}) /\ UNCHANGED <<firebase, stale, cache>>
    BY <1>2 DEF Upsert, tokens
  <2>3. q.uid = r.uid /\ q.anonymous = r.anonymous /\ q.pc = "remember"
    BY <1>1 DEF Request
  <2> HIDE DEF q
  <2>4. worker'[w] = q /\ \A v \in Workers : v # w => worker'[v] = worker[v]
    BY <1>1, <2>2, Becomes
  <2>8. ListOK'
    <3>1. worker'[Sweeper] = worker[Sweeper] /\ r.uid \in Uids
      <4>1. w # Sweeper
        BY <1>1, <1>2, UidsOK, IdleOK DEF Upsert, StageOK, Request, Erasing, Emptying
      <4> QED BY <2>1, <2>4, <4>1, UidsOK
    <3>2. Narrows(worker[Sweeper], worker'[Sweeper])
      BY <3>1, KeptSame DEF Kept
    <3>3. \A u \in Uids \ {r.uid} : users'[u] = users[u] /\ seenAs'[u] = seenAs[u]
      BY <1>1, <2>1, <2>2 DEF Seen, MarksFit
    <3>4. SweepHas(r.uid) => "back" \in seenAs'[r.uid]
      BY <1>1, <2>2, <3>1 DEF Seen, MarksFit
    <3>5. \A u \in Uids, i \in DOMAIN lastSeq : SweepHas(u) /\ SweptOK(u, i) => SweptOK(u, i)'
      BY <3>3, <3>4 DEF SweptOK, Stands, Is, Unseen
    <3> QED BY <3>2, <3>5, ListStays
  <2> SUFFICES ASSUME NEW u \in Uids PROVE GuestOK(u)'
    BY <2>8 DEF GuestsFit, ListOK, GuestOK, SweptOK, Stands, Is, Unseen, Acting
  <2>5. GuestOK(u) /\ seenAs[u] \in SUBSET {"linked", "late", "back"} /\ u \in DOMAIN seenAs
    BY <1>1 DEF GuestInv, MarksFit
  <2>6. CASE u = r.uid
    <3>1. u # 0 /\ users'[u].anonymous = r.anonymous /\ users'[u].seen = TRUE
      BY <2>1, <2>6, UidsOK
    <3>2. firebase[u] = "guest" => r.anonymous /\ ("linked" \in seenAs'[u] => "linked" \in seenAs[u])
      BY <2>2, <2>5, <2>6 DEF GuestOK, Seen, Served
    <3>3. r.anonymous /\ "late" \notin seenAs'[u] => firebase[u] = "guest"
      BY <2>2, <2>5, <2>6 DEF Seen, Served
    <3>4. firebase'[u] = "guest" =>
           /\ "linked" \notin seenAs'[u] /\ <<u, FALSE>> \notin stale'
           /\ cache'[u] # None => cache'[u].anonymous
           /\ \A v \in Workers : worker'[v].uid = u => worker'[v].anonymous
      BY <2>2, <2>3, <2>4, <2>5, <2>6, <3>2 DEF GuestOK
    <3>5. users'[u].anonymous /\ "late" \notin seenAs'[u] =>
           /\ "linked" \notin seenAs'[u]
           /\ cache'[u] # None => cache'[u].anonymous
           /\ \A v \in Workers :
                worker'[v].uid = u /\ worker'[v].pc = "remember" => worker'[v].anonymous
      BY <2>2, <3>1, <3>3, <3>4
    <3> QED BY <3>1, <3>4, <3>5 DEF GuestOK, Acting
  <2>7. CASE u # r.uid
    <3>1. seenAs'[u] = seenAs[u]
      BY <2>2, <2>5, <2>7 DEF Seen
    <3>2. \A v \in Workers : worker'[v].uid = u => worker'[v] = worker[v]
      BY <2>3, <2>4, <2>7
    <3>3. users'[u] = users[u] /\ UNCHANGED <<firebase, stale, cache>>
      BY <2>1, <2>2, <2>7
    <3> QED BY <2>5, <3>1, <3>2, <3>3 DEF GuestOK, Acting
  <2> QED BY <2>6, <2>7
<1>3. CASE Remember(w)
  <2> DEFINE q == [r EXCEPT !.pc = "begin"]
             p == [id |-> r.id, anonymous |-> r.anonymous]
  <2>1. /\ r.pc = "remember" /\ Become(w, q) /\ cache' = [cache EXCEPT ![r.uid] = p]
        /\ UNCHANGED <<firebase, stale, users, seenAs>>
    BY <1>3 DEF Remember, Goto, tokens, tables
  <2>2. q.uid = r.uid /\ q.anonymous = r.anonymous /\ q.pc = "begin" /\ q.op = r.op
    BY <1>1 DEF Request
  <2>3. p.anonymous = r.anonymous
    OBVIOUS
  <2> HIDE DEF q, p
  <2>4. worker'[w] = q /\ \A v \in Workers : v # w => worker'[v] = worker[v]
    BY <1>1, <2>1, Becomes
  <2>5. Acting(r)
    BY <1>1, <2>1, IdleOK DEF Acting, StageOK, Request, Erasing, Moving, Emptying
  <2>11. ListOK'
    <3>1. worker'[Sweeper] = worker[Sweeper]
      BY <1>1, <2>1, <2>4, UidsOK, IdleOK DEF StageOK, Request, Erasing, Emptying
    <3>2. Narrows(worker[Sweeper], worker'[Sweeper])
      BY <3>1, KeptSame DEF Kept
    <3>3. \A v \in Uids, id \in DOMAIN lastSeq : SweptOK(v, id) => SweptOK(v, id)'
      BY <2>1 DEF SweptOK, Stands, Is, Unseen
    <3> QED BY <3>2, <3>3, ListStays
  <2> SUFFICES ASSUME NEW u \in Uids PROVE GuestOK(u)'
    BY <2>11 DEF GuestsFit, ListOK, GuestOK, SweptOK, Stands, Is, Unseen, Acting
  <2>6. GuestOK(u) /\ cache'[u] = IF u = r.uid THEN p ELSE cache[u]
    BY <1>1, <2>1 DEF GuestInv, RowsFit
  <2>7. firebase'[u] = "guest" =>
         /\ "linked" \notin seenAs'[u] /\ <<u, FALSE>> \notin stale'
         /\ cache'[u] # None => cache'[u].anonymous
         /\ \A v \in Workers : worker'[v].uid = u => worker'[v].anonymous
    BY <2>1, <2>2, <2>3, <2>4, <2>6 DEF GuestOK
  <2>8. users'[u] # None /\ users'[u].anonymous /\ "late" \notin seenAs'[u] =>
         /\ "linked" \notin seenAs'[u]
         /\ cache'[u] # None => cache'[u].anonymous
         /\ \A v \in Workers :
              worker'[v].uid = u /\ worker'[v].pc = "remember" => worker'[v].anonymous
    BY <2>1, <2>2, <2>3, <2>4, <2>6 DEF GuestOK
  <2>9. users'[u] # None /\ ~users'[u].seen => u # r.uid
    BY <2>1, <2>5, <2>6 DEF GuestOK
  <2>10. users'[u] # None /\ ~users'[u].seen =>
          cache'[u] = None /\ \A v \in Workers : worker'[v].uid = u => ~Acting(worker'[v])
    BY <2>1, <2>2, <2>4, <2>6, <2>9 DEF GuestOK
  <2> QED BY <2>7, <2>8, <2>10 DEF GuestOK, Acting
<1> QED BY <1>2, <1>3 DEF resolvePrincipal

LEMMA InitGuests ==
  ASSUME StateInit
  PROVE  GuestInv
<1>0. ListOK
  BY UidsOK, IdleOK DEF StateInit, ListOK
<1> SUFFICES ASSUME NEW u \in Uids PROVE GuestOK(u)
  BY <1>0, InitFits DEF GuestInv
<1>1. /\ firebase[u] = "guest" => u \in Guests
      /\ u \in Guests => u \notin Members
      /\ seenAs[u] = IF u \in Members THEN {"linked"} ELSE {}
      /\ stale = {} /\ users[u].seen = TRUE
      /\ users[u].anonymous = (u \in Guests)
      /\ cache[u] # None => cache[u].anonymous = (u \in Guests)
      /\ \A w \in Workers : worker[w] = Idle
  BY AccountAssumption DEF StateInit
<1>2. u # 0 /\ Idle.uid = 0
  BY UidsOK, IdleOK
<1> QED BY <1>1, <1>2 DEF GuestOK

LEMMA NextGuests ==
  ASSUME GuestInv, [Next]_vars
  PROVE  GuestInv'
<1> SUFFICES GuestsFit'
  BY NextFits DEF GuestInv, GuestsFit
<1>1. FitInv /\ Handlers \subseteq Workers /\ Sweeper \in Workers
  BY UidsOK DEF GuestInv
<1>2. CASE UNCHANGED vars
  <2>1. ListOK /\ \A u \in Uids : GuestOK(u)
    BY DEF GuestInv
  <2> QED BY <1>2, <2>1 DEF vars, tables, tokens, GuestsFit, ListOK, GuestOK, SweptOK, Stands, Is, Unseen, Acting
<1>3. ASSUME NEW w \in Handlers, Begin(w)
      PROVE  GuestsFit'
  BY <1>3, EnterGuests, AccountsAssumption DEF Begin
<1>4. ASSUME NEW w \in Handlers, Serve(w)
      PROVE  GuestsFit'
  <2>1. w \in Workers
    BY <1>1, <1>4
  <2>2. CASE resolvePrincipal(w)
    BY <2>1, <2>2, ResolveGuests
  <2>3. CASE UploadStep(w)
    <3>1. /\ \E q : Become(w, q) /\ Kept(worker[w], q)
          /\ UNCHANGED <<firebase, stale, users, cache, seenAs>>
      BY <1>1, <2>1, <2>3, UploadKeeps
    <3> QED BY <2>1, <3>1, QuietGuests
  <2>4. CASE DeleteBegin(w) \/ Adopt(w)
    BY <2>1, <2>4, TargetGuests
  <2>5. CASE EraseStep(w)
    BY <2>1, <2>5, EraseGuests
  <2> QED BY <1>4, <2>2, <2>3, <2>4, <2>5 DEF Serve
<1>5. CASE Sweep
  BY <1>1, <1>5, SweepGuests, EraseGuests DEF Sweep
<1>6. CASE Crash
  BY <1>6, CrashGuests DEF Crash
<1>7. CASE Around
  BY <1>7, AroundGuests
<1> QED BY <1>2, <1>3, <1>4, <1>5, <1>6, <1>7 DEF Next

-----------------------------------------------------------------------------
(* While no erasure has met another request of its account                 *)

\* NoOrphans, NumbersDistinct and ObjectsThere, of an undisturbed state.
Homes ==
  /\ \A f \in Files : files[f] # None => HasAccount(files[f].owner)
  /\ \A id \in DOMAIN lastSeq : lastSeq[id] # 0 => HasAccount(id)
Numbered ==
  \A f \in Files : files[f] # None =>
    /\ files[f].seq <= lastSeq[files[f].owner]
    /\ \A g \in Files \ {f} : files[g] # None /\ files[g].owner = files[f].owner
                                => files[g].seq # files[f].seq
There ==
  \A f \in Files : files[f] # None /\ files[f].key # None => files[f].key \in objects \union crossed

Settled ==
  /\ ~Clash(worker) /\ CacheOK /\ WritersApart
  /\ \A w \in Workers : AccountKept(worker[w])
  /\ \A w \in Workers : ErasureKept(worker[w])
  /\ \A w \in Workers : FileKept(worker[w])
  /\ Homes /\ Numbered /\ There

LEMMA SettledParts == AccountsInv <=> GuestInv /\ (~torn => Settled)
BY DEF AccountsInv, ApartInv, NoOrphans, EveryRowOwned, NumbersDistinct, ObjectsThere, Settled,
       Homes, Numbered, There

LEMMA KnownPositive ==
  ASSUME RowsFit, NEW id, Known(id)
  PROVE  id \in Nat /\ id # 0 /\ lastSeq[id] \in Nat
BY DEF RowsFit, Known

\* What one worker dooms no other acts for.
Apart(r, s) ==
  /\ r.from # 0 => s.id # r.from /\ s.from # r.from
  /\ \A d \in s.listed : r.from # 0 => d.id # r.from
  /\ \A d \in r.listed : d.id # 0 => s.id # d.id
  /\ \A k \in r.doomed : k.account # 0 => s.id # k.account

LEMMA ClashApart ==
  ASSUME NEW ws, ~Clash(ws), NEW v \in Workers, NEW w \in Workers, v # w
  PROVE  Apart(ws[v], ws[w])
<1> DEFINE r == ws[v]
           s == ws[w]
<1>1. \A n : n \in Dooms(r) => n \notin ActsFor(s)
  BY DEF Clash
<1> HIDE DEF r, s
<1>2. /\ r.from # 0 => r.from \in Dooms(r)
      /\ \A d \in r.listed : d.id # 0 => d.id \in Dooms(r)
      /\ \A k \in r.doomed : k.account # 0 => k.account \in Dooms(r)
  BY DEF Dooms
<1>3. /\ \A n : n # 0 /\ s.id = n => n \in ActsFor(s)
      /\ \A n : n # 0 /\ s.from = n => n \in ActsFor(s)
      /\ \A d \in s.listed : d.id # 0 => d.id \in ActsFor(s)
  BY DEF ActsFor, Dooms
<1> QED BY <1>1, <1>2, <1>3 DEF Apart, r, s

LEMMA BecomesApart ==
  ASSUME NEW w, NEW q, Become(w, q), ~torn'
  PROVE  ~torn /\ ~Clash(worker') /\ ~Astray(worker')
BY DEF Become

LEMMA IdleKept == AccountKept(Idle) /\ ErasureKept(Idle) /\ FileKept(Idle) /\ \A u : ~Dropping(Idle, u)
BY IdleOK DEF AccountKept, ErasureKept, FileKept, Acting, Operations, Dropping, Emptying, Moving

Confirmed(r) ==
  r.op = "confirm" /\ r.pc \in {"find", "number", "write"} => r.key \in objects

\* A statement that leaves the tables and the cache, and the objects requests and
\* rows know of.
LEMMA QuietSettles ==
  ASSUME FitInv, Settled, NEW w \in Workers, NEW q, Become(w, q), ~torn',
         UNCHANGED <<users, cache, lastSeq, files, lost>>, crossed \subseteq crossed',
         \/ UNCHANGED objects
         \/ There' /\ q.op # "confirm" /\ \A v \in Workers \ {w} : Confirmed(worker[v])',
         AccountKept(q), ErasureKept(q), FileKept(q), q.pc # "write",
         \A u \in Uids : Dropping(worker[w], u) => Dropping(q, u) /\ q.from = worker[w].from
  PROVE  Settled'
<1>1. worker'[w] = q /\ \A v \in Workers : v # w => worker'[v] = worker[v]
  BY FitParts, Becomes DEF WorkersFit
<1>2. ~Clash(worker')
  BY BecomesApart
<1>3. CacheOK'
  <2> SUFFICES ASSUME NEW u \in Uids, cache'[u] # None
               PROVE  \/ Is(u, cache[u].id)' \/ cache'[u].id \in lost'
                      \/ \E v \in Workers : Dropping(worker'[v], u) /\ worker'[v].from = cache'[u].id
    BY DEF CacheOK, Dropping
  <2>1. \/ Is(u, cache[u].id) \/ cache[u].id \in lost
        \/ \E v \in Workers : Dropping(worker[v], u) /\ worker[v].from = cache[u].id
    BY DEF Settled, CacheOK
  <2> QED BY <1>1, <2>1 DEF Is
<1>4. WritersApart'
  BY <1>1 DEF Settled, WritersApart
<1>5. \A v \in Workers : AccountKept(worker[v])'
  BY <1>1 DEF Settled, AccountKept, Acting, Is
<1>6. \A v \in Workers : ErasureKept(worker[v])'
  BY <1>1 DEF Settled, ErasureKept, Stands, Unseen, Is, OwnedBy, LiveOf, Emptying, Moving
<1>7. ASSUME NEW v \in Workers PROVE FileKept(worker[v])'
  <2> PICK s : s = worker'[v]
    OBVIOUS
  <2>1. FileKept(s) /\ (v # w => s = worker[v]) /\ (v = w => s = q)
    BY <1>1 DEF Settled
  <2>2. s.op = "confirm" /\ s.pc \in {"find", "number", "write"} => s.key \in objects'
    BY <2>1 DEF FileKept, Confirmed, Emptying
  <2> QED BY <2>1, <2>2 DEF FileKept, OwnedBy, Emptying
<1>8. Homes' /\ Numbered' /\ There'
  BY DEF Settled, Homes, Numbered, There, HasAccount
<1> QED BY <1>2, <1>3, <1>4, <1>5, <1>6, <1>7, <1>8 DEF Settled

LEMMA FinishSettles ==
  ASSUME FitInv, Settled, NEW w \in Workers, Finish(w), ~torn',
         UNCHANGED <<users, cache, lastSeq, files, objects, crossed, lost>>,
         \A u \in Uids : ~Dropping(worker[w], u)
  PROVE  Settled'
BY IdleKept, IdleOK, QuietSettles DEF Finish

LEMMA KnownRequest ==
  ASSUME FitInv, NEW w \in Workers
  PROVE  LET r == worker[w] IN
         /\ r \in Request /\ StageOK(w, r) /\ SubjectOK(r)
         /\ Acting(r) => Known(r.id) /\ r.id \in Nat /\ r.id # 0 /\ lastSeq[r.id] \in Nat
         /\ r.op # "sweep" => r.listed = {}
         /\ r.pc \in {"number", "write", "head", "find"} => Acting(r) /\ r.op \in Changing
         /\ r.pc \in Moving \union Emptying \union {"objects"} \/ r.op = "sweep" =>
              Known(r.from) /\ r.from # 0
         /\ \A d \in r.listed : d.id # 0
<1> DEFINE r == worker[w]
<1>1. r \in Request /\ StageOK(w, r) /\ SubjectOK(r) /\ RowsFit
  BY RequestFit, FitParts
<1> HIDE DEF r
<1>2. r.pc \in {"number", "write", "head", "find"} => Acting(r) /\ r.op \in Changing
  BY <1>1 DEF StageOK, Acting, Changing, Operations
<1>3. Acting(r) => Known(r.id)
  BY <1>1 DEF SubjectOK
<1>4. r.op # "sweep" => r.listed = {}
  BY <1>1 DEF SubjectOK
<1>5. r.pc \in Moving \union Emptying \union {"objects"} \/ r.op = "sweep" => Known(r.from)
  BY <1>1 DEF SubjectOK
<1>6. \A d \in r.listed : Known(d.id)
  BY <1>1 DEF SubjectOK
<1> QED BY <1>1, <1>2, <1>3, <1>4, <1>5, <1>6, KnownPositive DEF r

\* The number a row is about to be given.
LEMMA NumberSettles ==
  ASSUME FitInv, Settled, NEW w \in Workers, NumberFile(w), ~torn'
  PROVE  Settled'
<1> DEFINE r == worker[w]
           q == [r EXCEPT !.pc = "write", !.seq = lastSeq[r.id] + 1]
<1>1. /\ r.pc = "number" /\ Become(w, q)
      /\ lastSeq' = [lastSeq EXCEPT ![r.id] = @ + 1]
      /\ UNCHANGED <<users, cache, files, objects, crossed, lost>>
  BY DEF NumberFile, Number, bucket
<1>2. /\ r \in Request /\ RowsFit
      /\ Known(r.id) /\ Acting(r) /\ r.op \in Changing /\ r.listed = {}
  BY <1>1, KnownRequest, FitParts DEF Changing
<1>3. /\ q.key = r.key /\ q.doomed = r.doomed /\ q.pc = "write" /\ q.file = r.file
      /\ q.op = r.op /\ q.uid = r.uid /\ q.id = r.id /\ q.listed = r.listed
      /\ q.seq = lastSeq[r.id] + 1
  BY <1>2, Counted, <1>1 DEF Request
<1> HIDE DEF q, r
<1>4. worker'[w] = q /\ \A v \in Workers : v # w => worker'[v] = worker[v]
  BY <1>1, FitParts, Becomes DEF WorkersFit, r
<1>5. /\ lastSeq[r.id] \in Nat /\ lastSeq'[r.id] = lastSeq[r.id] + 1
      /\ DOMAIN lastSeq' = DOMAIN lastSeq
      /\ \A id \in DOMAIN lastSeq : id # r.id => lastSeq'[id] = lastSeq[id]
      /\ \A id \in DOMAIN lastSeq : lastSeq[id] \in Nat
  <2>1. lastSeq \in Seq(Nat)
    BY <1>2 DEF RowsFit
  <2>2. \A id \in DOMAIN lastSeq : lastSeq[id] \in Nat
    BY <2>1
  <2> QED BY <1>1, <1>2, <2>2, Counted
<1>6. ~Clash(worker')
  BY <1>1, BecomesApart
<1>7. CacheOK'
  <2> SUFFICES ASSUME NEW u \in Uids, cache'[u] # None
               PROVE  \/ Is(u, cache[u].id)' \/ cache'[u].id \in lost'
                      \/ \E v \in Workers : Dropping(worker'[v], u) /\ worker'[v].from = cache'[u].id
    BY DEF CacheOK, Dropping
  <2>1. \/ Is(u, cache[u].id) \/ cache[u].id \in lost
        \/ \E v \in Workers : Dropping(worker[v], u) /\ worker[v].from = cache[u].id
    BY <1>1 DEF Settled, CacheOK
  <2>2. ~Dropping(worker[w], u)
    BY <1>2 DEF Dropping, Changing, r
  <2> QED BY <1>1, <1>4, <2>1, <2>2 DEF Is
<1>8. \A v \in Workers : AccountKept(worker[v])'
  BY <1>1, <1>2, <1>3, <1>4 DEF Settled, AccountKept, Acting, Is, r
<1>9. ASSUME NEW v \in Workers PROVE ErasureKept(worker[v])'
  <2>1. CASE v # w
    BY <1>1, <1>4, <2>1 DEF Settled, ErasureKept, Stands, Unseen, Is, OwnedBy, LiveOf, Emptying, Moving
  <2>2. CASE v = w
    BY <1>2, <1>3, <1>4, <2>2 DEF ErasureKept, Changing, Emptying, Moving
  <2> QED BY <2>1, <2>2
<1>10. \A f \in OwnedBy(r.id) : files[f].seq <= lastSeq[r.id] /\ files[f].seq \in Nat
  BY <1>2 DEF Settled, Numbered, OwnedBy, RowsFit, File
<1>11. ASSUME NEW v \in Workers, v # w, worker[v].pc = "write"
       PROVE  /\ Known(worker[v].id) /\ worker[v].seq \in 1..lastSeq[worker[v].id]
              /\ worker[v].seq \in 1..lastSeq'[worker[v].id]
  <2>1. Known(worker[v].id) /\ worker[v].seq \in 1..lastSeq[worker[v].id]
    BY <1>11, KnownRequest DEF Settled, FileKept, Emptying
  <2> QED BY <1>5, <2>1 DEF Known
<1>12. ASSUME NEW v \in Workers PROVE FileKept(worker[v])'
  <2>1. CASE v # w
    <3>1. FileKept(worker[v]) /\ worker'[v] = worker[v]
      BY <1>4, <2>1 DEF Settled
    <3> QED BY <1>1, <1>11, <2>1, <3>1 DEF FileKept, OwnedBy, Emptying
  <2>2. CASE v = w
    <3>1. FileKept(r) /\ worker'[v] = q
      BY <1>4, <2>2 DEF Settled, r
    <3>2. q.seq \in 1..lastSeq'[q.id] /\ \A f \in OwnedBy(q.id) : files[f].seq # q.seq
      BY <1>3, <1>5, <1>10
    <3> QED BY <1>1, <1>3, <3>1, <3>2 DEF FileKept, OwnedBy, Emptying
  <2> QED BY <2>1, <2>2
<1>13. WritersApart'
  <2>1. ASSUME NEW v \in Workers, v # w, worker[v].pc = "write", worker[v].id = r.id
        PROVE  worker[v].seq # q.seq
    BY <1>3, <1>5, <1>11, <2>1
  <2>2. WritersApart
    BY DEF Settled
  <2> QED BY <1>3, <1>4, <2>1, <2>2 DEF WritersApart
<1>14. Homes' /\ There'
  <2>1. HasAccount(r.id)
    <3>1. Is(r.uid, r.id) /\ r.uid \in Uids
      BY <1>1, <1>2, RequestFit DEF Settled, AccountKept, SubjectOK, Acting, r
    <3> QED BY <3>1 DEF HasAccount, Is
  <2> QED BY <1>1, <1>5, <2>1 DEF Settled, Homes, There, HasAccount
<1>15. Numbered'
  <2>1. ASSUME NEW f \in Files, files[f] # None
        PROVE  files[f].seq <= lastSeq'[files[f].owner]
    <3>1. /\ files[f].seq \in Nat /\ files[f].owner \in DOMAIN lastSeq
          /\ files[f].seq <= lastSeq[files[f].owner]
      BY <1>2, <2>1 DEF Settled, Numbered, RowsFit, File, Known
    <3> QED BY <1>5, <3>1
  <2> QED BY <1>1, <2>1 DEF Settled, Numbered
<1> QED BY <1>6, <1>7, <1>8, <1>9, <1>12, <1>13, <1>14, <1>15 DEF Settled

\* The rows of an account are as they were.
RowsOf(id) ==
  \A g \in Files :
    (files[g] # None /\ files[g].owner = id) \/ (files'[g] # None /\ files'[g].owner = id)
      => files'[g] = files[g]

LEMMA ErasureHolds ==
  ASSUME NEW s, ErasureKept(s),
         s.op = "delete" /\ s.pc \in Emptying => cache'[s.uid] = None,
         s.op = "sweep" /\ s.pc # "objects" => users'[s.victim] = users[s.victim],
         \A d \in s.listed : users'[d.uid] = users[d.uid],
         s.pc \in {"more", "move"} \union Emptying => RowsOf(s.from)
  PROVE  ErasureKept(s)'
<1>1. ASSUME RowsOf(s.from)
      PROVE  LiveOf(s.from)' = LiveOf(s.from) /\ OwnedBy(s.from)' = OwnedBy(s.from)
  <2>1. \A g \in Files :
          /\ files'[g] # None /\ files'[g].owner = s.from
               <=> files[g] # None /\ files[g].owner = s.from
          /\ files[g] # None /\ files[g].owner = s.from => files'[g] = files[g]
    BY <1>1 DEF RowsOf
  <2>2. OwnedBy(s.from)' = OwnedBy(s.from)
    BY <2>1 DEF OwnedBy
  <2> QED BY <2>1, <2>2 DEF OwnedBy, LiveOf
<1>2. s.pc \in {"more", "move"} \union Emptying =>
        LiveOf(s.from)' = LiveOf(s.from) /\ OwnedBy(s.from)' = OwnedBy(s.from)
  BY <1>1
<1>3. /\ s.op = "delete" /\ s.pc \in Emptying => cache'[s.uid] = None
      /\ s.op = "sweep" /\ s.pc # "objects" => Stands(s.victim, s.from)'
      /\ \A d \in s.listed : Stands(d.uid, d.id)' /\ d.id # s.from
      /\ s.op = "adopt" /\ s.pc \in Moving \union Emptying \union {"objects"} => s.from # s.id
  BY DEF ErasureKept, Stands, Unseen, Is
<1>4. s.pc \in {"more", "move"} =>
       /\ \A n \in DOMAIN s.moved : s.moved[n] \in OwnedBy(s.from)'
       /\ \A f \in LiveOf(s.from)' : f \in Range(s.moved) \/ (s.pc = "more" /\ f \in VoiceNotes)
  BY <1>2 DEF ErasureKept
<1>5. /\ s.op = "adopt" /\ s.pc \in Emptying => LiveOf(s.from)' = {}
      /\ s.pc = "rest" => s.rows = OwnedBy(s.from)' \intersect VoiceNotes
  BY <1>2 DEF ErasureKept, Emptying
<1> QED BY <1>3, <1>4, <1>5 DEF ErasureKept

LEMMA ErasureStays ==
  ASSUME NEW v \in Workers, worker'[v] = worker[v], ErasureKept(worker[v]),
         LET s == worker[v] IN
         /\ s.op = "delete" /\ s.pc \in Emptying => cache'[s.uid] = None
         /\ s.op = "sweep" /\ s.pc # "objects" => users'[s.victim] = users[s.victim]
         /\ \A d \in s.listed : users'[d.uid] = users[d.uid]
         /\ s.pc \in {"more", "move"} \union Emptying => RowsOf(s.from)
  PROVE  ErasureKept(worker[v])'
<1> PICK s : s = worker[v] /\ s = worker'[v]
  OBVIOUS
<1>1. ErasureKept(s)'
  BY ErasureHolds
<1> QED BY <1>1 DEF ErasureKept, Emptying, Moving

\* A counter goes up, if any; a number no row of the request's account has, and
\* no request is about to give; the key of a row is the account's own or stays.
Counts(id) ==
  /\ DOMAIN lastSeq' = DOMAIN lastSeq
  /\ \A i \in DOMAIN lastSeq :
       /\ lastSeq[i] \in Nat /\ lastSeq'[i] \in Nat /\ lastSeq[i] <= lastSeq'[i]
       /\ i # id => lastSeq'[i] = lastSeq[i]
Unused(n, f, w) ==
  /\ \A g \in OwnedBy(worker[w].id) : g # f => files[g].seq # n
  /\ \A v \in Workers :
       v # w /\ worker[v].pc = "write" /\ worker[v].id = worker[w].id => worker[v].seq # n
Names(k, f, id) ==
  k # None => k \in objects \union crossed /\ (k.account = id \/ (files[f] # None /\ k = files[f].key))

\* A row of the request's account, made or written.
LEMMA RowSettles ==
  ASSUME FitInv, Settled, NEW w \in Workers, Finish(w), ~torn',
         Acting(worker[w]), worker[w].op \in Changing \union {"push"},
         NEW f \in Files, NEW x, files' = [files EXCEPT ![f] = x], x # None,
         x.owner = worker[w].id, files[f] # None => files[f].owner = worker[w].id,
         Names(x.key, f, worker[w].id), UNCHANGED <<users, cache, objects, crossed, lost>>,
         Counts(worker[w].id), x.seq \in Nat, x.seq <= lastSeq'[worker[w].id],
         Unused(x.seq, f, w)
  PROVE  Settled'
<1> DEFINE r == worker[w]
<1>1. /\ RowsFit /\ Known(r.id) /\ r.id # 0 /\ Is(r.uid, r.id) /\ r.uid \in Uids
      /\ \A u \in Uids : ~Dropping(r, u)
  <2>1. RowsFit /\ Known(r.id) /\ r.id # 0
    BY KnownRequest, FitParts
  <2>2. r.op \notin {"delete", "adopt"} /\ r.op \in Operations
    BY DEF Changing, Acting
  <2>3. Is(r.uid, r.id) /\ r.uid \in Uids
    BY <2>2, RequestFit DEF Settled, AccountKept, SubjectOK
  <2> QED BY <2>1, <2>2, <2>3 DEF Dropping
<1>2. worker'[w] = Idle /\ \A v \in Workers : v # w => worker'[v] = worker[v]
  BY FitParts, Becomes DEF WorkersFit, Finish
<1>3. ~Clash(worker')
  BY BecomesApart DEF Finish
<1>4. ASSUME NEW v \in Workers, v # w
      PROVE  Apart(worker[v], r)
  BY <1>4, ClashApart DEF Settled
<1>5. \A g \in Files : files'[g] = IF g = f THEN x ELSE files[g]
  BY <1>1 DEF RowsFit
<1>6. CacheOK'
  <2> SUFFICES ASSUME NEW u \in Uids, cache'[u] # None
               PROVE  \/ Is(u, cache[u].id)' \/ cache'[u].id \in lost'
                      \/ \E v \in Workers : Dropping(worker'[v], u) /\ worker'[v].from = cache'[u].id
    BY DEF CacheOK, Dropping
  <2>1. \/ Is(u, cache[u].id) \/ cache[u].id \in lost
        \/ \E v \in Workers : Dropping(worker[v], u) /\ worker[v].from = cache[u].id
    BY DEF Settled, CacheOK
  <2> QED BY <1>1, <1>2, <2>1 DEF Is
<1>7. WritersApart'
  BY <1>2, IdleOK DEF Settled, WritersApart
<1>8. \A v \in Workers : AccountKept(worker[v])'
  BY <1>2, IdleKept DEF Settled, AccountKept, Acting, Is
<1>9. ASSUME NEW id, id # r.id
      PROVE  RowsOf(id)
  BY <1>5, <1>9 DEF RowsOf
<1>10. ASSUME NEW v \in Workers PROVE ErasureKept(worker[v])'
  <2>1. CASE v # w
    <3>1. ErasureKept(worker[v]) /\ worker'[v] = worker[v]
      BY <1>2, <2>1 DEF Settled
    <3>2. worker[v].pc \in {"more", "move"} \union Emptying => worker[v].from # r.id
      BY <1>4, <2>1, KnownRequest DEF Apart
    <3>3. worker[v].op = "delete" /\ worker[v].pc \in Emptying =>
            cache'[worker[v].uid] = None
      BY <3>1 DEF ErasureKept, Emptying, Moving
    <3> QED BY <1>9, <3>1, <3>2, <3>3, ErasureStays
  <2>2. CASE v = w
    BY <1>2, <2>2, IdleOK DEF ErasureKept, Emptying, Moving
  <2> QED BY <2>1, <2>2
<1>11. ASSUME NEW v \in Workers PROVE FileKept(worker[v])'
  <2>1. CASE v # w
    <3> PICK s : s = worker[v] /\ s = worker'[v]
      BY <1>2, <2>1
    <3>1. FileKept(s) /\ Apart(s, r)
      BY <1>4, <2>1 DEF Settled
    <3>2. s.op # "create" /\ s.pc \in {"number", "write"} => s.file \in OwnedBy(s.id)'
      BY <1>5, <3>1 DEF FileKept, OwnedBy, Emptying
    <3>3. ASSUME s.pc = "write"
          PROVE  s.seq \in 1..lastSeq'[s.id] /\ \A g \in OwnedBy(s.id)' : files'[g].seq # s.seq
      <4>1. /\ Known(s.id) /\ s.seq \in 1..lastSeq[s.id]
            /\ \A g \in OwnedBy(s.id) : files[g].seq # s.seq
        BY <3>1, <3>3, KnownRequest DEF FileKept, Emptying
      <4>2. s.seq \in 1..lastSeq'[s.id]
        BY <4>1 DEF Known, Counts
      <4>3. ASSUME NEW g \in Files, files'[g] # None, files'[g].owner = s.id
            PROVE  files'[g].seq # s.seq
        <5>1. CASE g = f
          BY <1>5, <2>1, <3>3, <4>3, <5>1 DEF Unused
        <5>2. CASE g # f
          BY <1>5, <4>1, <4>3, <5>2 DEF OwnedBy
        <5> QED BY <5>1, <5>2
      <4> QED BY <4>2, <4>3 DEF OwnedBy
    <3>4. s.op = "confirm" /\ s.pc \in {"find", "number", "write"} => s.key \in objects'
      BY <3>1 DEF FileKept, Emptying
    <3>5. ASSUME NEW k \in s.doomed \ crossed', NEW g \in Files, files'[g] # None, files'[g].key = k
          PROVE  s.pc \in Emptying /\ files'[g].owner = s.from
      <4>0. k # None
        BY RequestFit, NoneApart DEF Request
      <4>1. CASE g # f
        BY <1>5, <3>1, <3>5, <4>1 DEF FileKept, Emptying
      <4>2. CASE g = f /\ x.key.account = r.id
        BY <1>1, <3>1, <1>5, <3>5, <4>2 DEF Apart
      <4>3. CASE g = f /\ files[f] # None /\ x.key = files[f].key
        BY <1>5, <3>1, <3>5, <4>3 DEF FileKept, Emptying
      <4> QED BY <1>5, <3>5, <4>0, <4>1, <4>2, <4>3 DEF Names
    <3>6. FileKept(s)'
      BY <3>2, <3>3, <3>4, <3>5 DEF FileKept, Emptying
    <3> QED BY <3>6 DEF FileKept, Emptying
  <2>2. CASE v = w
    BY <1>2, <2>2, IdleOK DEF FileKept, Emptying
  <2> QED BY <2>1, <2>2
<1>12. Homes'
  <2>1. HasAccount(r.id)
    BY <1>1 DEF HasAccount, Is
  <2>2. \A id : HasAccount(id)' <=> HasAccount(id)
    BY DEF HasAccount
  <2>3. ASSUME NEW g \in Files, files'[g] # None
        PROVE  HasAccount(files'[g].owner)
    BY <1>5, <2>1, <2>3 DEF Settled, Homes
  <2>4. ASSUME NEW id \in DOMAIN lastSeq', lastSeq'[id] # 0
        PROVE  HasAccount(id)
    BY <2>1, <2>4 DEF Settled, Homes, Counts
  <2> QED BY <2>3, <2>4 DEF Homes, HasAccount
<1>13. Numbered'
  <2>1. ASSUME NEW g \in Files, files'[g] # None
        PROVE  files'[g].seq <= lastSeq'[files'[g].owner]
    <3>1. CASE g = f
      BY <1>5, <3>1
    <3>2. CASE g # f
      <4>1. files'[g] = files[g] /\ files[g].owner \in DOMAIN lastSeq /\ files[g].seq \in Nat
            /\ files[g].seq <= lastSeq[files[g].owner]
        BY <1>1, <1>5, <2>1, <3>2 DEF Settled, Numbered, RowsFit, Known, File
      <4> QED BY <4>1 DEF Counts
    <3> QED BY <3>1, <3>2
  <2>2. ASSUME NEW g \in Files, NEW h \in Files \ {g}, files'[g] # None, files'[h] # None,
               files'[h].owner = files'[g].owner
        PROVE  files'[h].seq # files'[g].seq
    <3>1. CASE g # f /\ h # f
      BY <1>5, <2>2, <3>1 DEF Settled, Numbered
    <3>2. CASE g = f
      BY <1>5, <2>2, <3>2 DEF OwnedBy, Unused
    <3>3. CASE h = f
      BY <1>5, <2>2, <3>3 DEF OwnedBy, Unused
    <3> QED BY <3>1, <3>2, <3>3
  <2> QED BY <2>1, <2>2 DEF Numbered
<1>14. There'
  BY <1>5 DEF Settled, There, Names
<1> QED BY <1>3, <1>6, <1>7, <1>8, <1>10, <1>11, <1>12, <1>13, <1>14 DEF Settled

\* A request that has read what it needs of its file, or still has to.
LEMMA FileStepSettles ==
  ASSUME FitInv, Settled, NEW w \in Workers, NEW q, Become(w, q), ~torn',
         UNCHANGED <<users, cache, lastSeq, files, objects, lost>>, crossed \subseteq crossed',
         Acting(worker[w]), worker[w].op \in Changing,
         q.op = worker[w].op, q.uid = worker[w].uid, q.id = worker[w].id,
         q.doomed = worker[w].doomed, q.listed = worker[w].listed,
         q.pc \in {"number", "find", "head"},
         q.pc = "number" /\ q.op # "create" => q.file \in OwnedBy(q.id),
         q.op = "confirm" /\ q.pc \in {"find", "number"} => q.key \in objects
  PROVE  Settled'
<1> DEFINE r == worker[w]
<1>1. AccountKept(q)
  BY DEF Settled, AccountKept, Acting, Changing
<1>2. ErasureKept(q)
  <2>1. q.listed = {}
    BY KnownRequest DEF Changing
  <2> QED BY <2>1 DEF ErasureKept, Changing, Emptying, Moving
<1>3. FileKept(q)
  <2>1. FileKept(r)
    BY DEF Settled
  <2>2. r.pc \notin Emptying
    BY RequestFit DEF StageOK, Erasing, Changing
  <2> QED BY <2>1, <2>2 DEF FileKept, Emptying
<1>4. \A u \in Uids : ~Dropping(r, u)
  BY DEF Dropping, Changing
<1> QED BY <1>1, <1>2, <1>3, <1>4, QuietSettles

LEMMA ChoseSettles ==
  ASSUME FitInv, Settled, NEW w \in Workers, NEW pc \in {"number", "find"}, NEW f \in Files,
         Chose(w, pc, f), ~torn', UNCHANGED <<users, cache, lastSeq, files, objects, crossed, lost>>,
         worker[w].op \in Changing \ {"confirm"}, worker[w].pc = "begin",
         pc = "number" /\ worker[w].op # "create" => Own(worker[w].id, f)
  PROVE  Settled'
<1> DEFINE r == worker[w]
           q == [r EXCEPT !.pc = pc, !.file = f]
<1>1. r \in Request /\ Acting(r)
  BY RequestFit DEF Acting, Changing, Operations
<1>2. /\ q.op = r.op /\ q.uid = r.uid /\ q.id = r.id /\ q.doomed = r.doomed /\ q.listed = r.listed
      /\ q.pc = pc /\ q.file = f
  BY <1>1 DEF Request
<1>3. Become(w, q)
  BY DEF Chose
<1> HIDE DEF q
<1>4. pc = "number" /\ r.op # "create" => f \in OwnedBy(r.id)
  BY DEF Own, OwnedBy
<1> QED BY <1>1, <1>2, <1>3, <1>4, FileStepSettles

LEMMA GotoSettles ==
  ASSUME FitInv, Settled, NEW w \in Workers, NEW pc \in {"number", "find"},
         Goto(w, pc), ~torn', UNCHANGED <<users, cache, lastSeq, files, objects, crossed, lost>>,
         worker[w].pc \in {"head", "find"},
         pc = "number" => worker[w].file \in OwnedBy(worker[w].id),
         worker[w].op = "confirm" => worker[w].key \in objects
  PROVE  Settled'
<1> DEFINE r == worker[w]
           q == [r EXCEPT !.pc = pc]
<1>1. r \in Request /\ Acting(r) /\ r.op \in Changing
  BY KnownRequest
<1>2. /\ q.op = r.op /\ q.uid = r.uid /\ q.id = r.id /\ q.doomed = r.doomed /\ q.listed = r.listed
      /\ q.pc = pc /\ q.file = r.file /\ q.key = r.key
  BY <1>1 DEF Request
<1>3. Become(w, q)
  BY DEF Goto
<1> HIDE DEF q
<1> QED BY <1>1, <1>2, <1>3, FileStepSettles

LEMMA UploadSettles ==
  ASSUME FitInv, Settled, NEW w \in Workers, UploadStep(w), ~torn'
  PROVE  Settled'
<1> DEFINE r == worker[w]
<1>1. /\ r \in Request /\ StageOK(w, r) /\ SubjectOK(r) /\ RowsFit
      /\ Attachments \subseteq Files /\ VoiceNotes \subseteq Files
  BY RequestFit, FitParts DEF Files
<1>2. r.op \in {"create", "ask", "confirm", "edit", "remove", "push"} =>
        \A u \in Uids : ~Dropping(r, u)
  BY DEF Dropping
<1>3. UNCHANGED lastSeq => Counts(r.id)
  <2>1. \A id \in DOMAIN lastSeq : lastSeq[id] \in Nat
    BY <1>1 DEF RowsFit
  <2> QED BY <2>1 DEF Counts
<1>4. r.pc = "write" =>
         r.seq \in Nat /\ r.seq <= lastSeq[r.id] /\ Unused(r.seq, r.file, w)
  <2> SUFFICES ASSUME r.pc = "write"
               PROVE  r.seq \in Nat /\ r.seq <= lastSeq[r.id] /\ Unused(r.seq, r.file, w)
    OBVIOUS
  <2>1. /\ lastSeq[r.id] \in Nat /\ r.seq \in 1..lastSeq[r.id]
        /\ \A g \in OwnedBy(r.id) : files[g].seq # r.seq
    BY KnownRequest DEF Settled, FileKept, Emptying
  <2>2. WritersApart
    BY DEF Settled
  <2> QED BY <2>1, <2>2 DEF Unused, WritersApart
<1>5. ASSUME CreateAttachment(w) \/ CreateVoiceNote(w)
      PROVE  Settled'
  <2>1. /\ r.op = "create" /\ r.pc = "begin"
        /\ Finish(w) \/ \E f \in Files : Chose(w, "number", f)
        /\ UNCHANGED <<users, cache, lastSeq, files, objects, crossed, lost>>
    BY <1>1, <1>5 DEF CreateAttachment, CreateVoiceNote, tables, bucket, At
  <2> QED BY <1>2, <2>1, FinishSettles, ChoseSettles DEF Changing
<1>6. ASSUME CreateWrite(w)
      PROVE  Settled'
  <2>1. /\ r.op = "create" /\ r.pc = "write" /\ Finish(w)
        /\ UNCHANGED <<users, cache, lastSeq, objects, crossed, lost>>
    BY <1>6 DEF CreateWrite, At
  <2>2. CASE files[r.file] # None
    BY <1>2, <1>6, <2>1, <2>2, FinishSettles DEF CreateWrite
  <2>3. CASE files[r.file] = None
    <3> DEFINE x == [owner |-> r.id, deleted |-> FALSE, seq |-> r.seq, key |-> None]
    <3>1. files' = [files EXCEPT ![r.file] = x]
      BY <1>6, <2>3 DEF CreateWrite
    <3>2. x.owner = r.id /\ x.key = None /\ x.seq = r.seq /\ x # None
      <4>1. x \in File
        BY <1>1 DEF Request, File
      <4> QED BY <4>1, NoneApart
    <3>3. r.file \in Files /\ Acting(r) /\ r.op \in Changing
      BY <1>1, <2>1, KnownRequest DEF SubjectOK
    <3> HIDE DEF x
    <3>4. r.seq \in Nat /\ r.seq <= lastSeq'[r.id] /\ Unused(r.seq, r.file, w)
      BY <2>1, <1>4
    <3>5. Names(x.key, r.file, r.id)
      BY <3>2 DEF Names
    <3> QED BY <1>3, <2>1, <2>3, <3>1, <3>2, <3>3, <3>4, <3>5, RowSettles
  <2> QED BY <2>2, <2>3
<1>7. ASSUME AskAttachment(w) \/ AskVoiceNote(w)
      PROVE  Settled'
  <2>1. /\ r.op = "ask" /\ r.pc = "begin"
        /\ UNCHANGED <<users, cache, lastSeq, files, objects, crossed, lost>>
        /\ Finish(w) \/ \E f \in Files : Chose(w, "find", f)
    BY <1>1, <1>7 DEF AskAttachment, AskVoiceNote, tables, At
  <2> QED BY <1>2, <2>1, FinishSettles, ChoseSettles DEF Changing
<1>8. ASSUME ConfirmFind(w)
      PROVE  Settled'
  <2>1. /\ r.op = "confirm" /\ r.pc = "begin"
        /\ UNCHANGED <<users, cache, lastSeq, files, objects, lost>>
    BY <1>8 DEF ConfirmFind, At, tables
  <2>2. PICK f \in Files, k \in urls \union objects :
          \/ /\ Become(w, [r EXCEPT !.pc = "head", !.file = f, !.key = k])
             /\ crossed \subseteq crossed'
          \/ Finish(w) /\ UNCHANGED crossed
    BY <1>8 DEF ConfirmFind
  <2> DEFINE q == [r EXCEPT !.pc = "head", !.file = f, !.key = k]
  <2>3. /\ q.op = r.op /\ q.uid = r.uid /\ q.id = r.id /\ q.doomed = r.doomed
        /\ q.listed = r.listed /\ q.pc = "head"
    BY <1>1 DEF Request
  <2>4. Acting(r) /\ r.op \in Changing
    BY <2>1 DEF Acting, Changing, Operations
  <2>5. (Become(w, q) /\ crossed \subseteq crossed') \/ (Finish(w) /\ UNCHANGED crossed)
    BY <2>2
  <2> HIDE DEF q
  <2> QED BY <1>2, <2>1, <2>3, <2>4, <2>5, FinishSettles, FileStepSettles
<1>9. ASSUME ConfirmHead(w)
      PROVE  Settled'
  <2>1. /\ r.op = "confirm" /\ r.pc = "head"
        /\ (Goto(w, "find") /\ r.key \in objects) \/ Finish(w)
        /\ UNCHANGED <<users, cache, lastSeq, files, objects, crossed, lost>>
    BY <1>9 DEF ConfirmHead, At, Arrived, tables, bucket
  <2> QED BY <1>2, <2>1, FinishSettles, GotoSettles
<1>10. ASSUME EditBegin(w)
      PROVE  Settled'
  <2>1. /\ r.op \in {"edit", "remove"} /\ r.pc = "begin"
        /\ \E f \in Files : Chose(w, "number", f) /\ Own(r.id, f)
        /\ UNCHANGED <<users, cache, lastSeq, files, objects, crossed, lost>>
    BY <1>10 DEF EditBegin, tables, bucket
  <2> QED BY <2>1, ChoseSettles DEF Changing
<1>11. ASSUME EditFind(w)
      PROVE  Settled'
  <2>1. /\ r.pc = "find"
        /\ (Goto(w, "number") /\ Own(r.id, r.file)) \/ Finish(w)
        /\ UNCHANGED <<users, cache, lastSeq, files, objects, crossed, lost>>
    BY <1>11 DEF EditFind, tables, bucket
  <2>2. r.op \in {"ask", "confirm"} /\ r.file \in Files
    BY <1>1, <2>1 DEF StageOK, SubjectOK
  <2>3. Own(r.id, r.file) => r.file \in OwnedBy(r.id)
    BY <2>2 DEF Own, OwnedBy
  <2>4. r.op = "confirm" => r.key \in objects
    BY <2>1 DEF Settled, FileKept, Emptying
  <2> QED BY <1>2, <2>1, <2>2, <2>3, <2>4, FinishSettles, GotoSettles
<1>12. ASSUME NumberFile(w)
       PROVE  Settled'
  BY <1>12, NumberSettles
<1>13. ASSUME EditWrite(w)
       PROVE  Settled'
  <2>1. /\ r.op \in {"ask", "confirm", "edit", "remove"} /\ r.pc = "write" /\ Finish(w)
        /\ UNCHANGED <<users, cache, lastSeq, objects, crossed, lost>>
    BY <1>13 DEF EditWrite
  <2>2. CASE files[r.file] = None
    BY <1>2, <1>13, <2>1, <2>2, FinishSettles DEF EditWrite
  <2>3. CASE files[r.file] # None
    <3> DEFINE old == files[r.file]
               x == [old EXCEPT !.seq = r.seq,
                                !.key = IF r.op = "confirm" THEN r.key ELSE @,
                                !.deleted = @ \/ r.op = "remove"]
    <3>1. files' = [files EXCEPT ![r.file] = x]
      BY <1>13, <2>3 DEF EditWrite
    <3>2. /\ r.file \in OwnedBy(r.id) /\ r.file \in Files /\ Acting(r) /\ r.op \in Changing
          /\ r.op = "confirm" => r.key \in objects /\ r.key.account = r.id
      BY <1>1, <2>1, KnownRequest DEF Settled, FileKept, SubjectOK, Emptying
    <3>3. /\ old \in File /\ old.owner = r.id /\ old # None
          /\ old.key # None => old.key \in objects \union crossed
      BY <2>3, <3>2, OwnFile DEF Settled, There, OwnedBy
    <3>4. /\ x.owner = old.owner /\ x.seq = r.seq /\ x # None
          /\ x.key = IF r.op = "confirm" THEN r.key ELSE old.key
      <4>1. x \in File
        BY <1>1, <2>1, <3>2, <3>3 DEF Request, File, SubjectOK
      <4> QED BY <3>3, <4>1, NoneApart DEF File
    <3>5. old = files[r.file]
      OBVIOUS
    <3> HIDE DEF x, old
    <3>6. x.seq \in Nat /\ x.seq <= lastSeq'[r.id] /\ Unused(x.seq, r.file, w)
      BY <1>4, <2>1, <3>4
    <3>7. Names(x.key, r.file, r.id)
      BY <3>2, <3>3, <3>4, <3>5 DEF Names
    <3> QED BY <1>3, <2>1, <3>1, <3>2, <3>3, <3>4, <3>5, <3>6, <3>7, RowSettles
  <2> QED BY <2>2, <2>3
<1>14. ASSUME Push(w)
       PROVE  Settled'
  <2>1. /\ r.op = "push" /\ r.pc = "begin" /\ Finish(w)
        /\ lastSeq' = [lastSeq EXCEPT ![r.id] = @ + 1]
        /\ UNCHANGED <<users, cache, objects, crossed, lost>>
    BY <1>14 DEF Push, At, bucket
  <2>2. PICK f \in Files, deleted \in BOOLEAN :
          /\ files[f] # None => files[f].owner = r.id
          /\ files' = [files EXCEPT ![f] = Pushed(f, r.id, deleted)]
    BY <1>14 DEF Push
  <2>3. Acting(r) /\ Known(r.id)
    BY <1>1, <2>1 DEF Acting, SubjectOK, Operations
  <2>4. /\ DOMAIN lastSeq' = DOMAIN lastSeq /\ lastSeq[r.id] \in Nat
        /\ lastSeq'[r.id] = lastSeq[r.id] + 1 /\ r.id \in Nat
        /\ \A id \in DOMAIN lastSeq : id # r.id => lastSeq'[id] = lastSeq[id]
    BY <1>1, <2>1, <2>3, Counted
  <2>5. Counts(r.id)
    <3>1. \A id \in DOMAIN lastSeq : lastSeq[id] \in Nat
      BY <1>1 DEF RowsFit
    <3> QED BY <2>4, <3>1 DEF Counts
  <2> DEFINE x == Pushed(f, r.id, deleted)
  <2>6. /\ x.owner = r.id /\ x.key = IF files[f] = None THEN None ELSE files[f].key
        /\ x.seq = lastSeq[r.id] + 1
    BY DEF Pushed
  <2>7. x # None
    <3>1. (IF files[f] = None THEN None ELSE files[f].key) \in Key \union {None}
      BY OwnFile DEF File
    <3>2. x \in File
      BY <2>4, <3>1 DEF Pushed, File
    <3> QED BY <3>2, NoneApart
  <2>8. Names(x.key, f, r.id)
    BY <2>6 DEF Settled, There, Names
  <2>9. \A g \in OwnedBy(r.id) : files[g].seq \in Nat /\ files[g].seq <= lastSeq[r.id]
    BY <1>1 DEF Settled, Numbered, OwnedBy, RowsFit, File
  <2>10. \A v \in Workers : worker[v].pc = "write" /\ worker[v].id = r.id =>
             worker[v].seq \in 1..lastSeq[r.id]
    BY DEF Settled, FileKept, Emptying
  <2>11. files' = [files EXCEPT ![f] = x] /\ x.seq \in Nat /\ x.seq <= lastSeq'[r.id]
    BY <2>2, <2>4, <2>6
  <2> HIDE DEF x
  <2>12. \A g \in OwnedBy(r.id) : files[g].seq # x.seq
    BY <2>4, <2>6, <2>9
  <2>13. \A v \in Workers : worker[v].pc = "write" /\ worker[v].id = r.id => worker[v].seq # x.seq
    BY <2>4, <2>6, <2>10
  <2>14. Unused(x.seq, f, w)
    BY <2>12, <2>13 DEF Unused
  <2> QED BY <2>1, <2>2, <2>3, <2>5, <2>6, <2>7, <2>8, <2>11, <2>14, RowSettles
<1>15. ASSUME Answer(w)
       PROVE  Settled'
  BY <1>2, <1>15, FinishSettles DEF Answer, tables, bucket
<1> QED
  BY <1>5, <1>6, <1>7, <1>8, <1>9, <1>10, <1>11, <1>12, <1>13, <1>14, <1>15 DEF UploadStep

LEMMA EnterSettles ==
  ASSUME FitInv, Settled, NEW w \in Handlers, NEW op \in Operations, Enter(w, op), ~torn'
  PROVE  Settled'
<1>1. w \in Workers
  BY UidsOK
<1>2. PICK u \in Uids, anonymous \in BOOLEAN :
        LET r == [Idle EXCEPT !.op = op, !.uid = u, !.anonymous = anonymous] IN
        /\ worker[w] = Idle
        /\ \/ /\ cache[u] # None
              /\ Become(w, [r EXCEPT !.pc = "begin", !.id = cache[u].id])
           \/ Become(w, [r EXCEPT !.pc = "upsert"])
        /\ UNCHANGED <<users, cache, lastSeq, files, objects, crossed, lost>>
  BY DEF Enter, tables, bucket, Cached
<1>3. PICK q : /\ Become(w, q) /\ q.op = op /\ q.uid = u /\ q.doomed = {} /\ q.listed = {}
               /\ \/ cache[u] # None /\ q.pc = "begin" /\ q.id = cache[u].id
                  \/ q.pc = "upsert"
  <2> DEFINE r == [Idle EXCEPT !.op = op, !.uid = u, !.anonymous = anonymous]
             a == [r EXCEPT !.pc = "begin", !.id = cache[u].id]
             b == [r EXCEPT !.pc = "upsert"]
  <2>1. /\ a.op = op /\ a.uid = u /\ a.doomed = {} /\ a.listed = {}
        /\ a.pc = "begin" /\ a.id = cache[u].id
        /\ b.op = op /\ b.uid = u /\ b.doomed = {} /\ b.listed = {} /\ b.pc = "upsert"
    BY DEF Idle
  <2>2. (cache[u] # None /\ Become(w, a)) \/ Become(w, b)
    BY <1>2
  <2> HIDE DEF a, b
  <2> QED BY <2>1, <2>2
<1>4. q.pc = "begin" => Is(u, q.id)
  <2> SUFFICES ASSUME q.pc = "begin"
               PROVE  Is(u, q.id)
    OBVIOUS
  <2>1. CASE Is(u, cache[u].id)
    BY <1>3, <2>1
  <2>0. cache[u].id \notin lost
    <3>1. worker'[w] = q
      BY <1>1, <1>3, FitParts, Becomes DEF WorkersFit
    <3>2. ~Astray(worker')
      BY <1>1, <1>3, BecomesApart
    <3> QED BY <1>1, <1>2, <1>3, <3>1, <3>2 DEF Astray
  <2>2. ASSUME NEW v \in Workers, Dropping(worker[v], u), worker[v].from = cache[u].id
        PROVE  FALSE
    <3>1. v # w
      BY <1>2, <2>2, IdleOK DEF Dropping
    <3>2. worker'[v] = worker[v] /\ worker'[w] = q
      BY <1>1, <1>3, <3>1, FitParts, Becomes DEF WorkersFit
    <3>3. Apart(worker'[v], worker'[w])
      BY <1>1, <1>3, <3>1, BecomesApart, ClashApart
    <3>4. Known(cache[u].id) /\ cache[u].id # 0
      BY <1>3, FitParts, KnownPositive DEF RowsFit
    <3> QED BY <1>3, <2>2, <3>2, <3>3, <3>4 DEF Apart
  <2> QED BY <1>3, <2>0, <2>1, <2>2 DEF Settled, CacheOK
<1>5. AccountKept(q) /\ ErasureKept(q) /\ FileKept(q)
  <2>1. AccountKept(q)
    BY <1>3, <1>4 DEF AccountKept, Acting
  <2>2. ErasureKept(q)
    BY <1>3 DEF ErasureKept, Operations, Emptying, Moving
  <2>3. FileKept(q)
    BY <1>3 DEF FileKept, Emptying
  <2> QED BY <2>1, <2>2, <2>3
<1> QED BY <1>1, <1>2, <1>3, <1>5, IdleKept, QuietSettles

LEMMA TargetSettles ==
  ASSUME FitInv, Settled, NEW w \in Workers, NEW q, Become(w, q), ~torn',
         UNCHANGED <<users, cache, lastSeq, files, objects, crossed, lost>>,
         worker[w].op \in {"delete", "adopt"}, worker[w].pc \in {"begin", "list", "more"},
         q.op = worker[w].op, q.uid = worker[w].uid, q.id = worker[w].id,
         q.doomed = worker[w].doomed, q.listed = worker[w].listed,
         q.pc \in {"firebase", "list", "more", "move"},
         q.pc \in Moving => q.from # q.id,
         q.pc \in {"more", "move"} =>
           /\ \A n \in DOMAIN q.moved : q.moved[n] \in OwnedBy(q.from)
           /\ \A f \in LiveOf(q.from) :
                f \in Range(q.moved) \/ (q.pc = "more" /\ f \in VoiceNotes)
  PROVE  Settled'
<1> DEFINE r == worker[w]
<1>1. AccountKept(q)
  BY DEF Settled, AccountKept, Acting
<1>2. ErasureKept(q)
  <2>1. q.listed = {}
    BY KnownRequest
  <2> QED BY <2>1 DEF ErasureKept, Emptying, Moving
<1>3. FileKept(q)
  <2>1. FileKept(r)
    BY DEF Settled
  <2> QED BY <2>1 DEF FileKept, Emptying
<1>4. \A u \in Uids : ~Dropping(r, u)
  BY DEF Dropping
<1> QED BY <1>1, <1>2, <1>3, <1>4, QuietSettles

LEMMA DeleteSettles ==
  ASSUME FitInv, Settled, NEW w \in Workers, DeleteBegin(w), ~torn'
  PROVE  Settled'
<1> DEFINE r == worker[w]
           q == [r EXCEPT !.pc = "firebase", !.victim = r.uid, !.from = r.id]
<1>1. /\ r.op = "delete" /\ r.pc = "begin" /\ (Become(w, q) \/ Finish(w))
      /\ UNCHANGED <<users, cache, lastSeq, files, objects, crossed, lost>>
  BY DEF DeleteBegin, At, tables, bucket
<1>2. /\ q.op = r.op /\ q.uid = r.uid /\ q.id = r.id /\ q.doomed = r.doomed
      /\ q.listed = r.listed /\ q.pc = "firebase"
  BY RequestFit DEF Request
<1>3. \A u \in Uids : ~Dropping(r, u)
  BY <1>1 DEF Dropping
<1> HIDE DEF q
<1> QED BY <1>1, <1>2, <1>3, FinishSettles, TargetSettles DEF Moving

LEMMA AdoptBeginSettles ==
  ASSUME FitInv, Settled, NEW w \in Workers, AdoptBegin(w), ~torn'
  PROVE  Settled'
<1> DEFINE r == worker[w]
<1>1. /\ r.op = "adopt" /\ r.pc = "begin" /\ r \in Request
      /\ UNCHANGED <<users, cache, lastSeq, files, objects, crossed, lost>>
  BY RequestFit DEF AdoptBegin, At, tables, bucket
<1>2. CASE Finish(w)
  <2>1. \A u \in Uids : ~Dropping(r, u)
    BY <1>1 DEF Dropping
  <2> QED BY <1>1, <1>2, <2>1, FinishSettles
<1>3. ASSUME NEW u \in Uids, u # r.uid,
             \/ users[u] = None /\ Become(w, [r EXCEPT !.pc = "firebase", !.victim = u])
             \/ users[u] # None /\ Become(w, [r EXCEPT !.pc = "list", !.victim = u,
                                                       !.from = users[u].id])
      PROVE  Settled'
  <2>1. CASE users[u] = None /\ Become(w, [r EXCEPT !.pc = "firebase", !.victim = u])
    <3> DEFINE q == [r EXCEPT !.pc = "firebase", !.victim = u]
    <3>1. /\ q.op = r.op /\ q.uid = r.uid /\ q.id = r.id /\ q.doomed = r.doomed
          /\ q.listed = r.listed /\ q.pc = "firebase"
      BY <1>1 DEF Request
    <3>2. Become(w, q)
      BY <2>1
    <3> HIDE DEF q
    <3> QED BY <1>1, <3>1, <3>2, TargetSettles DEF Moving
  <2>2. CASE users[u] # None /\ Become(w, [r EXCEPT !.pc = "list", !.victim = u,
                                                    !.from = users[u].id])
    <3> DEFINE q == [r EXCEPT !.pc = "list", !.victim = u, !.from = users[u].id]
    <3>1. /\ q.op = r.op /\ q.uid = r.uid /\ q.id = r.id /\ q.doomed = r.doomed
          /\ q.listed = r.listed /\ q.pc = "list" /\ q.from = users[u].id
      BY <1>1 DEF Request
    <3>2. Become(w, q)
      BY <2>2
    <3> HIDE DEF q
    <3>3. Is(r.uid, r.id) /\ r.uid \in Uids
      BY <1>1, RequestFit DEF Settled, AccountKept, Acting, Operations, SubjectOK
    <3>4. q.from # q.id
      BY <1>3, <2>2, <3>1, <3>3, FitParts DEF RowsFit, Is
    <3> QED BY <1>1, <3>1, <3>2, <3>4, TargetSettles
  <2> QED BY <1>3, <2>1, <2>2
<1> QED BY <1>2, <1>3 DEF AdoptBegin

LEMMA AdoptListSettles ==
  ASSUME FitInv, Settled, NEW w \in Workers, AdoptList(w), ~torn'
  PROVE  Settled'
<1> DEFINE r == worker[w]
<1>1. /\ r.op = "adopt" /\ r.pc = "list" /\ r \in Request
      /\ UNCHANGED <<users, cache, lastSeq, files, objects, crossed, lost>>
  BY RequestFit DEF AdoptList, At, tables, bucket
<1> DEFINE S == ToMove(r.from) \intersect Attachments
<1>2. PICK rows \in BySeq(S) : Become(w, [r EXCEPT !.pc = "more", !.moved = rows])
  BY DEF AdoptList
<1> DEFINE q == [r EXCEPT !.pc = "more", !.moved = rows]
<1>3. /\ q.op = r.op /\ q.uid = r.uid /\ q.id = r.id /\ q.doomed = r.doomed
      /\ q.listed = r.listed /\ q.pc = "more" /\ q.from = r.from /\ q.moved = rows
  BY <1>1 DEF Request
<1>4. Become(w, q)
  BY <1>2
<1> HIDE DEF q
<1>5. rows \in Seq(Files) /\ Range(rows) = LiveOf(r.from) \intersect Attachments
  <2>1. S \subseteq Files
    BY DEF ToMove, LiveOf, OwnedBy
  <2> QED BY <2>1, BySeqOK DEF ToMove
<1>6. /\ \A n \in DOMAIN rows : rows[n] \in OwnedBy(r.from)
      /\ \A f \in LiveOf(r.from) : f \in Range(rows) \/ f \in VoiceNotes
  BY <1>5 DEF Range, LiveOf, OwnedBy, Files
<1>7. r.from # r.id
  BY <1>1 DEF Settled, ErasureKept, Emptying, Moving
<1> QED BY <1>1, <1>3, <1>4, <1>6, <1>7, TargetSettles

LEMMA RangeOfBoth ==
  ASSUME NEW s \in Seq(Files), NEW t \in Seq(Files)
  PROVE  Range(s \o t) = Range(s) \union Range(t)
<1>1. /\ Len(s) \in Nat /\ DOMAIN s = 1..Len(s) /\ Len(t) \in Nat /\ DOMAIN t = 1..Len(t)
      /\ DOMAIN (s \o t) = 1..(Len(s) + Len(t))
      /\ \A i \in 1..Len(s) : (s \o t)[i] = s[i]
      /\ \A i \in 1..Len(t) : (s \o t)[Len(s) + i] = t[i]
  OBVIOUS
<1> DEFINE b == s \o t
<1>2. /\ \A i \in 1..Len(s) : i \in DOMAIN b /\ b[i] = s[i]
      /\ \A i \in 1..Len(t) : Len(s) + i \in DOMAIN b /\ b[Len(s) + i] = t[i]
      /\ \A i \in DOMAIN b : i \in 1..Len(s) \/ i - Len(s) \in 1..Len(t)
  BY <1>1
<1>3. ASSUME NEW i \in DOMAIN b
      PROVE  b[i] \in Range(s) \union Range(t)
  <2>1. CASE i \in 1..Len(s)
    BY <1>1, <1>2, <2>1 DEF Range
  <2>2. CASE i - Len(s) \in 1..Len(t)
    <3>1. i = Len(s) + (i - Len(s))
      BY <1>1, <1>3
    <3>2. b[i] = t[i - Len(s)]
      BY <1>2, <2>2, <3>1
    <3> QED BY <1>1, <2>2, <3>2 DEF Range
  <2> QED BY <1>2, <2>1, <2>2
<1> HIDE DEF b
<1>4. Range(b) \subseteq Range(s) \union Range(t)
  BY <1>3 DEF Range
<1>5. Range(s) \subseteq Range(b)
  BY <1>1, <1>2 DEF Range
<1>6. Range(t) \subseteq Range(b)
  BY <1>1, <1>2 DEF Range
<1> QED BY <1>4, <1>5, <1>6 DEF b

LEMMA AdoptMoreSettles ==
  ASSUME FitInv, Settled, NEW w \in Workers, AdoptMore(w), ~torn'
  PROVE  Settled'
<1> DEFINE r == worker[w]
           S == ToMove(r.from) \intersect VoiceNotes
<1>1. /\ r.op = "adopt" /\ r.pc = "more" /\ r \in Request
      /\ UNCHANGED <<users, cache, lastSeq, files, objects, crossed, lost>>
  BY RequestFit DEF AdoptMore, At, tables, bucket
<1>2. PICK rows \in BySeq(S) : Become(w, [r EXCEPT !.pc = "move", !.moved = @ \o rows])
  BY DEF AdoptMore
<1> DEFINE both == r.moved \o rows
           q == [r EXCEPT !.pc = "move", !.moved = both]
<1>3. /\ q.op = r.op /\ q.uid = r.uid /\ q.id = r.id /\ q.doomed = r.doomed
      /\ q.listed = r.listed /\ q.pc = "move" /\ q.from = r.from /\ q.moved = both
  BY <1>1 DEF Request
<1>4. Become(w, q)
  BY <1>2
<1> HIDE DEF q
<1>5. rows \in Seq(Files) /\ Range(rows) = LiveOf(r.from) \intersect VoiceNotes
  <2>1. S \subseteq Files
    BY DEF ToMove, LiveOf, OwnedBy
  <2> QED BY <2>1, BySeqOK DEF ToMove
<1>6. /\ r.moved \in Seq(Files) /\ r.from # r.id
      /\ \A n \in DOMAIN r.moved : r.moved[n] \in OwnedBy(r.from)
      /\ \A f \in LiveOf(r.from) : f \in Range(r.moved) \/ f \in VoiceNotes
  BY <1>1 DEF Settled, ErasureKept, Emptying, Moving, Request
<1>7. Range(both) = Range(r.moved) \union Range(rows)
  BY <1>5, <1>6, RangeOfBoth
<1>8. \A f \in Range(both) : f \in OwnedBy(r.from)
  BY <1>5, <1>6, <1>7 DEF Range, LiveOf
<1>9. \A n \in DOMAIN both : both[n] \in OwnedBy(r.from)
  BY <1>8 DEF Range
<1>10. \A f \in LiveOf(r.from) : f \in Range(both)
  BY <1>5, <1>6, <1>7
<1> HIDE DEF both
<1> QED BY <1>1, <1>3, <1>4, <1>6, <1>9, <1>10, TargetSettles

\* The transaction in which the rows change hands.
LEMMA MoveSettles ==
  ASSUME FitInv, Settled, NEW w \in Workers, AdoptMove(w), ~torn'
  PROVE  Settled'
<1> DEFINE r == worker[w]
           q == [r EXCEPT !.pc = "keys", !.moved = <<>>]
<1>1. /\ r.op = "adopt" /\ r.pc = "move" /\ r \in Request /\ SubjectOK(r)
      /\ UNCHANGED <<users, cache, objects, crossed, lost>>
      /\ \A u \in Uids : ~Dropping(r, u)
      /\ \/ Finish(w) /\ UNCHANGED <<files, lastSeq>>
         \/ /\ \A n \in DOMAIN r.moved : files[r.moved[n]] # None
            /\ Move(r) /\ Become(w, q)
  BY RequestFit DEF AdoptMove, At, bucket, Dropping
<1>2. CASE Finish(w) /\ UNCHANGED <<files, lastSeq>>
  BY <1>1, <1>2, FinishSettles
<1> SUFFICES ASSUME \A n \in DOMAIN r.moved : files[r.moved[n]] # None,
                    Move(r), Become(w, q)
             PROVE  Settled'
  BY <1>1, <1>2
<1>3. /\ q.op = r.op /\ q.uid = r.uid /\ q.id = r.id /\ q.doomed = r.doomed
      /\ q.listed = r.listed /\ q.pc = "keys" /\ q.from = r.from
  BY <1>1 DEF Request
<1>4. /\ worker'[w] = q /\ (\A v \in Workers : v # w => worker'[v] = worker[v])
      /\ ~Clash(worker') /\ RowsFit
  BY FitParts, Becomes, BecomesApart DEF WorkersFit
<1> HIDE DEF q
<1>5. /\ Known(r.id) /\ r.id # 0 /\ Known(r.from) /\ r.from # 0 /\ r.listed = {}
      /\ Is(r.uid, r.id) /\ r.uid \in Uids /\ r.from # r.id
      /\ \A n \in DOMAIN r.moved : r.moved[n] \in OwnedBy(r.from)
      /\ LiveOf(r.from) \subseteq Range(r.moved)
  <2>1. Acting(r)
    BY <1>1 DEF Acting, Operations
  <2>2. r.uid \in Uids /\ Is(r.uid, r.id)
    BY <1>1, <2>1 DEF SubjectOK, Settled, AccountKept, Acting
  <2>3. /\ r.from # r.id
        /\ \A n \in DOMAIN r.moved : r.moved[n] \in OwnedBy(r.from)
        /\ \A f \in LiveOf(r.from) : f \in Range(r.moved)
    BY <1>1 DEF Settled, ErasureKept, Emptying, Moving
  <2> QED BY <1>1, <2>1, <2>2, <2>3, KnownRequest DEF Moving
<1> DEFINE M == Range(r.moved)
<1>6. \A f \in M : f \in Files /\ files[f] # None /\ files[f].owner = r.from
  BY <1>5 DEF Range, OwnedBy
<1>7. /\ lastSeq[r.id] \in Nat /\ lastSeq'[r.id] \in Nat /\ lastSeq[r.id] <= lastSeq'[r.id]
      /\ DOMAIN lastSeq' = DOMAIN lastSeq
      /\ \A id \in DOMAIN lastSeq : id # r.id => lastSeq'[id] = lastSeq[id]
      /\ \A id \in DOMAIN lastSeq : lastSeq[id] \in Nat
      /\ \A f \in Files : f \notin M => files'[f] = files[f]
      /\ \A f \in M :
           /\ files'[f] # None /\ files'[f].owner = r.id /\ files'[f].key = files[f].key
           /\ \E n \in 1..Len(r.moved) : r.moved[n] = f /\ files'[f].seq = lastSeq[r.id] + n
      /\ Len(r.moved) \in Nat /\ lastSeq'[r.id] = lastSeq[r.id] + Len(r.moved)
  <2>1. \A id \in DOMAIN lastSeq : lastSeq[id] \in Nat
    BY <1>4 DEF RowsFit
  <2>2. /\ lastSeq[r.id] \in Nat /\ Len(r.moved) \in Nat
        /\ DOMAIN lastSeq' = DOMAIN lastSeq
        /\ lastSeq'[r.id] = lastSeq[r.id] + Len(r.moved)
        /\ \A id \in DOMAIN lastSeq : id # r.id => lastSeq'[id] = lastSeq[id]
        /\ \A f \in Files : f \notin M => files'[f] = files[f]
        /\ \A f \in M :
             /\ files'[f] \in File /\ files'[f].owner = r.id /\ files'[f].key = files[f].key
             /\ \E n \in 1..Len(r.moved) :
                  r.moved[n] = f /\ files'[f].seq = lastSeq[r.id] + n
    BY <1>1, <1>4, <1>5, MovedRows
  <2>3. \A f \in M : files'[f] # None
    BY <2>2, NoneApart
  <2> HIDE DEF M
  <2> QED BY <2>1, <2>2, <2>3
<1> HIDE DEF M
<1>8. ASSUME NEW v \in Workers, v # w
      PROVE  Apart(worker[v], r) /\ Apart(r, worker[v])
  BY <1>8, ClashApart DEF Settled
<1>9. CacheOK'
  <2> SUFFICES ASSUME NEW u \in Uids, cache'[u] # None
               PROVE  \/ Is(u, cache[u].id)' \/ cache'[u].id \in lost'
                      \/ \E v \in Workers : Dropping(worker'[v], u) /\ worker'[v].from = cache'[u].id
    BY DEF CacheOK, Dropping
  <2>1. \/ Is(u, cache[u].id) \/ cache[u].id \in lost
        \/ \E v \in Workers : Dropping(worker[v], u) /\ worker[v].from = cache[u].id
    BY <1>1 DEF Settled, CacheOK
  <2> QED BY <1>1, <1>4, <2>1 DEF Is
<1>10. WritersApart'
  BY <1>3, <1>4 DEF Settled, WritersApart
<1>11. \A v \in Workers : AccountKept(worker[v])'
  BY <1>1, <1>3, <1>4, <1>5 DEF Settled, AccountKept, Acting, Is
<1>12. ASSUME NEW id, id # r.id, id # r.from
       PROVE  RowsOf(id)
  BY <1>6, <1>7, <1>12 DEF RowsOf
<1>13. ASSUME NEW v \in Workers PROVE ErasureKept(worker[v])'
  <2>1. CASE v # w
    <3>1. ErasureKept(worker[v]) /\ worker'[v] = worker[v]
      BY <1>4, <2>1 DEF Settled
    <3>2. worker[v].pc \in {"more", "move"} \union Emptying =>
            worker[v].from # r.id /\ worker[v].from # r.from
      BY <1>5, <1>8, <2>1, KnownRequest DEF Apart
    <3>3. worker[v].op = "delete" /\ worker[v].pc \in Emptying =>
            cache'[worker[v].uid] = None
      BY <1>1, <3>1 DEF ErasureKept, Emptying, Moving
    <3> QED BY <1>1, <1>12, <3>1, <3>2, <3>3, ErasureStays
  <2>2. CASE v = w
    <3> PICK s : s = worker'[v] /\ s = q
      BY <1>4, <2>2
    <3>1. ASSUME NEW f \in Files, files'[f] # None, files'[f].owner = s.from, ~files'[f].deleted
          PROVE  FALSE
      <4>1. f \notin M
        BY <1>3, <1>5, <1>7, <3>1
      <4>2. f \in LiveOf(r.from)
        BY <1>3, <1>7, <3>1, <4>1 DEF LiveOf, OwnedBy
      <4> QED BY <1>5, <4>1, <4>2 DEF M
    <3>2. LiveOf(s.from)' = {}
      BY <3>1 DEF LiveOf, OwnedBy
    <3>3. s.op = "adopt" /\ s.pc = "keys" /\ s.listed = {} /\ s.from # s.id
      BY <1>1, <1>3, <1>5
    <3> QED BY <3>2, <3>3 DEF ErasureKept, Emptying, Moving
  <2> QED BY <2>1, <2>2
<1>14. ASSUME NEW v \in Workers PROVE FileKept(worker[v])'
  <2>1. CASE v # w
    <3> PICK s : s = worker[v] /\ s = worker'[v]
      BY <1>4, <2>1
    <3>1. FileKept(s) /\ Apart(s, r) /\ Apart(r, s)
      BY <1>8, <2>1 DEF Settled
    <3>2. s.op # "create" /\ s.pc \in {"number", "write"} => s.file \in OwnedBy(s.id)'
      <4>1. s.id # r.from
        BY <1>5, <3>1 DEF Apart
      <4> QED BY <1>6, <1>7, <3>1, <4>1 DEF FileKept, OwnedBy, Emptying
    <3>3. ASSUME s.pc = "write"
          PROVE  s.seq \in 1..lastSeq'[s.id] /\ \A g \in OwnedBy(s.id)' : files'[g].seq # s.seq
      <4>1. /\ Known(s.id) /\ s.seq \in 1..lastSeq[s.id]
            /\ \A g \in OwnedBy(s.id) : files[g].seq # s.seq
        BY <3>1, <3>3, KnownRequest DEF FileKept, Emptying
      <4>2. s.seq \in 1..lastSeq'[s.id]
        BY <1>7, <4>1 DEF Known
      <4>3. ASSUME NEW g \in Files, files'[g] # None, files'[g].owner = s.id
            PROVE  files'[g].seq # s.seq
        <5>1. CASE g \in M
          BY <1>7, <4>1, <4>3, <5>1
        <5>2. CASE g \notin M
          BY <1>7, <4>1, <4>3, <5>2 DEF OwnedBy
        <5> QED BY <5>1, <5>2
      <4> QED BY <4>2, <4>3 DEF OwnedBy
    <3>4. s.op = "confirm" /\ s.pc \in {"find", "number", "write"} => s.key \in objects'
      BY <1>1, <3>1 DEF FileKept, Emptying
    <3>5. ASSUME NEW k \in s.doomed \ crossed', NEW g \in Files, files'[g] # None, files'[g].key = k
          PROVE  s.pc \in Emptying /\ files'[g].owner = s.from
      <4>1. CASE g \notin M
        BY <1>1, <1>7, <3>1, <3>5, <4>1 DEF FileKept, Emptying
      <4>2. CASE g \in M
        <5>1. s.pc \in Emptying /\ files[g].owner = s.from
          BY <1>1, <1>6, <1>7, <3>1, <3>5, <4>2 DEF FileKept, Emptying
        <5> QED BY <1>5, <1>6, <3>1, <4>2, <5>1 DEF Apart
      <4> QED BY <4>1, <4>2
    <3>6. FileKept(s)'
      BY <3>2, <3>3, <3>4, <3>5 DEF FileKept, Emptying
    <3> QED BY <3>6 DEF FileKept, Emptying
  <2>2. CASE v = w
    <3> PICK s : s = worker'[v] /\ s = q
      BY <1>4, <2>2
    <3>1. FileKept(r)
      BY DEF Settled
    <3>2. ASSUME NEW k \in s.doomed \ crossed', NEW g \in Files, files'[g] # None, files'[g].key = k
          PROVE  FALSE
      BY <1>1, <1>3, <1>6, <1>7, <3>1, <3>2 DEF FileKept, Emptying
    <3>3. s.op = "adopt" /\ s.pc = "keys"
      BY <1>1, <1>3
    <3> QED BY <3>2, <3>3 DEF FileKept, Emptying
  <2> QED BY <2>1, <2>2
<1>15. Homes'
  <2>1. HasAccount(r.id)
    BY <1>5 DEF HasAccount, Is
  <2>2. ASSUME NEW g \in Files, files'[g] # None
        PROVE  HasAccount(files'[g].owner)
    BY <1>7, <2>1, <2>2 DEF Settled, Homes
  <2>3. ASSUME NEW id \in DOMAIN lastSeq', lastSeq'[id] # 0
        PROVE  HasAccount(id)
    BY <1>7, <2>1, <2>3 DEF Settled, Homes
  <2> QED BY <1>1, <2>2, <2>3 DEF Homes, HasAccount
<1>16. Numbered'
  <2>1. \A g \in Files : files[g] # None =>
          /\ files[g].seq \in Nat /\ files[g].owner \in DOMAIN lastSeq
          /\ files[g].seq <= lastSeq[files[g].owner]
    BY <1>4 DEF Settled, Numbered, RowsFit, Known, File
  <2>2. ASSUME NEW g \in Files, files'[g] # None
        PROVE  files'[g].seq <= lastSeq'[files'[g].owner]
    <3>1. CASE g \in M
      BY <1>7, <3>1
    <3>2. CASE g \notin M
      BY <1>7, <2>1, <2>2, <3>2
    <3> QED BY <3>1, <3>2
  <2>3. ASSUME NEW g \in Files, NEW h \in Files, g # h, files'[g] # None, files'[h] # None,
               files'[h].owner = files'[g].owner
        PROVE  files'[h].seq # files'[g].seq
    <3>1. CASE g \notin M /\ h \notin M
      BY <1>7, <2>3, <3>1 DEF Settled, Numbered
    <3>2. CASE g \in M /\ h \in M
      BY <1>7, <2>3, <3>2
    <3>3. CASE g \in M /\ h \notin M
      BY <1>7, <2>1, <2>3, <3>3
    <3>4. CASE g \notin M /\ h \in M
      BY <1>7, <2>1, <2>3, <3>4
    <3> QED BY <3>1, <3>2, <3>3, <3>4
  <2> QED BY <2>2, <2>3 DEF Numbered
<1>17. There'
  <2>1. There
    BY DEF Settled
  <2>2. ASSUME NEW g \in Files, files'[g] # None, files'[g].key # None
        PROVE  files'[g].key \in (objects \union crossed)'
    BY <1>1, <1>6, <1>7, <2>1, <2>2 DEF There
  <2> QED BY <2>2 DEF There
<1> QED BY <1>4, <1>9, <1>10, <1>11, <1>13, <1>14, <1>15, <1>16, <1>17 DEF Settled

\* Where an erasure goes on to.
LEMMA SweptNextKept ==
  ASSUME RowsFit, NEW listed, NEW q, SweptNext(listed, q),
         listed \in SUBSET Listed, \A d \in listed : Stands(d.uid, d.id)
  PROVE  /\ AccountKept(q) /\ ErasureKept(q) /\ FileKept(q)
         /\ q.op \in {"idle", "sweep"} /\ q.pc \in {"idle", "firebase"}
         /\ q.doomed = {} /\ q.listed \subseteq listed
         /\ q.op = "sweep" => \E d \in listed : q.victim = d.uid
<1>1. CASE q = Idle
  BY <1>1, IdleOK, IdleKept
<1>2. ASSUME NEW d \in listed, q = [Idle EXCEPT !.op = "sweep", !.pc = "firebase",
                                     !.victim = d.uid, !.from = d.id, !.listed = listed \ {d}]
      PROVE  /\ AccountKept(q) /\ ErasureKept(q) /\ FileKept(q)
             /\ q.op = "sweep" /\ q.pc = "firebase"
             /\ q.doomed = {} /\ q.listed \subseteq listed /\ q.victim = d.uid
  <2>1. /\ q.op = "sweep" /\ q.pc = "firebase" /\ q.victim = d.uid /\ q.from = d.id
        /\ q.listed = listed \ {d} /\ q.doomed = {}
    BY <1>2 DEF Idle
  <2>2. ASSUME NEW e \in listed, e # d
        PROVE  e.id # d.id
    <3>1. /\ d = [uid |-> d.uid, id |-> d.id] /\ e = [uid |-> e.uid, id |-> e.id]
          /\ d.uid \in Uids /\ e.uid \in Uids
      BY DEF Listed
    <3>2. Is(d.uid, d.id) /\ Is(e.uid, e.id)
      BY DEF Stands, Unseen
    <3> QED BY <2>2, <3>1, <3>2 DEF RowsFit, Is
  <2>3. AccountKept(q)
    BY <2>1 DEF AccountKept, Acting, Operations
  <2>4. ErasureKept(q)
    BY <2>1, <2>2 DEF ErasureKept, Emptying, Moving
  <2>5. FileKept(q)
    BY <2>1 DEF FileKept, Emptying
  <2> QED BY <2>1, <2>3, <2>4, <2>5
<1> QED BY <1>1, <1>2 DEF SweptNext

Onwards(r, q) ==
  /\ q.op \in {r.op, "idle"} /\ q.pc \in {"objects", "firebase", "idle"}
  /\ q.doomed \subseteq r.doomed /\ q.listed \subseteq r.listed
  /\ q.op = "delete" => q.pc = "objects"
  /\ q.op = "sweep" /\ q.pc # "objects" => \E d \in r.listed : q.victim = d.uid
  /\ r.op = "adopt" => /\ q.op = "adopt" /\ q.pc \in {"objects", "firebase"}
                       /\ q.uid = r.uid /\ q.id = r.id /\ q.victim = r.victim /\ q.from = r.from

LEMMA ErasedNextSettled ==
  ASSUME RowsFit, NEW r \in Request, r.pc \in {"rest", "objects"}, SubjectOK(r),
         r.op \in {"delete", "adopt", "sweep"},
         AccountKept(r), ErasureKept(r), NEW q, ErasedNext(r, q)
  PROVE  AccountKept(q) /\ ErasureKept(q) /\ Onwards(r, q)
<1>1. CASE r.op = "sweep" /\ SweptNext(r.listed, q)
  <2> PICK listed : listed = r.listed
    OBVIOUS
  <2>1. listed \in SUBSET Listed
    BY DEF Request, Listed
  <2>2. (\A d \in listed : Stands(d.uid, d.id)) /\ SweptNext(listed, q)
    BY <1>1 DEF ErasureKept, Emptying, Moving
  <2>3. /\ AccountKept(q) /\ ErasureKept(q)
        /\ q.op \in {"idle", "sweep"} /\ q.pc \in {"idle", "firebase"}
        /\ q.doomed = {} /\ q.listed \subseteq listed
        /\ q.op = "sweep" => \E d \in listed : q.victim = d.uid
    BY <2>1, <2>2, SweptNextKept
  <2> QED BY <1>1, <2>3 DEF Onwards
<1>2. CASE r.op = "delete" /\ q = Idle
  BY <1>2, IdleOK, IdleKept DEF Onwards
<1>3. ASSUME NEW pc \in {"objects", "firebase"}, q = [r EXCEPT !.rows = {}, !.pc = pc],
             pc = "firebase" => r.op = "adopt", r.op \in {"adopt", "delete", "sweep"}
      PROVE  AccountKept(q) /\ ErasureKept(q) /\ Onwards(r, q)
  <2>1. /\ q.pc = pc /\ q.op = r.op /\ q.uid = r.uid /\ q.id = r.id /\ q.victim = r.victim
        /\ q.from = r.from /\ q.listed = r.listed /\ q.doomed = r.doomed
    BY <1>3 DEF Request
  <2>2. AccountKept(q)
    BY <1>3, <2>1 DEF AccountKept, Acting, Operations
  <2>3. ErasureKept(q)
    BY <1>3, <2>1 DEF ErasureKept, Emptying, Moving
  <2>4. Onwards(r, q)
    BY <1>3, <2>1 DEF Onwards
  <2> QED BY <2>2, <2>3, <2>4
<1> QED BY <1>1, <1>2, <1>3 DEF ErasedNext

\* The transaction that ends an account.
LEMMA CommitSettles ==
  ASSUME FitInv, Settled, NEW w \in Workers, NEW q,
         worker[w].pc = "rest", Is(worker[w].victim, worker[w].from), Commit(worker[w]),
         worker' = [worker EXCEPT ![w] = q], ~Clash(worker'),
         UNCHANGED <<cache, objects, crossed>>, lost \subseteq lost',
         AccountKept(q), ErasureKept(q),
         q = Idle \/ Onwards(worker[w], q),
         cache[worker[w].victim] # None =>
           \/ Dropping(q, worker[w].victim) /\ q.from = worker[w].from
           \/ worker[w].from \in lost'
  PROVE  Settled'
<1> DEFINE r == worker[w]
<1>1. /\ r \in Request /\ SubjectOK(r) /\ RowsFit
      /\ Known(r.from) /\ r.from # 0 /\ r.victim \in Uids
      /\ r.op \in {"delete", "adopt", "sweep"}
      /\ r.op = "adopt" => r.victim # r.uid
      /\ \A u \in Uids : ~Dropping(r, u)
  <2>1. r \in Request /\ SubjectOK(r) /\ RowsFit /\ StageOK(w, r)
    BY RequestFit, FitParts
  <2>2. /\ r.victim \in Uids /\ r.op \in {"delete", "adopt", "sweep"}
        /\ r.op = "adopt" => r.victim # r.uid
    BY <2>1 DEF SubjectOK, StageOK, Erasing, Moving, Emptying
  <2>3. \A u \in Uids : ~Dropping(r, u)
    BY DEF Dropping
  <2> QED BY <2>1, <2>2, <2>3, KnownRequest DEF Emptying
<1>2. /\ \A f \in Files : files'[f] = IF f \in OwnedBy(r.from) THEN None ELSE files[f]
      /\ \A u \in Uids : users'[u] = IF u = r.victim THEN None ELSE users[u]
      /\ DOMAIN lastSeq' = DOMAIN lastSeq
      /\ \A id \in DOMAIN lastSeq : lastSeq'[id] = IF id = r.from THEN 0 ELSE lastSeq[id]
  <2>1. r.rows = OwnedBy(r.from) \intersect VoiceNotes
    BY DEF Settled, ErasureKept
  <2>2. Gone(r) = OwnedBy(r.from)
    BY <2>1 DEF Gone, OwnedBy, Files
  <2> HIDE DEF r
  <2> QED BY <1>1, <2>2, CommitRows DEF r
<1>3. /\ worker'[w] = q /\ \A v \in Workers : v # w => worker'[v] = worker[v]
  BY FitParts DEF WorkersFit
<1>4. /\ q.op # "confirm" /\ q.pc \in {"objects", "firebase", "idle"}
      /\ q.doomed \subseteq r.doomed /\ q.listed \subseteq r.listed
      /\ q.op \in Operations => q.op = r.op
      /\ q.op = "delete" => q.pc = "objects"
      /\ q.op = "adopt" => q.uid = r.uid /\ r.op = "adopt"
      /\ q.op = "sweep" => r.op = "sweep"
      /\ q.op = "sweep" /\ q.pc # "objects" => \E d \in r.listed : q.victim = d.uid
  BY <1>1, IdleOK DEF Onwards, Operations
<1>5. ASSUME NEW v \in Workers, v # w
      PROVE  Apart(worker[v], r) /\ Apart(r, worker[v])
  BY <1>5, ClashApart DEF Settled
<1>6. \A u \in Uids : \A id : Is(u, id) /\ id # r.from => users'[u] = users[u]
  BY <1>2 DEF Is
<1>7. CacheOK'
  <2> SUFFICES ASSUME NEW u \in Uids, cache'[u] # None
               PROVE  \/ Is(u, cache[u].id)' \/ cache'[u].id \in lost'
                      \/ \E v \in Workers : Dropping(worker'[v], u) /\ worker'[v].from = cache'[u].id
    BY DEF CacheOK, Dropping
  <2>1. \/ Is(u, cache[u].id) \/ cache[u].id \in lost
        \/ \E v \in Workers : Dropping(worker[v], u) /\ worker[v].from = cache[u].id
    BY DEF Settled, CacheOK
  <2>2. ASSUME NEW v \in Workers, Dropping(worker[v], u), worker[v].from = cache[u].id
        PROVE  \E x \in Workers : Dropping(worker'[x], u) /\ worker'[x].from = cache'[u].id
    <3>1. v # w
      BY <1>1, <2>2
    <3> QED BY <1>3, <2>2, <3>1
  <2>3. CASE Is(u, cache[u].id) /\ u # r.victim
    BY <1>2, <2>3 DEF Is
  <2>4. CASE Is(u, cache[u].id) /\ u = r.victim
    BY <1>3, <2>4 DEF Is
  <2> QED BY <2>1, <2>2, <2>3, <2>4
<1>8. WritersApart'
  BY <1>3, <1>4 DEF Settled, WritersApart
<1>9. ASSUME NEW v \in Workers PROVE AccountKept(worker[v])'
  <2>1. CASE v # w
    <3> PICK s : s = worker[v] /\ s = worker'[v]
      BY <1>3, <2>1
    <3>1. AccountKept(s) /\ (Acting(s) => s.uid \in Uids /\ s.id # r.from)
      BY <1>1, <1>5, <2>1, RequestFit DEF Settled, Apart, SubjectOK, Acting
    <3>2. AccountKept(s)'
      BY <1>6, <3>1 DEF AccountKept, Acting, Is
    <3> QED BY <3>2 DEF AccountKept, Acting, Is
  <2>2. CASE v = w
    <3> PICK s : s = q /\ s = worker'[v]
      BY <1>3, <2>2
    <3>1. s.op = "adopt" => s.uid # r.victim /\ s.uid \in Uids
      BY <1>1, <1>4 DEF SubjectOK, Operations
    <3>2. Acting(s) => s.op \in {"delete", "adopt"} /\ (s.op = "delete" => s.pc = "objects")
      BY <1>1, <1>4 DEF Acting, Operations
    <3>3. AccountKept(s)'
      BY <1>2, <3>1, <3>2 DEF AccountKept, Acting, Is
    <3> QED BY <3>3 DEF AccountKept, Acting, Is
  <2> QED BY <2>1, <2>2
<1>10. ASSUME NEW id, id # r.from
       PROVE  RowsOf(id)
  BY <1>2, <1>10 DEF RowsOf, OwnedBy
<1>11. ASSUME NEW v \in Workers PROVE ErasureKept(worker[v])'
  <2>1. CASE v # w
    <3> DEFINE s == worker[v]
    <3>1. ErasureKept(s) /\ worker'[v] = s /\ Apart(r, s) /\ SubjectOK(s) /\ s \in Request
      BY <1>3, <1>5, <2>1, RequestFit DEF Settled
    <3>2. s.op = "sweep" => s.pc \in Erasing
      BY RequestFit DEF StageOK
    <3> HIDE DEF s
    <3>3. s.op = "sweep" /\ s.pc # "objects" => users'[s.victim] = users[s.victim]
      BY <1>1, <1>6, <3>1, <3>2 DEF ErasureKept, Stands, Unseen, Apart, SubjectOK, Emptying, Moving
    <3>4. \A d \in s.listed : users'[d.uid] = users[d.uid]
      BY <1>1, <1>6, <3>1 DEF ErasureKept, Stands, Unseen, Apart, Request, Emptying, Moving
    <3>5. s.pc \in {"more", "move"} \union Emptying => RowsOf(s.from)
      BY <1>1, <1>10, <3>1 DEF Apart
    <3>6. s.op = "delete" /\ s.pc \in Emptying => cache'[s.uid] = None
      BY <3>1 DEF ErasureKept, Emptying, Moving
    <3> QED BY <3>1, <3>3, <3>4, <3>5, <3>6, ErasureStays DEF s
  <2>2. CASE v = w
    <3> PICK s : s = q /\ s = worker'[v]
      BY <1>3, <2>2
    <3>1. \A d \in r.listed : d.uid \in Uids /\ users'[d.uid] = users[d.uid]
      <4>1. ErasureKept(r)
        BY DEF Settled
      <4> QED BY <1>1, <1>6, <4>1 DEF ErasureKept, Stands, Unseen, Request, Emptying, Moving
    <3>2. ErasureKept(s)'
      BY <1>4, <3>1, ErasureHolds DEF Emptying
    <3> QED BY <3>2 DEF ErasureKept, Emptying, Moving
  <2> QED BY <2>1, <2>2
<1>12. ASSUME NEW v \in Workers PROVE FileKept(worker[v])'
  <2>1. CASE v # w
    <3> PICK s : s = worker[v] /\ s = worker'[v]
      BY <1>3, <2>1
    <3>1. FileKept(s) /\ s.id # r.from
      BY <1>1, <1>5, <2>1 DEF Settled, Apart
    <3>2. s.op # "create" /\ s.pc \in {"number", "write"} => s.file \in OwnedBy(s.id)'
      BY <1>2, <3>1 DEF FileKept, OwnedBy, Emptying
    <3>3. ASSUME s.pc = "write"
          PROVE  s.seq \in 1..lastSeq'[s.id] /\ \A g \in OwnedBy(s.id)' : files'[g].seq # s.seq
      <4>1. /\ Known(s.id) /\ s.seq \in 1..lastSeq[s.id]
            /\ \A g \in OwnedBy(s.id) : files[g].seq # s.seq
        BY <3>1, <3>3, KnownRequest DEF FileKept, Emptying
      <4> QED BY <1>2, <3>1, <4>1 DEF Known, OwnedBy
    <3>4. s.op = "confirm" /\ s.pc \in {"find", "number", "write"} => s.key \in objects'
      BY <3>1 DEF FileKept, Emptying
    <3>5. ASSUME NEW k \in s.doomed \ crossed', NEW g \in Files, files'[g] # None, files'[g].key = k
          PROVE  s.pc \in Emptying /\ files'[g].owner = s.from
      BY <1>2, <3>1, <3>5 DEF FileKept, Emptying
    <3>6. FileKept(s)'
      BY <3>2, <3>3, <3>4, <3>5 DEF FileKept, Emptying
    <3> QED BY <3>6 DEF FileKept, Emptying
  <2>2. CASE v = w
    <3> PICK s : s = q /\ s = worker'[v]
      BY <1>3, <2>2
    <3>1. FileKept(r)
      BY DEF Settled
    <3>2. ASSUME NEW k \in s.doomed \ crossed', NEW g \in Files, files'[g] # None, files'[g].key = k
          PROVE  FALSE
      BY <1>2, <1>4, <3>1, <3>2 DEF FileKept, OwnedBy, Emptying
    <3> QED BY <1>4, <3>2 DEF FileKept, Emptying
  <2> QED BY <2>1, <2>2
<1>13. Homes'
  <2>1. ASSUME NEW id, id # r.from, HasAccount(id)
        PROVE  HasAccount(id)'
    <3>1. PICK u \in Uids : Is(u, id)
      BY <2>1 DEF HasAccount, Is
    <3> QED BY <1>6, <2>1, <3>1 DEF HasAccount, Is
  <2>2. ASSUME NEW g \in Files, files'[g] # None
        PROVE  HasAccount(files[g].owner)' /\ files'[g] = files[g]
    <3>1. files'[g] = files[g] /\ files[g] # None /\ files[g].owner # r.from
      BY <1>2, <2>2 DEF OwnedBy
    <3> PICK id : id = files[g].owner /\ id = files'[g].owner
      BY <3>1
    <3>2. HasAccount(id)'
      BY <2>1, <3>1 DEF Settled, Homes
    <3> QED BY <3>1, <3>2 DEF HasAccount
  <2>3. ASSUME NEW id \in DOMAIN lastSeq', lastSeq'[id] # 0
        PROVE  HasAccount(id)'
    <3>1. id # r.from /\ id \in DOMAIN lastSeq /\ lastSeq[id] # 0
      BY <1>2, <2>3
    <3> QED BY <2>1, <3>1 DEF Settled, Homes
  <2> QED BY <2>2, <2>3 DEF Homes, HasAccount
<1>14. Numbered'
  <2>1. ASSUME NEW g \in Files, files'[g] # None
        PROVE  /\ files'[g] = files[g] /\ files[g] # None
               /\ files[g].seq <= lastSeq'[files[g].owner]
    BY <1>1, <1>2, <2>1 DEF Settled, Numbered, OwnedBy, RowsFit, Known
  <2>2. Numbered
    BY DEF Settled
  <2> QED BY <2>1, <2>2 DEF Numbered
<1>15. There'
  BY <1>2 DEF Settled, There
<1> QED BY <1>7, <1>8, <1>9, <1>11, <1>12, <1>13, <1>14, <1>15 DEF Settled

\* Statements of an erasure that only go on to the next.
LEMMA OnSettles ==
  ASSUME FitInv, Settled, NEW w \in Workers, NEW pc \in {"forget", "keys"}, Goto(w, pc), ~torn',
         UNCHANGED <<users, lastSeq, files, objects, crossed, lost>>,
         worker[w].pc \in {"firebase", "forget"}, worker[w].op \in {"delete", "adopt", "sweep"},
         \A u \in Uids : cache'[u] = cache[u] \/ cache'[u] = None,
         pc = "forget" => UNCHANGED cache,
         pc = "keys" => worker[w].op # "adopt",
         pc = "keys" /\ worker[w].op = "delete" => cache'[worker[w].uid] = None
  PROVE  Settled'
<1> DEFINE r == worker[w]
           q == [r EXCEPT !.pc = pc]
<1>1. /\ r \in Request /\ SubjectOK(r) /\ RowsFit
      /\ AccountKept(r) /\ ErasureKept(r) /\ FileKept(r)
  BY RequestFit, FitParts DEF Settled
<1>2. /\ q.op = r.op /\ q.uid = r.uid /\ q.id = r.id /\ q.doomed = r.doomed /\ q.listed = r.listed
      /\ q.pc = pc /\ q.victim = r.victim /\ q.from = r.from
  BY <1>1 DEF Request
<1>3. Become(w, q)
  BY DEF Goto
<1> HIDE DEF q
<1>4. worker'[w] = q /\ \A v \in Workers : v # w => worker'[v] = worker[v]
  BY <1>3, FitParts, Becomes DEF WorkersFit
<1>5. ~Clash(worker')
  BY <1>3, BecomesApart
<1>6. CacheOK'
  <2> SUFFICES ASSUME NEW u \in Uids, cache'[u] # None
               PROVE  \/ Is(u, cache[u].id)' \/ cache'[u].id \in lost'
                      \/ \E v \in Workers : Dropping(worker'[v], u) /\ worker'[v].from = cache'[u].id
    BY DEF CacheOK, Dropping
  <2>1. cache'[u] = cache[u]
    OBVIOUS
  <2>2. \/ Is(u, cache[u].id) \/ cache[u].id \in lost
        \/ \E v \in Workers : Dropping(worker[v], u) /\ worker[v].from = cache[u].id
    BY <2>1 DEF Settled, CacheOK
  <2>3. ASSUME NEW v \in Workers, Dropping(worker[v], u), worker[v].from = cache[u].id
        PROVE  \E x \in Workers : Dropping(worker'[x], u) /\ worker'[x].from = cache'[u].id
    <3>1. CASE v # w
      BY <1>4, <2>1, <2>3, <3>1
    <3>2. CASE v = w
      BY <1>2, <1>4, <2>1, <2>3, <3>2 DEF Dropping
    <3> QED BY <3>1, <3>2
  <2>4. CASE Is(u, cache[u].id)
    BY <2>1, <2>4 DEF Is
  <2> QED BY <2>2, <2>3, <2>4
<1>7. WritersApart'
  BY <1>2, <1>4 DEF Settled, WritersApart
<1>8. ASSUME NEW v \in Workers PROVE AccountKept(worker[v])'
  <2> PICK s : s = worker'[v]
    OBVIOUS
  <2>1. AccountKept(s)
    <3>1. AccountKept(q)
      BY <1>1, <1>2 DEF AccountKept, Acting
    <3> QED BY <1>4, <3>1 DEF Settled
  <2>2. AccountKept(s)'
    BY <2>1 DEF AccountKept, Is
  <2> QED BY <2>2 DEF AccountKept, Acting, Is
<1>9. ASSUME NEW v \in Workers PROVE ErasureKept(worker[v])'
  <2> PICK s : s = worker'[v]
    OBVIOUS
  <2>1. CASE v # w
    <3>1. ErasureKept(worker[v]) /\ worker'[v] = worker[v]
      BY <1>4, <2>1 DEF Settled
    <3>2. worker[v].op = "delete" /\ worker[v].pc \in Emptying =>
            cache'[worker[v].uid] = None
      <4>1. worker[v].op = "delete" => worker[v].uid \in Uids
        BY RequestFit DEF SubjectOK, Operations
      <4> QED BY <3>1, <4>1 DEF ErasureKept, Emptying, Moving
    <3>3. \A id : RowsOf(id)
      BY DEF RowsOf
    <3> QED BY <3>1, <3>2, <3>3, ErasureStays
  <2>2. CASE v = w
    <3>1. s = q /\ q.listed = r.listed
      BY <1>2, <1>4, <2>2
    <3>2. (\A d \in r.listed : Stands(d.uid, d.id) /\ d.id # r.from)
          /\ (r.op = "sweep" => Stands(r.victim, r.from))
      BY <1>1 DEF ErasureKept, Emptying, Moving
    <3>3. (\A d \in s.listed : Stands(d.uid, d.id) /\ d.id # s.from)
          /\ (s.op = "sweep" => Stands(s.victim, s.from))
      BY <1>2, <3>1, <3>2
    <3>4. (\A d \in s.listed : Stands(d.uid, d.id)' /\ d.id # s.from)
          /\ (s.op = "sweep" => Stands(s.victim, s.from)')
      BY <3>3 DEF Stands, Unseen, Is
    <3>5. /\ s.op = "delete" /\ s.pc \in Emptying => cache'[s.uid] = None
          /\ s.pc \in {"forget", "keys"} /\ (s.op = "adopt" => s.pc = "forget")
      BY <1>2, <3>1 DEF Emptying
    <3>6. ErasureKept(s)'
      BY <3>4, <3>5 DEF ErasureKept, Emptying, Moving
    <3> QED BY <3>6 DEF ErasureKept, Emptying, Moving
  <2> QED BY <2>1, <2>2
<1>10. ASSUME NEW v \in Workers PROVE FileKept(worker[v])'
  <2> PICK s : s = worker'[v]
    OBVIOUS
  <2>1. FileKept(s)
    <3>1. FileKept(q)
      BY <1>1, <1>2 DEF FileKept, Emptying
    <3> QED BY <1>4, <3>1 DEF Settled
  <2> QED BY <2>1 DEF FileKept, OwnedBy, Emptying
<1>11. Homes' /\ Numbered' /\ There'
  BY DEF Settled, Homes, Numbered, There, HasAccount
<1> QED BY <1>5, <1>6, <1>7, <1>8, <1>9, <1>10, <1>11 DEF Settled

LEMMA FewerClash ==
  ASSUME ~Clash(worker), \A v \in Workers : worker'[v] = worker[v] \/ worker'[v] = Idle
  PROVE  ~Clash(worker')
<1>1. Dooms(Idle) = {} /\ ActsFor(Idle) = {}
  BY IdleOK DEF Dooms, ActsFor
<1>2. ASSUME NEW v \in Workers, NEW w \in Workers, v # w
      PROVE  Dooms(worker'[v]) \intersect ActsFor(worker'[w]) = {}
  <2>1. Dooms(worker[v]) \intersect ActsFor(worker[w]) = {}
    BY <1>2 DEF Clash
  <2>2. Dooms(worker'[v]) = Dooms(worker[v]) \/ Dooms(worker'[v]) = {}
    BY <1>1
  <2>3. ActsFor(worker'[w]) = ActsFor(worker[w]) \/ ActsFor(worker'[w]) = {}
    BY <1>1
  <2> QED BY <2>1, <2>2, <2>3
<1> QED BY <1>2 DEF Clash

\* The keys of one table's rows.
LEMMA DoomSettles ==
  ASSUME FitInv, Settled, NEW w \in Workers, worker[w].pc \in {"keys", "memos", "photos"},
         NEW pc \in {"memos", "photos", "erase"}, NEW table, Doom(w, pc, table), ~torn',
         UNCHANGED <<users, cache, lastSeq, files, objects, crossed, lost>>
  PROVE  Settled'
<1> DEFINE r == worker[w]
           q == [r EXCEPT !.pc = pc, !.doomed = @ \union DoomedKeys(r.from, table)]
<1>1. /\ r \in Request /\ StageOK(w, r) /\ Become(w, q)
      /\ AccountKept(r) /\ ErasureKept(r) /\ FileKept(r)
  BY RequestFit DEF Doom, Settled
<1>2. /\ q.op = r.op /\ q.uid = r.uid /\ q.id = r.id /\ q.listed = r.listed
      /\ q.pc = pc /\ q.victim = r.victim /\ q.from = r.from
      /\ q.doomed = r.doomed \union DoomedKeys(r.from, table)
  BY <1>1 DEF Request
<1> HIDE DEF q
<1>3. AccountKept(q)
  BY <1>1, <1>2 DEF AccountKept, Acting
<1>4. ErasureKept(q)
  BY <1>1, <1>2 DEF ErasureKept, Emptying, Moving
<1>5. FileKept(q)
  <2>1. ASSUME NEW k \in q.doomed \ crossed, NEW f \in Files, files[f] # None, files[f].key = k
        PROVE  files[f].owner = q.from
    <3>1. CASE k \in r.doomed
      BY <1>1, <1>2, <2>1, <3>1 DEF FileKept
    <3>2. CASE k \in DoomedKeys(r.from, table)
      <4>1. PICK g \in OwnedBy(r.from) : k = files[g].key /\ k # None
        BY <3>2 DEF DoomedKeys
      <4>2. k.file = g /\ k.file = f
        BY <2>1, <4>1, FitParts DEF OwnedBy, RowsFit, MadeFor
      <4> QED BY <1>2, <4>1, <4>2 DEF OwnedBy
    <3> QED BY <1>2, <2>1, <3>1, <3>2
  <2>2. q.op # "confirm"
    BY <1>1, <1>2 DEF StageOK, Erasing, Moving, Emptying
  <2> QED BY <1>2, <2>1, <2>2 DEF FileKept, Emptying
<1>6. \A u \in Uids : ~Dropping(r, u)
  BY <1>1 DEF Dropping
<1> QED BY <1>1, <1>2, <1>3, <1>4, <1>5, <1>6, QuietSettles

LEMMA KeysSettles ==
  ASSUME FitInv, Settled, NEW w \in Workers, EraseKeys(w), ~torn'
  PROVE  Settled'
<1>1. UNCHANGED <<users, cache, lastSeq, files, objects, crossed, lost>>
  BY DEF EraseKeys, tables, bucket
<1>2. \E pc \in {"memos", "photos", "erase"}, table \in {Attachments, VoiceNotes} :
        worker[w].pc \in {"keys", "memos", "photos"} /\ Doom(w, pc, table)
  BY DEF EraseKeys
<1> QED BY <1>1, <1>2, DoomSettles

\* The first table's rows, all the account has there.
LEMMA EraseFirstSettles ==
  ASSUME FitInv, Settled, NEW w \in Workers, EraseFirst(w), ~torn'
  PROVE  Settled'
<1> DEFINE r == worker[w]
           rows == OwnedBy(r.from) \intersect VoiceNotes
           q == [r EXCEPT !.pc = "rest", !.rows = rows]
<1>1. /\ r \in Request /\ StageOK(w, r) /\ r.pc = "erase" /\ Become(w, q)
      /\ AccountKept(r) /\ ErasureKept(r) /\ FileKept(r)
      /\ UNCHANGED <<users, cache, lastSeq, files, objects, crossed, lost>>
  BY RequestFit DEF EraseFirst, Erased, Settled, tables, bucket
<1>2. /\ q.op = r.op /\ q.uid = r.uid /\ q.id = r.id /\ q.listed = r.listed
      /\ q.pc = "rest" /\ q.victim = r.victim /\ q.from = r.from
      /\ q.doomed = r.doomed /\ q.rows = rows
  BY <1>1 DEF Request
<1> HIDE DEF q
<1>3. AccountKept(q)
  BY <1>1, <1>2 DEF AccountKept, Acting
<1>4. ErasureKept(q)
  BY <1>1, <1>2 DEF ErasureKept, Emptying, Moving
<1>5. FileKept(q)
  <2>1. q.op # "confirm"
    BY <1>1, <1>2 DEF StageOK, Erasing, Emptying
  <2> QED BY <1>1, <1>2, <2>1 DEF FileKept, Emptying
<1>6. \A u \in Uids : ~Dropping(r, u)
  BY <1>1 DEF Dropping
<1> QED BY <1>1, <1>2, <1>3, <1>4, <1>5, <1>6, QuietSettles

LEMMA EraseRowsSettles ==
  ASSUME GuestInv, Settled, NEW w \in Workers, EraseRows(w), ~torn'
  PROVE  Settled'
<1> DEFINE r == worker[w]
<1>1. /\ r \in Request /\ StageOK(w, r) /\ SubjectOK(r) /\ r.pc = "rest" /\ FitInv /\ RowsFit
      /\ AccountKept(r) /\ ErasureKept(r)
  BY RequestFit, FitParts DEF EraseRows, GuestInv, Settled
<1>2. r.op \in {"delete", "adopt", "sweep"} /\ r.victim \in Uids
  BY <1>1 DEF StageOK, Erasing, Moving, Emptying, SubjectOK
<1>3. CASE ~Is(r.victim, r.from)
  <2>1. Finish(w) /\ UNCHANGED <<users, cache, lastSeq, files, objects, crossed, lost>>
    BY <1>3 DEF EraseRows, Is, tables, bucket
  <2>2. \A u \in Uids : ~Dropping(r, u)
    BY <1>1 DEF Dropping
  <2> QED BY <1>1, <2>1, <2>2, FinishSettles
<1>4. CASE Is(r.victim, r.from)
  <2>1. /\ Commit(r) /\ UNCHANGED <<cache, objects, crossed, lost>>
        /\ \E q : ErasedNext(r, q) /\ Become(w, q)
    BY <1>1, <1>4, EraseRowsGives
  <2>2. PICK q : ErasedNext(r, q) /\ Become(w, q)
    BY <2>1
  <2>3. worker' = [worker EXCEPT ![w] = q] /\ ~Clash(worker')
    BY <2>2, BecomesApart DEF Become
  <2>4. AccountKept(q) /\ ErasureKept(q) /\ Onwards(r, q)
    BY <1>1, <1>2, <2>2, ErasedNextSettled
  <2>5. cache[r.victim] # None => r.op = "adopt"
    <3>1. r.op = "delete" => cache[r.victim] = None
      BY <1>1 DEF ErasureKept, SubjectOK, Erasing, Moving, Emptying
    <3>2. r.op = "sweep" => cache[r.victim] = None
      BY <1>1, <1>2 DEF ErasureKept, Stands, Unseen, Is, GuestInv, GuestOK, Emptying, Moving
    <3> QED BY <1>2, <3>1, <3>2
  <2>6. cache[r.victim] # None => Dropping(q, r.victim) /\ q.from = r.from
    BY <2>4, <2>5 DEF Onwards, Dropping
  <2> QED BY <1>1, <1>4, <2>1, <2>3, <2>4, <2>6, CommitSettles
<1> QED BY <1>3, <1>4

LEMMA UnheardSettles ==
  ASSUME FitInv, Settled, NEW w \in Workers, EraseUnheard(w), ~torn'
  PROVE  Settled'
<1> DEFINE r == worker[w]
<1>1. /\ r.pc = "rest" /\ Is(r.victim, r.from) /\ Commit(r) /\ Become(w, Idle)
      /\ UNCHANGED <<cache, objects, crossed>>
      /\ lost \subseteq lost' /\ r.from \in lost'
  BY DEF EraseUnheard, Finish, Is, bucket
<1>2. worker' = [worker EXCEPT ![w] = Idle] /\ ~Clash(worker')
  BY <1>1, BecomesApart DEF Become
<1> QED BY <1>1, <1>2, IdleKept, CommitSettles

\* An adoption ends by dropping what the guest's requests had cached.
LEMMA ForgottenSettles ==
  ASSUME FitInv, Settled, NEW w \in Workers, Finish(w), ~torn',
         UNCHANGED <<users, lastSeq, files, objects, crossed, lost>>,
         \A u \in Uids : cache'[u] = cache[u] \/ cache'[u] = None,
         cache'[worker[w].victim] = None
  PROVE  Settled'
<1>1. worker'[w] = Idle /\ \A v \in Workers : v # w => worker'[v] = worker[v]
  BY FitParts, Becomes DEF WorkersFit, Finish
<1>2. ~Clash(worker')
  BY BecomesApart DEF Finish
<1>3. CacheOK'
  <2> SUFFICES ASSUME NEW u \in Uids, cache'[u] # None
               PROVE  \/ Is(u, cache[u].id)' \/ cache'[u].id \in lost'
                      \/ \E v \in Workers : Dropping(worker'[v], u) /\ worker'[v].from = cache'[u].id
    BY DEF CacheOK, Dropping
  <2>1. cache'[u] = cache[u] /\ u # worker[w].victim
    OBVIOUS
  <2>2. \/ Is(u, cache[u].id) \/ cache[u].id \in lost
        \/ \E v \in Workers : Dropping(worker[v], u) /\ worker[v].from = cache[u].id
    BY <2>1 DEF Settled, CacheOK
  <2>3. ASSUME NEW v \in Workers, Dropping(worker[v], u), worker[v].from = cache[u].id
        PROVE  \E x \in Workers : Dropping(worker'[x], u) /\ worker'[x].from = cache'[u].id
    <3>1. v # w
      BY <2>1, <2>3 DEF Dropping
    <3> QED BY <1>1, <2>1, <2>3, <3>1
  <2>4. CASE Is(u, cache[u].id)
    BY <2>1, <2>4 DEF Is
  <2> QED BY <2>2, <2>3, <2>4
<1>4. WritersApart'
  BY <1>1, IdleOK DEF Settled, WritersApart
<1>5. ASSUME NEW v \in Workers
      PROVE  AccountKept(worker[v])' /\ ErasureKept(worker[v])' /\ FileKept(worker[v])'
  <2> PICK s : s = worker'[v]
    OBVIOUS
  <2>1. AccountKept(s) /\ ErasureKept(s) /\ FileKept(s)
    BY <1>1, IdleKept DEF Settled
  <2>2. s.op = "delete" => s.uid \in Uids
    BY <1>1, IdleOK, RequestFit DEF SubjectOK, Operations
  <2>3. AccountKept(s)'
    BY <2>1 DEF AccountKept, Is
  <2>4. ErasureKept(s)'
    <3>1. \A id : RowsOf(id)
      BY DEF RowsOf
    <3>2. s.op = "delete" /\ s.pc \in Emptying => cache'[s.uid] = None
      BY <2>1, <2>2 DEF ErasureKept, Emptying, Moving
    <3> QED BY <2>1, <3>1, <3>2, ErasureHolds
  <2>5. FileKept(s)'
    BY <2>1 DEF FileKept, OwnedBy, Emptying
  <2> QED BY <2>3, <2>4, <2>5 DEF AccountKept, Acting, Is, ErasureKept, FileKept, Emptying, Moving
<1>6. Homes' /\ Numbered' /\ There'
  BY DEF Settled, Homes, Numbered, There, HasAccount
<1> QED BY <1>2, <1>3, <1>4, <1>5, <1>6 DEF Settled

LEMMA ObjectSettles ==
  ASSUME FitInv, Settled, NEW w \in Workers, EraseObject(w), ~torn'
  PROVE  Settled'
<1> DEFINE r == worker[w]
<1>1. /\ r \in Request /\ StageOK(w, r) /\ SubjectOK(r) /\ r.pc = "objects" /\ RowsFit
      /\ AccountKept(r) /\ ErasureKept(r) /\ FileKept(r)
      /\ UNCHANGED <<users, cache, lastSeq, files, crossed, lost>>
  BY RequestFit, FitParts, EraseObjectGives DEF Settled
<1>2. r.op \in {"delete", "adopt", "sweep"}
  BY <1>1 DEF StageOK, Erasing, Moving, Emptying
<1>3. PICK k \in r.doomed : \E q, s :
        /\ s \in Request /\ s.pc = "objects" /\ s.op = r.op /\ s.uid = r.uid /\ s.id = r.id
        /\ s.victim = r.victim /\ s.from = r.from /\ s.listed = r.listed
        /\ s.doomed = r.doomed \ {k} /\ SubjectOK(s)
        /\ objects' \in {objects, objects \ {k}}
        /\ ErasedNext(s, q) /\ Become(w, q) /\ Kept(r, q)
  BY EraseObjectGives
<1>4. PICK q, s :
        /\ s \in Request /\ s.pc = "objects" /\ s.op = r.op /\ s.uid = r.uid /\ s.id = r.id
        /\ s.victim = r.victim /\ s.from = r.from /\ s.listed = r.listed
        /\ s.doomed = r.doomed \ {k} /\ SubjectOK(s)
        /\ objects' \in {objects, objects \ {k}}
        /\ ErasedNext(s, q) /\ Become(w, q)
  BY <1>3
<1>5. AccountKept(s)
  BY <1>1, <1>4 DEF AccountKept, Acting
<1>6. ErasureKept(s)
  BY <1>1, <1>4 DEF ErasureKept, Emptying, Moving
<1>7. AccountKept(q) /\ ErasureKept(q) /\ Onwards(s, q)
  BY <1>1, <1>2, <1>4, <1>5, <1>6, ErasedNextSettled
<1>8. /\ q.op # "confirm" /\ q.pc \in {"objects", "firebase", "idle"}
      /\ q.doomed \subseteq r.doomed
  BY <1>2, <1>4, <1>7 DEF Onwards
<1>9. \A j \in r.doomed \ crossed, f \in Files : files[f] # None => files[f].key # j
  BY <1>1 DEF FileKept, Emptying
<1>10. FileKept(q)
  BY <1>8, <1>9 DEF FileKept, Emptying
<1>11. There'
  <2>1. There
    BY DEF Settled
  <2> QED BY <1>1, <1>4, <1>9, <2>1 DEF There
<1>12. ASSUME NEW v \in Workers \ {w} PROVE Confirmed(worker[v])'
  <2> PICK x : x = worker[v] /\ x = worker'[v]
    BY <1>4, FitParts, Becomes DEF WorkersFit
  <2>1. FileKept(x) /\ Apart(r, x) /\ SubjectOK(x)
    BY ClashApart, RequestFit DEF Settled
  <2>2. ASSUME x.op = "confirm", x.pc \in {"find", "number", "write"}
        PROVE  x.key \in objects'
    <3>1. x.key \in objects
      BY <2>1, <2>2 DEF FileKept, Emptying
    <3>2. x.key.account = x.id /\ x.id # 0
      BY <2>1, <2>2, KnownRequest DEF SubjectOK
    <3>3. x.key # k
      BY <2>1, <3>2 DEF Apart
    <3> QED BY <1>4, <3>1, <3>3
  <2> QED BY <2>2 DEF Confirmed
<1>13. \A u \in Uids : Dropping(r, u) => Dropping(q, u) /\ q.from = r.from
  BY <1>4, <1>7 DEF Onwards, Dropping
<1> QED BY <1>1, <1>4, <1>7, <1>8, <1>10, <1>11, <1>12, <1>13, QuietSettles

LEMMA EraseSettles ==
  ASSUME GuestInv, Settled, NEW w \in Workers, EraseStep(w), ~torn'
  PROVE  Settled'
<1> DEFINE r == worker[w]
<1>1. /\ FitInv /\ r \in Request /\ StageOK(w, r) /\ SubjectOK(r) /\ RowsFit
  BY RequestFit, FitParts DEF GuestInv
<1>2. r.pc \in Erasing => r.op \in {"delete", "adopt", "sweep"} /\ r.victim \in Uids
  BY <1>1 DEF StageOK, SubjectOK
<1>3. CASE FirebaseDelete(w)
  <2>1. /\ r.pc = "firebase" /\ UNCHANGED <<users, cache, lastSeq, files, objects, crossed, lost>>
        /\ Goto(w, "forget") \/ (Finish(w))
    BY <1>3 DEF FirebaseDelete, tables, bucket
  <2>2. \A u \in Uids : Finish(w) => ~Dropping(r, u)
    <3>1. CASE r.op # "adopt"
      BY <3>1 DEF Dropping
    <3>2. CASE r.op = "adopt"
      <4>1. Goto(w, "forget")
        BY <1>3, <3>2 DEF FirebaseDelete, Tolerant
      <4>2. ASSUME Finish(w) PROVE FALSE
        <5>1. Become(w, Idle) /\ Become(w, [r EXCEPT !.pc = "forget"])
          BY <4>1, <4>2 DEF Finish, Goto
        <5>2. worker'[w] = Idle /\ worker'[w] = [r EXCEPT !.pc = "forget"]
          BY <1>1, <5>1, FitParts DEF WorkersFit, Become
        <5> QED BY <1>1, <5>2, IdleOK DEF Request
      <4> QED BY <4>2
    <3> QED BY <3>1, <3>2
  <2>3. CASE Finish(w)
    BY <1>1, <2>1, <2>2, <2>3, FinishSettles
  <2>4. CASE Goto(w, "forget")
    BY <1>1, <1>2, <2>1, <2>4, OnSettles DEF Erasing, Moving, Emptying
  <2> QED BY <2>1, <2>3, <2>4
<1>4. CASE Forget(w)
  <2>1. /\ r.pc = "forget" /\ UNCHANGED <<users, lastSeq, files, objects, crossed, lost>>
        /\ cache' = IF w = Sweeper THEN cache ELSE [cache EXCEPT ![r.victim] = None]
        /\ r.op = "adopt" => Finish(w)
        /\ r.op # "adopt" => Goto(w, "keys")
    BY <1>4 DEF Forget, tables, bucket
  <2>2. /\ r.op \in {"delete", "adopt", "sweep"} /\ r.victim \in Uids
        /\ \A u \in Uids : cache'[u] = cache[u] \/ cache'[u] = None
        /\ r.op = "delete" => r.victim = r.uid
        /\ r.op \in {"delete", "adopt"} => w # Sweeper /\ cache'[r.victim] = None
    <3>1. r.op \in {"delete", "adopt"} => w # Sweeper
      BY <1>1, UidsOK DEF StageOK, Operations
    <3>2. r.op = "delete" => r.victim = r.uid
      BY <1>1, <2>1 DEF SubjectOK, Erasing, Moving, Emptying
    <3> QED BY <1>1, <1>2, <2>1, <3>1, <3>2 DEF Erasing, Moving, Emptying, RowsFit
  <2>3. CASE r.op # "adopt"
    BY <1>1, <2>1, <2>2, <2>3, OnSettles
  <2>4. CASE r.op = "adopt"
    BY <1>1, <2>1, <2>2, <2>4, ForgottenSettles
  <2> QED BY <2>3, <2>4
<1>5. CASE EraseKeys(w)
  BY <1>1, <1>5, KeysSettles
<1>6. CASE EraseFirst(w)
  BY <1>1, <1>6, EraseFirstSettles
<1>7. CASE EraseRows(w)
  BY <1>7, EraseRowsSettles
<1>8. CASE EraseObject(w)
  BY <1>1, <1>8, ObjectSettles
<1> QED BY <1>3, <1>4, <1>5, <1>6, <1>7, <1>8 DEF EraseStep

LEMMA SweepSettles ==
  ASSUME FitInv, Settled, SweepList, ~torn'
  PROVE  Settled'
<1> DEFINE L == {[uid |-> u, id |-> users[u].id] : u \in {v \in Uids : Abandoned(v)}}
<1>1. /\ L \in SUBSET Listed /\ worker[Sweeper] = Idle
      /\ UNCHANGED <<users, cache, lastSeq, files, objects, crossed, lost>>
      /\ \E q : SweptNext(L, q) /\ Become(Sweeper, q)
  BY SweepListGives
<1>2. \A d \in L : Stands(d.uid, d.id)
  BY DEF Abandoned, Stands, Unseen, Is
<1> HIDE DEF L
<1>3. PICK q : SweptNext(L, q) /\ Become(Sweeper, q)
  BY <1>1
<1>4. RowsFit /\ Sweeper \in Workers
  BY FitParts, UidsOK
<1>5. /\ AccountKept(q) /\ ErasureKept(q) /\ FileKept(q) /\ q.pc \in {"idle", "firebase"}
  BY <1>1, <1>2, <1>3, <1>4, SweptNextKept
<1>6. \A u \in Uids : ~Dropping(worker[Sweeper], u)
  BY <1>1, IdleKept
<1> QED BY <1>1, <1>3, <1>4, <1>5, <1>6, QuietSettles

LEMMA UpsertSettles ==
  ASSUME FitInv, Settled, NEW w \in Workers, Upsert(w), ~torn'
  PROVE  Settled'
<1> DEFINE r == worker[w]
           fresh == users[r.uid] = None
           id == IF fresh THEN Len(lastSeq) + 1 ELSE users[r.uid].id
           q == [r EXCEPT !.pc = "remember", !.id = id]
<1>1. /\ r.pc = "upsert" /\ Become(w, q) /\ UNCHANGED <<files, cache, objects, crossed, lost>>
      /\ r \in Request /\ StageOK(w, r) /\ RowsFit
  BY RequestFit, FitParts DEF Upsert, bucket
<1>2. /\ r.uid \in Uids /\ r.op \in Operations /\ id \in Nat /\ id # 0
      /\ users'[r.uid] = [id |-> id, anonymous |-> r.anonymous, seen |-> TRUE]
      /\ \A u \in Uids : u # r.uid => users'[u] = users[u]
      /\ id \in DOMAIN lastSeq' /\ DOMAIN lastSeq \subseteq DOMAIN lastSeq'
      /\ \A i \in DOMAIN lastSeq' :
           lastSeq'[i] = IF i \in DOMAIN lastSeq THEN lastSeq[i] ELSE 0
  BY UpsertRows
<1>3. users'[r.uid] # None /\ users'[r.uid].id = id
  <2>1. r.anonymous \in BOOLEAN
    BY <1>1 DEF Request
  <2>2. PICK x : x = users'[r.uid]
    OBVIOUS
  <2> HIDE DEF r, id
  <2>3. x \in User /\ x.id = id
    BY <1>2, <2>1, <2>2 DEF User
  <2> QED BY <2>2, <2>3, NoneApart
<1>4. /\ q.op = r.op /\ q.uid = r.uid /\ q.id = id /\ q.doomed = r.doomed /\ q.listed = r.listed
      /\ q.pc = "remember" /\ q.from = r.from
  BY <1>1 DEF Request
<1>5. ~fresh => id = users[r.uid].id
  OBVIOUS
<1> HIDE DEF q, id, fresh
<1>6. worker'[w] = q /\ \A v \in Workers : v # w => worker'[v] = worker[v]
  BY <1>1, FitParts, Becomes DEF WorkersFit
<1>7. ~Clash(worker')
  BY <1>1, BecomesApart
<1>8. ASSUME NEW u \in Uids, NEW n, Is(u, n)
      PROVE  Is(u, n)'
  BY <1>2, <1>3, <1>5, <1>8 DEF Is, fresh
<1>9. ASSUME NEW v \in Workers, v # w
      PROVE  Apart(worker[v], q)
  BY <1>6, <1>7, <1>9, ClashApart
<1>10. \A u \in Uids : ~Dropping(r, u)
  BY <1>1 DEF Dropping
<1>11. CacheOK'
  <2> SUFFICES ASSUME NEW u \in Uids, cache'[u] # None
               PROVE  \/ Is(u, cache[u].id)' \/ cache'[u].id \in lost'
                      \/ \E v \in Workers : Dropping(worker'[v], u) /\ worker'[v].from = cache'[u].id
    BY DEF CacheOK, Dropping
  <2>1. \/ Is(u, cache[u].id) \/ cache[u].id \in lost
        \/ \E v \in Workers : Dropping(worker[v], u) /\ worker[v].from = cache[u].id
    BY <1>1 DEF Settled, CacheOK
  <2>2. CASE Is(u, cache[u].id)
    <3> PICK n : n = cache[u].id /\ n = cache'[u].id
      BY <1>1
    <3>1. Is(u, n)'
      BY <1>8, <2>2
    <3> QED BY <3>1 DEF Is
  <2> QED BY <1>1, <1>6, <1>10, <2>1, <2>2
<1>12. WritersApart'
  BY <1>4, <1>6 DEF Settled, WritersApart
<1>13. ASSUME NEW v \in Workers PROVE AccountKept(worker[v])'
  <2> PICK s : s = worker'[v]
    OBVIOUS
  <2>1. Acting(s) => (s.op = "delete" /\ s.pc = "objects") \/ Is(s.uid, s.id)'
    <3>1. CASE v # w
      <4>1. s = worker[v] /\ AccountKept(s) /\ (Acting(s) => s.uid \in Uids)
        BY <1>6, <3>1, RequestFit DEF Settled, SubjectOK, Acting
      <4> QED BY <1>8, <4>1 DEF AccountKept
    <3>2. CASE v = w
      <4>1. s.uid = r.uid /\ s.id = id
        BY <1>4, <1>6, <3>2
      <4> QED BY <1>3, <4>1 DEF Is
    <3> QED BY <3>1, <3>2
  <2> QED BY <2>1 DEF AccountKept, Acting, Is
<1>14. ASSUME NEW v \in Workers PROVE ErasureKept(worker[v])'
  <2>1. CASE v # w
    <3> DEFINE s == worker[v]
    <3>1. /\ ErasureKept(s) /\ worker'[v] = s /\ Apart(s, q) /\ SubjectOK(s) /\ s \in Request
          /\ s.op = "sweep" => s.from # 0 /\ s.pc \in Erasing
          /\ \A d \in s.listed : d.id # 0
      BY <1>6, <1>9, <2>1, RequestFit, KnownRequest DEF Settled, StageOK
    <3> HIDE DEF s
    <3>2. s.op = "sweep" /\ s.pc # "objects" => users'[s.victim] = users[s.victim]
      <4>1. ASSUME s.op = "sweep", s.pc # "objects"
            PROVE  s.victim # r.uid /\ s.victim \in Uids
        <5>1. Is(s.victim, s.from) /\ s.from # id
          BY <1>4, <3>1, <4>1 DEF ErasureKept, Stands, Unseen, Apart, Emptying, Moving
        <5> QED BY <1>5, <3>1, <4>1, <5>1 DEF Is, fresh, SubjectOK
      <4> QED BY <1>2, <4>1
    <3>3. \A d \in s.listed : users'[d.uid] = users[d.uid]
      <4>1. ASSUME NEW d \in s.listed
            PROVE  d.uid # r.uid /\ d.uid \in Uids
        <5>1. Is(d.uid, d.id) /\ d.id # id
          BY <1>4, <3>1, <4>1 DEF ErasureKept, Stands, Unseen, Apart, Emptying, Moving
        <5> QED BY <1>5, <3>1, <4>1, <5>1 DEF Is, fresh, Request
      <4> QED BY <1>2, <4>1
    <3>4. \A n : RowsOf(n)
      BY <1>1 DEF RowsOf
    <3>5. s.op = "delete" /\ s.pc \in Emptying => cache'[s.uid] = None
      BY <1>1, <3>1 DEF ErasureKept, Emptying, Moving
    <3> QED BY <3>1, <3>2, <3>3, <3>4, <3>5, ErasureStays DEF s
  <2>2. CASE v = w
    <3> PICK s : s = worker'[v] /\ s = q
      BY <1>6, <2>2
    <3>1. s.pc = "remember" /\ s.listed = {} /\ s.op # "sweep"
      BY <1>1, <1>2, <1>4, KnownRequest DEF Operations
    <3> QED BY <3>1 DEF ErasureKept, Emptying, Moving
  <2> QED BY <2>1, <2>2
<1>15. ASSUME NEW v \in Workers PROVE FileKept(worker[v])'
  <2> PICK s : s = worker'[v]
    OBVIOUS
  <2>1. FileKept(s)
    <3>1. FileKept(q)
      <4>1. FileKept(r)
        BY DEF Settled
      <4> QED BY <1>1, <1>4, <4>1 DEF FileKept, Emptying
    <3> QED BY <1>6, <3>1 DEF Settled
  <2>2. s.pc = "write" => s.seq \in 1..lastSeq'[s.id]
    <3>1. s.pc = "write" => Known(s.id)
      BY <1>4, <1>6, KnownRequest
    <3> QED BY <1>2, <2>1, <3>1 DEF FileKept, Known, Emptying
  <2> QED BY <1>1, <2>1, <2>2 DEF FileKept, OwnedBy, Emptying
<1>16. Homes'
  <2>1. ASSUME NEW n, HasAccount(n)
        PROVE  HasAccount(n)'
    <3>1. PICK u \in Uids : Is(u, n)
      BY <2>1 DEF HasAccount, Is
    <3>2. Is(u, n)'
      BY <1>8, <3>1
    <3> QED BY <3>2 DEF HasAccount, Is
  <2>2. ASSUME NEW g \in Files, files'[g] # None
        PROVE  HasAccount(files[g].owner)'
    <3> PICK n : n = files[g].owner /\ n = files'[g].owner
      BY <1>1
    <3>1. HasAccount(n)'
      BY <1>1, <2>1, <2>2 DEF Settled, Homes
    <3> QED BY <3>1 DEF HasAccount
  <2>3. ASSUME NEW n \in DOMAIN lastSeq', lastSeq'[n] # 0
        PROVE  HasAccount(n)'
    BY <1>2, <2>1, <2>3 DEF Settled, Homes
  <2> QED BY <2>2, <2>3 DEF Homes, HasAccount
<1>17. Numbered' /\ There'
  <2>1. \A f \in Files : files[f] # None => lastSeq'[files[f].owner] = lastSeq[files[f].owner]
    BY <1>1, <1>2 DEF RowsFit, Known
  <2> QED BY <1>1, <2>1 DEF Settled, Numbered, There
<1> QED BY <1>7, <1>11, <1>12, <1>13, <1>14, <1>15, <1>16, <1>17 DEF Settled

\* What is cached is the account the upsert answered with, if it is there still.
LEMMA RememberSettles ==
  ASSUME FitInv, Settled, NEW w \in Workers, Remember(w), ~torn'
  PROVE  Settled'
<1> DEFINE r == worker[w]
           q == [r EXCEPT !.pc = "begin"]
<1>1. /\ r.pc = "remember" /\ Become(w, q) /\ UNCHANGED <<users, lastSeq, files, objects, crossed, lost>>
      /\ cache' = [cache EXCEPT ![r.uid] = [id |-> r.id, anonymous |-> r.anonymous]]
      /\ r \in Request /\ StageOK(w, r) /\ SubjectOK(r) /\ RowsFit
      /\ AccountKept(r)
  BY RequestFit, FitParts DEF Remember, Goto, tables, bucket, Settled
<1>2. r.op \in Operations /\ Acting(r) /\ r.uid \in Uids /\ Is(r.uid, r.id) /\ r.id # 0
  <2>1. r.op \in Operations
    BY <1>1, IdleOK DEF StageOK, Request, Erasing, Moving, Emptying
  <2> QED BY <1>1, <2>1, KnownRequest DEF Acting, SubjectOK, AccountKept
<1>3. cache'[r.uid].id = r.id /\ \A u \in Uids : u # r.uid => cache'[u] = cache[u]
  BY <1>1, <1>2 DEF RowsFit
<1>4. /\ q.op = r.op /\ q.uid = r.uid /\ q.id = r.id /\ q.doomed = r.doomed
      /\ q.listed = r.listed /\ q.pc = "begin" /\ q.from = r.from
  BY <1>1 DEF Request
<1> HIDE DEF q
<1>5. worker'[w] = q /\ \A v \in Workers : v # w => worker'[v] = worker[v]
  BY <1>1, FitParts, Becomes DEF WorkersFit
<1>6. ~Clash(worker')
  BY <1>1, BecomesApart
<1>7. \A u \in Uids : ~Dropping(r, u)
  BY <1>1 DEF Dropping
<1>8. CacheOK'
  <2> SUFFICES ASSUME NEW u \in Uids, cache'[u] # None
               PROVE  \/ Is(u, cache[u].id)' \/ cache'[u].id \in lost'
                      \/ \E v \in Workers : Dropping(worker'[v], u) /\ worker'[v].from = cache'[u].id
    BY DEF CacheOK, Dropping
  <2>1. CASE u = r.uid
    BY <1>1, <1>2, <1>3, <2>1 DEF Is
  <2>2. CASE u # r.uid
    <3>1. \/ Is(u, cache[u].id) \/ cache[u].id \in lost
          \/ \E v \in Workers : Dropping(worker[v], u) /\ worker[v].from = cache[u].id
      BY <1>3, <2>2 DEF Settled, CacheOK
    <3> QED BY <1>1, <1>3, <1>5, <1>7, <2>2, <3>1 DEF Is
  <2> QED BY <2>1, <2>2
<1>9. WritersApart'
  BY <1>4, <1>5 DEF Settled, WritersApart
<1>10. ASSUME NEW v \in Workers
       PROVE  AccountKept(worker[v])' /\ ErasureKept(worker[v])' /\ FileKept(worker[v])'
  <2> PICK s : s = worker'[v]
    OBVIOUS
  <2>1. AccountKept(s) /\ ErasureKept(s) /\ FileKept(s)
    <3>1. CASE v # w
      BY <1>5, <3>1 DEF Settled
    <3>2. CASE v = w
      <4> PICK t : t = r
        OBVIOUS
      <4>1. AccountKept(t) /\ ErasureKept(t) /\ FileKept(t)
        BY DEF Settled
      <4> QED BY <1>1, <1>2, <1>4, <1>5, <3>2, <4>1, KnownRequest
             DEF AccountKept, ErasureKept, FileKept, Acting, Operations, Emptying, Moving
    <3> QED BY <3>1, <3>2
  <2>2. s.op = "delete" /\ s.pc \in Emptying => cache'[s.uid] = None
    <3> SUFFICES ASSUME s.op = "delete", s.pc \in Emptying
                 PROVE  cache'[s.uid] = None
      OBVIOUS
    <3>1. v # w /\ s = worker[v]
      BY <1>4, <1>5 DEF Emptying
    <3>2. /\ Acting(s) /\ Is(s.uid, s.id) /\ s.uid \in Uids /\ s.from = s.id /\ s.from # 0
      BY <2>1, <3>1, RequestFit, KnownRequest
         DEF Acting, Operations, AccountKept, SubjectOK, Erasing, Moving, Emptying
    <3>3. r.id # s.from
      BY <3>1, <3>2, ClashApart DEF Settled, Apart
    <3>4. s.uid # r.uid
      BY <1>2, <3>2, <3>3 DEF Is
    <3> QED BY <1>3, <2>1, <3>2, <3>4 DEF ErasureKept, Emptying, Moving
  <2>3. AccountKept(s)'
    BY <1>1, <2>1 DEF AccountKept, Is
  <2>4. ErasureKept(s)'
    <3>1. \A id : RowsOf(id)
      BY <1>1 DEF RowsOf
    <3> QED BY <1>1, <2>1, <2>2, <3>1, ErasureHolds
  <2>5. FileKept(s)'
    BY <1>1, <2>1 DEF FileKept, OwnedBy, Emptying
  <2> QED BY <2>3, <2>4, <2>5 DEF AccountKept, Acting, Is, ErasureKept, FileKept, Emptying, Moving
<1>11. Homes' /\ Numbered' /\ There'
  BY <1>1 DEF Settled, Homes, Numbered, There, HasAccount
<1> QED BY <1>6, <1>8, <1>9, <1>10, <1>11 DEF Settled

\* Neither a sign-in linked, nor an object put, nor a month gone by disturbs
\* what requests know.
LEMMA LinkSettles ==
  ASSUME Settled, UNCHANGED <<users, cache, lastSeq, files, crossed, lost, worker>>,
         objects \subseteq objects'
  PROVE  Settled'
<1>1. ~Clash(worker') /\ CacheOK' /\ WritersApart'
  BY DEF Settled, Clash, CacheOK, Is, Dropping, WritersApart
<1>2. ASSUME NEW w \in Workers
      PROVE  AccountKept(worker[w])' /\ ErasureKept(worker[w])' /\ FileKept(worker[w])'
  <2>1. AccountKept(worker[w])' /\ ErasureKept(worker[w])'
    BY DEF Settled, AccountKept, Acting, Is, ErasureKept, Stands, Unseen, OwnedBy, LiveOf, Emptying, Moving
  <2>2. FileKept(worker[w])'
    <3>1. FileKept(worker[w])
      BY DEF Settled
    <3> QED BY <3>1 DEF FileKept, OwnedBy, Emptying
  <2> QED BY <2>1, <2>2
<1>3. Homes' /\ Numbered' /\ There'
  BY DEF Settled, Homes, Numbered, There, HasAccount
<1> QED BY <1>1, <1>2, <1>3 DEF Settled

LEMMA AroundSettles ==
  ASSUME FitInv, Settled, Around
  PROVE  Settled'
<1>1. RowsFit
  BY FitParts
<1>2. ASSUME NEW u \in Uids, Link(u)
      PROVE  Settled'
  BY <1>2, LinkSettles DEF Link, tables, bucket
<1>3. ASSUME NEW k, Put(k)
      PROVE  Settled'
  BY <1>3, LinkSettles DEF Put, tables
<1>4. ASSUME NEW v \in Uids, Month(v)
      PROVE  Settled'
  <2>1. /\ \A w \in Workers : worker[w] = Idle
        /\ \A u \in Uids : cache'[u] = None
        /\ UNCHANGED <<lastSeq, files, objects, crossed, lost, worker>>
    BY <1>4 DEF Month
  <2>2. ASSUME NEW u \in Uids, NEW n, Is(u, n)
        PROVE  Is(u, n)'
    <3>1. users' = [users EXCEPT ![v].seen = FALSE] /\ users[v] # None /\ users[v] \in User
      BY <1>1, <1>4 DEF Month, RowsFit
    <3>2. /\ [users[v] EXCEPT !.seen = FALSE] \in User
          /\ [users[v] EXCEPT !.seen = FALSE].id = users[v].id
      BY <3>1 DEF User
    <3>3. users'[u] = IF u = v THEN [users[v] EXCEPT !.seen = FALSE] ELSE users[u]
      BY <1>1, <3>1 DEF RowsFit
    <3>4. users'[u] # None /\ users'[u].id = users[u].id
      BY <2>2, <3>2, <3>3, NoneApart DEF Is
    <3> QED BY <2>2, <3>4 DEF Is
  <2>3. ASSUME NEW n, HasAccount(n) PROVE HasAccount(n)'
    <3>1. PICK u \in Uids : Is(u, n)
      BY <2>3 DEF HasAccount, Is
    <3>2. Is(u, n)'
      BY <2>2, <3>1
    <3> QED BY <3>2 DEF HasAccount, Is
  <2>4. ~Clash(worker')
    BY <2>1 DEF Settled
  <2>5. CacheOK' /\ WritersApart'
    BY <2>1, IdleOK DEF CacheOK, WritersApart
  <2>6. ASSUME NEW w \in Workers
        PROVE  AccountKept(worker[w])' /\ ErasureKept(worker[w])' /\ FileKept(worker[w])'
    <3>1. worker'[w] = Idle
      BY <2>1
    <3> QED BY <3>1, IdleOK DEF AccountKept, Acting, Operations, ErasureKept, FileKept, Emptying, Moving
  <2>7. Homes'
    <3>1. ASSUME NEW f \in Files, files'[f] # None PROVE HasAccount(files[f].owner)'
      <4>1. PICK n : n = files[f].owner /\ n = files'[f].owner
        BY <2>1
      <4>2. HasAccount(n)'
        BY <2>1, <2>3, <3>1, <4>1 DEF Settled, Homes
      <4> QED BY <4>1, <4>2 DEF HasAccount
    <3>2. ASSUME NEW n \in DOMAIN lastSeq', lastSeq'[n] # 0 PROVE HasAccount(n)'
      BY <2>1, <2>3, <3>2 DEF Settled, Homes
    <3> QED BY <3>1, <3>2 DEF Homes, HasAccount
  <2>8. Numbered' /\ There'
    BY <2>1 DEF Settled, Numbered, There
  <2> QED BY <2>4, <2>5, <2>6, <2>7, <2>8 DEF Settled
<1> QED BY <1>2, <1>3, <1>4 DEF Around

\* What dies is forgotten; what was cached goes with the server, and the sweep
\* has nothing cached.
LEMMA RestartSettles ==
  ASSUME FitInv, Settled, Restart
  PROVE  Settled'
<1>1. /\ UNCHANGED <<users, lastSeq, files, objects, crossed, lost>>
      /\ \A w \in Workers : worker'[w] = worker[w] \/ worker'[w] = Idle
      /\ \/ \A u \in Uids : cache'[u] = None
         \/ cache' = cache /\ \A w \in Handlers : worker'[w] = worker[w]
  BY FitParts, UidsOK DEF Restart, tables, bucket, WorkersFit, Workers
<1>2. ~Clash(worker')
  BY <1>1, FewerClash DEF Settled
<1>3. CacheOK'
  <2> SUFFICES ASSUME NEW u \in Uids, cache'[u] # None
               PROVE  \/ Is(u, cache[u].id)' \/ cache'[u].id \in lost'
                      \/ \E v \in Workers : Dropping(worker'[v], u) /\ worker'[v].from = cache'[u].id
    BY DEF CacheOK, Dropping
  <2>1. cache' = cache /\ \A w \in Handlers : worker'[w] = worker[w]
    BY <1>1
  <2>2. \/ Is(u, cache[u].id) \/ cache[u].id \in lost
        \/ \E v \in Workers : Dropping(worker[v], u) /\ worker[v].from = cache[u].id
    BY <2>1 DEF Settled, CacheOK
  <2>3. \A v \in Workers : Dropping(worker[v], u) => v \in Handlers
    BY RequestFit DEF Dropping, StageOK, Operations
  <2>4. CASE Is(u, cache[u].id)
    BY <1>1, <2>1, <2>4 DEF Is
  <2> QED BY <1>1, <2>1, <2>2, <2>3, <2>4
<1>4. WritersApart'
  BY <1>1, IdleOK DEF Settled, WritersApart
<1>5. ASSUME NEW w \in Workers
      PROVE  AccountKept(worker[w])' /\ ErasureKept(worker[w])' /\ FileKept(worker[w])'
  <2> PICK s : s = worker'[w]
    OBVIOUS
  <2>1. AccountKept(s) /\ ErasureKept(s) /\ FileKept(s)
    BY <1>1, IdleKept DEF Settled
  <2>2. s.op = "delete" => s.uid \in Uids
    BY <1>1, IdleOK, RequestFit DEF SubjectOK, Operations
  <2>3. AccountKept(s)'
    BY <1>1, <2>1 DEF AccountKept, Is
  <2>4. ErasureKept(s)'
    <3>1. \A id : RowsOf(id)
      BY <1>1 DEF RowsOf
    <3>2. s.op = "delete" /\ s.pc \in Emptying => cache'[s.uid] = None
      BY <1>1, <2>1, <2>2 DEF ErasureKept, Emptying, Moving
    <3> QED BY <1>1, <2>1, <3>1, <3>2, ErasureHolds
  <2>5. FileKept(s)'
    BY <1>1, <2>1 DEF FileKept, OwnedBy, Emptying
  <2> QED BY <2>3, <2>4, <2>5 DEF AccountKept, Acting, Is, ErasureKept, FileKept, Emptying, Moving
<1>6. Homes' /\ Numbered' /\ There'
  BY <1>1 DEF Settled, Homes, Numbered, There, HasAccount
<1> QED BY <1>2, <1>3, <1>4, <1>5, <1>6 DEF Settled

LEMMA FailSettles ==
  ASSUME FitInv, Settled, NEW w \in Workers, Fail(w), ~torn'
  PROVE  Settled'
<1>1. CASE EraseUnheard(w)
  BY <1>1, UnheardSettles
<1>2. CASE ~Caught(worker[w]) /\ Finish(w) /\ UNCHANGED <<tables, bucket, tokens, cache, seenAs>>
  <2>1. UNCHANGED <<users, cache, lastSeq, files, objects, crossed, lost>>
    BY <1>2 DEF tables, bucket
  <2>2. \A u \in Uids : ~Dropping(worker[w], u)
    BY <1>2 DEF Caught, Dropping
  <2> QED BY <1>2, <2>1, <2>2, FinishSettles
<1> QED BY <1>1, <1>2 DEF Fail

LEMMA InitSettled ==
  ASSUME StateInit
  PROVE  Settled
<1>1. /\ users = [u \in Uids |-> [id |-> u, anonymous |-> u \in Guests, seen |-> TRUE]]
      /\ lastSeq = [u \in Uids |-> StoredBy(u)] /\ files = Stored
      /\ objects = {Stored[f].key : f \in {g \in Files : Stored[g] # None}} \ {None}
      /\ \A w \in Workers : worker[w] = Idle
      /\ \A u \in Uids : cache[u] # None => cache[u].id = u
  BY DEF StateInit
<1>2. \A u \in Uids : Is(u, u)
  <2> SUFFICES ASSUME NEW u \in Uids PROVE Is(u, u)
    OBVIOUS
  <2>1. u \in Nat /\ users[u] = [id |-> u, anonymous |-> u \in Guests, seen |-> TRUE]
    BY <1>1, UidsOK
  <2>2. users[u] \in User /\ users[u].id = u
    BY <2>1 DEF User
  <2> QED BY <2>2, NoneApart DEF Is
<1>3. \A u \in Uids : HasAccount(u)
  BY <1>2 DEF HasAccount, Is
<1>4. ~Clash(worker)
  <2>1. Dooms(Idle) = {}
    BY IdleOK DEF Dooms
  <2> QED BY <1>1, <2>1 DEF Clash
<1>5. CacheOK /\ WritersApart
  BY <1>1, <1>2, IdleOK DEF CacheOK, WritersApart
<1>6. \A w \in Workers :
        AccountKept(worker[w]) /\ ErasureKept(worker[w]) /\ FileKept(worker[w])
  BY <1>1, IdleKept
<1>7. Homes
  BY <1>1, <1>3, StoredOK DEF Homes
<1>8. Numbered
  BY <1>1, AccountAssumption, StoredOK DEF Numbered
<1>9. There
  BY <1>1 DEF There
<1> QED BY <1>4, <1>5, <1>6, <1>7, <1>8, <1>9 DEF Settled

\* What has been torn stays so.
LEMMA TornStays ==
  ASSUME FitInv, [Next]_vars, torn
  PROVE  torn'
<1>1. ASSUME NEW w, NEW q, Become(w, q) PROVE torn'
  BY <1>1 DEF Become
<1>2. ASSUME NEW w \in Workers, resolvePrincipal(w) \/ \E op \in Ops : Enter(w, op)
      PROVE  torn'
  BY <1>1, <1>2 DEF resolvePrincipal, Upsert, Remember, Goto, Enter
<1>3. ASSUME NEW w \in Workers, UploadStep(w)
      PROVE  torn'
  BY <1>1, <1>3 DEF UploadStep, CreateAttachment, CreateVoiceNote, CreateWrite, AskAttachment,
       AskVoiceNote, ConfirmFind, ConfirmHead, EditBegin, EditFind, NumberFile, EditWrite,
       Push, Answer, Chose, Goto, Finish, Number
<1>4. ASSUME NEW w \in Workers, DeleteBegin(w) \/ Adopt(w)
      PROVE  torn'
  BY <1>1, <1>4 DEF DeleteBegin, Adopt, AdoptBegin, AdoptList, AdoptMore, AdoptMove, Finish
<1>5. ASSUME SweepList
      PROVE  torn'
  BY <1>1, <1>5, SweepListGives
<1>6. ASSUME NEW w \in Workers, EraseStep(w)
      PROVE  torn'
  <2>1. CASE FirebaseDelete(w) \/ Forget(w) \/ EraseKeys(w) \/ EraseFirst(w)
    BY <1>1, <2>1 DEF FirebaseDelete, Forget, EraseKeys, EraseFirst, Doom, Goto, Finish
  <2>2. CASE EraseRows(w)
    <3>1. CASE ~Is(worker[w].victim, worker[w].from)
      BY <1>1, <2>2, <3>1 DEF EraseRows, Is, Finish
    <3>2. CASE Is(worker[w].victim, worker[w].from)
      BY <1>1, <2>2, <3>2, EraseRowsGives
    <3> QED BY <3>1, <3>2
  <2>3. CASE EraseObject(w)
    BY <1>1, <2>3, EraseObjectGives
  <2> QED BY <1>6, <2>1, <2>2, <2>3 DEF EraseStep
<1>7. ASSUME NEW w \in Workers, Fail(w)
      PROVE  torn'
  BY <1>1, <1>7 DEF Fail, Finish, EraseUnheard
<1>8. Handlers \subseteq Workers /\ Sweeper \in Workers
  BY UidsOK
<1>9. CASE \E w \in Handlers : Begin(w) \/ Serve(w)
  BY <1>2, <1>3, <1>4, <1>6, <1>8, <1>9 DEF Begin, Serve
<1>10. CASE Sweep
  BY <1>5, <1>6, <1>8, <1>10 DEF Sweep
<1>11. CASE Crash
  BY <1>7, <1>11 DEF Crash, Restart
<1>12. CASE Around
  BY <1>12 DEF Around, Link, Month, Put
<1> QED BY <1>9, <1>10, <1>11, <1>12 DEF Next, vars

LEMMA NextSettled ==
  ASSUME GuestInv, Settled, [Next]_vars, ~torn'
  PROVE  Settled'
<1>1. FitInv /\ Handlers \subseteq Workers /\ Sweeper \in Workers
  BY UidsOK DEF GuestInv
<1>2. CASE UNCHANGED vars
  <2>1. UNCHANGED <<users, cache, lastSeq, files, objects, crossed, lost, worker>>
    BY <1>2 DEF vars, tables, bucket
  <2> QED BY <2>1, LinkSettles
<1>3. ASSUME NEW w \in Handlers, Begin(w)
      PROVE  Settled'
  BY <1>1, <1>3, EnterSettles, AccountsAssumption DEF Begin
<1>4. ASSUME NEW w \in Handlers, Serve(w)
      PROVE  Settled'
  <2>1. w \in Workers
    BY <1>1
  <2>2. CASE resolvePrincipal(w)
    BY <1>1, <2>1, <2>2, UpsertSettles, RememberSettles DEF resolvePrincipal
  <2>3. CASE UploadStep(w)
    BY <1>1, <2>1, <2>3, UploadSettles
  <2>4. CASE DeleteBegin(w)
    BY <1>1, <2>1, <2>4, DeleteSettles
  <2>5. CASE Adopt(w)
    BY <1>1, <2>1, <2>5, AdoptBeginSettles, AdoptListSettles, AdoptMoreSettles,
       MoveSettles DEF Adopt
  <2>6. CASE EraseStep(w)
    BY <2>1, <2>6, EraseSettles
  <2> QED BY <1>4, <2>2, <2>3, <2>4, <2>5, <2>6 DEF Serve
<1>5. CASE Sweep
  BY <1>1, <1>5, SweepSettles, EraseSettles DEF Sweep
<1>6. CASE Crash
  BY <1>1, <1>6, RestartSettles, FailSettles DEF Crash
<1>7. CASE Around
  BY <1>1, <1>7, AroundSettles
<1> QED BY <1>2, <1>3, <1>4, <1>5, <1>6, <1>7 DEF Next

\* The inductive invariant of accounts and their files: requests know accounts
\* that are there, erasures know what they have got to, rows name objects and
\* numbers nobody else can take, as long as no erasure has met another request
\* of its account.
THEOREM AccountsInvariant == Spec => []AccountsInv
<1>1. Init => AccountsInv
  BY InitGuests, InitSettled, SettledParts DEF Init
<1>2. AccountsInv /\ [Next]_vars => AccountsInv'
  <2> SUFFICES ASSUME AccountsInv, [Next]_vars PROVE AccountsInv'
    OBVIOUS
  <2>1. GuestInv /\ FitInv /\ (~torn => Settled)
    BY SettledParts DEF GuestInv
  <2>2. GuestInv'
    BY <2>1, NextGuests
  <2>3. ASSUME ~torn' PROVE Settled'
    BY <2>1, <2>3, TornStays, NextSettled
  <2>4. /\ NoOrphans' /\ NumbersDistinct' /\ ObjectsThere' /\ ApartInv'
    BY <2>3 DEF Settled, ApartInv, NoOrphans, EveryRowOwned, NumbersDistinct, ObjectsThere,
         Homes, Numbered, There
  <2> QED BY <2>2, <2>4 DEF AccountsInv
<1> QED BY <1>1, <1>2, PTL DEF Spec

\* No row and no counter outlives its account ("never orphans", eraseUser),
\* wherever an erasure, an adoption or the sweep dies, the commit that nobody hears
\* of included, with whatever requests of other accounts beside it: until a request
\* runs beside an erasure of its own account, or is served from the principal an
\* unheard commit has left in the cache.
THEOREM AccountsNoOrphans == Spec => []NoOrphans
<1>1. AccountsInv => NoOrphans
  BY DEF AccountsInv
<1> QED BY <1>1, AccountsInvariant, PTL

\* Adoption moves a guest's rows into its new owner's sequence, where edits,
\* pushes and further adoptions take numbers meanwhile: no two rows of an
\* account carry the same number, and none is above the account's counter.
THEOREM AccountsNumbersDistinct == Spec => []NumbersDistinct
<1>1. AccountsInv => NumbersDistinct
  BY DEF AccountsInv
<1> QED BY <1>1, AccountsInvariant, PTL

\* A row names only an object that is there: what confirmUpload has seen in the
\* bucket no erasure of another account deletes, and erasure deletes the rows
\* first.  A key confirmed for another row than it was made for is left out: two
\* rows may name it, and one may be adopted, the other erased.
THEOREM AccountsObjectsThere == Spec => []ObjectsThere
<1>1. AccountsInv => ObjectsThere
  BY DEF AccountsInv
<1> QED BY <1>1, AccountsInvariant, PTL

\* The sweep takes nobody who has been served with a linked sign-in before it
\* listed its guests, whatever requests and erasures overlap: linking clears
\* anonymous with the first request (resolvePrincipal), and only a guest token
\* made before the linking sets it again.  Whoever's row is written once the list
\* has been read is left out: the sweep does not look again.
THEOREM SweepKeepsLinked == Spec => LinkedKept
<1>1. AccountsInv =>
        \A u \in Uids : Erases(Sweeper, u) /\ "linked" \in seenAs[u] =>
          {"late", "back"} \intersect seenAs[u] # {}
  <2> SUFFICES ASSUME AccountsInv, NEW u \in Uids, Erases(Sweeper, u),
                      "late" \notin seenAs[u], "back" \notin seenAs[u]
               PROVE  "linked" \notin seenAs[u]
    OBVIOUS
  <2>1. GuestInv /\ FitInv /\ ListOK /\ GuestOK(u)
    BY SettledParts DEF GuestInv
  <2> PICK r : r = worker[Sweeper]
    OBVIOUS
  <2>2. r.op = "sweep" /\ r.victim = u /\ users[u] # None
    BY <2>1, RequestFit, UidsOK DEF Erases, StageOK, Erasing, Moving, Emptying, Operations
  <2>3. users[u].anonymous
    BY <2>1, <2>2 DEF ListOK, SweptOK, Stands, Unseen
  <2> QED BY <2>1, <2>2, <2>3 DEF GuestOK
<1> QED BY <1>1, AccountsInvariant, PTL DEF Spec, LinkedKept

\* Adoption loses nothing: no live row is left of a guest who is erased, though
\* the rows are listed table by table, moved after that, and the guest is erased
\* several statements later (adoptAnonymous), as long as no request of the guest
\* runs beside it.
THEOREM AdoptionLosesNothing == Spec => AdoptionKeeps
<1>1. AccountsInv /\ [Next]_vars =>
        (~torn' => \A w \in Handlers, u \in Uids : LeavesNothing(w, u))
  <2> SUFFICES ASSUME AccountsInv, [Next]_vars, ~torn', NEW w \in Handlers, NEW u \in Uids,
                      worker[w].op = "adopt", Erases(w, u)
               PROVE  LiveOf(worker[w].from) = {}
    BY DEF LeavesNothing
  <2>1. Settled /\ w \in Workers
    BY SettledParts, TornStays, UidsOK DEF AccountsInv, GuestInv
  <2> QED BY <2>1 DEF Settled, ErasureKept, Erases, Emptying, Moving
<1> QED BY <1>1, AccountsInvariant, PTL DEF Spec, AdoptionKeeps
=============================================================================
