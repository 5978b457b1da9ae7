------------------------------- MODULE Accounts -------------------------------
(***************************************************************************)
(* Accounts and the files they own: requests of guests and members, the    *)
(* three erasures and the passing of time interleaved, with requests and   *)
(* processes that die.                                                     *)
(***************************************************************************)
EXTENDS Uploads, Erasure

CONSTANTS
  Ops,          \* the operations requests may ask for
  MaxRequests,  \* bound on requests
  MaxCrashes    \* bound on requests and sweeps that fail, and processes that die

ASSUME AccountsAssumption ==
  /\ Ops \subseteq Operations
  /\ MaxAttachments \in Nat
  /\ MaxRequests \in Nat
  /\ MaxCrashes \in Nat

VARIABLES
  requests,
  crashes

vars == <<tables, bucket, tokens, cache, worker, torn, seenAs, requests, crashes>>
bounds == <<requests, crashes>>

TypeOK ==
  /\ StateTypeOK
  /\ requests \in 0..MaxRequests
  /\ crashes \in 0..MaxCrashes

Init == StateInit /\ requests = 0 /\ crashes = 0

-----------------------------------------------------------------------------
Begin(w) ==
  /\ requests < MaxRequests
  /\ requests' = requests + 1
  /\ \E op \in Ops : Enter(w, op)
  /\ UNCHANGED crashes

Serve(w) ==
  /\ resolvePrincipal(w) \/ UploadStep(w) \/ DeleteBegin(w) \/ Adopt(w) \/ EraseStep(w)
  /\ UNCHANGED bounds

\* What a worker awaits fails, or the answer is lost: the request or the sweep
\* ends there.
Fail(w) ==
  \/ /\ worker[w] # Idle /\ ~Caught(worker[w])
     /\ Finish(w)
     /\ UNCHANGED <<tables, bucket, tokens, cache, seenAs>>
  \/ EraseUnheard(w)

\* The server, or the sweep's process, dies; the cache goes with the server.
Restart ==
  /\ \/ /\ \E w \in Handlers : worker[w] # Idle
        /\ worker' = [w \in Workers |-> IF w \in Handlers THEN Idle ELSE worker[w]]
        /\ cache' = [u \in Uids |-> None]
     \/ /\ worker[Sweeper] # Idle
        /\ worker' = [worker EXCEPT ![Sweeper] = Idle]
        /\ UNCHANGED cache
  /\ UNCHANGED <<tables, bucket, tokens, torn, seenAs>>

Crash ==
  /\ crashes < MaxCrashes
  /\ crashes' = crashes + 1
  /\ Restart \/ \E w \in Workers : Fail(w)
  /\ UNCHANGED requests

Around ==
  /\ \/ \E u \in Uids : Link(u) \/ Month(u)
     \/ \E k \in urls : Put(k)
  /\ UNCHANGED bounds

Next ==
  \/ \E w \in Handlers : Begin(w) \/ Serve(w)
  \/ Sweep /\ UNCHANGED bounds
  \/ Crash
  \/ Around

Spec == Init /\ [][Next]_vars

\* A request goes on unless it dies, the timer starts the sweep every day, and
\* a month comes in which somebody who cannot sign in is not seen.
LiveSpec ==
  /\ Spec
  /\ \A w \in Handlers : WF_vars(Serve(w))
  /\ WF_vars(Sweep /\ UNCHANGED bounds)
  /\ \A u \in Uids : WF_vars(~Live(u) /\ Month(u) /\ UNCHANGED bounds)

-----------------------------------------------------------------------------
(* Properties                                                              *)

HasAccount(id) == \E u \in Uids : users[u] # None /\ users[u].id = id

\* Adoption moves rows between sequences: still no two rows of an account carry
\* one number, and none is above its counter, whatever requests the new owner
\* sends meanwhile, adoptions are retried or die ("every adopted row is stamped with a
\* fresh number from the target's counter").
NumbersDistinct ==
  ~torn => \A f \in Files : files[f] # None =>
    /\ files[f].seq <= lastSeq[files[f].owner]
    /\ \A g \in Files \ {f} : files[g] # None /\ files[g].owner = files[f].owner
                                => files[g].seq # files[f].seq

\* Rows and counters belong to an account.
EveryRowOwned ==
  /\ \A f \in Files : files[f] # None => HasAccount(files[f].owner)
  /\ \A id \in DOMAIN lastSeq : lastSeq[id] # 0 => HasAccount(id)

\* "never orphans" (eraseUser), wherever an erasure dies, also where its commit is
\* not heard of: until a request of an account runs beside the account's erasure,
\* or is served from the principal such a commit has left in the cache.
NoOrphans == ~torn => EveryRowOwned

\* A row that names an object names one that is there (confirmUpload; adoption
\* keeps the guest's objects; erasure deletes the rows first), unless the key was
\* confirmed for another row than it was made for: two rows may name that one.
ObjectsThere ==
  ~torn => \A f \in Files :
    files[f] # None /\ files[f].key # None =>
      files[f].key \in objects \union crossed

Erases(w, u) ==
  /\ worker[w].pc = "rest" /\ worker[w].victim = u
  /\ users[u] # None /\ users'[u] = None

\* Linking a sign-in "clears anonymous on the row before the sweep can mistake a
\* fresh account for an abandoned guest" (resolvePrincipal): whoever has been
\* served as a member is not on the sweep's list, whatever overlaps, and not swept.
\* Two histories defeat it: a guest token made before the linking that arrives
\* after it, and a row written once the list has been read.
LinkedKept ==
  [][\A u \in Uids :
       Erases(Sweeper, u) /\ "linked" \in seenAs[u] => {"late", "back"} \intersect seenAs[u] # {}]_vars

LeavesNothing(w, u) ==
  worker[w].op = "adopt" /\ Erases(w, u) => LiveOf(worker[w].from) = {}

\* "Whatever is left under the guest is soft-deleted rows and bookkeeping"
\* (adoptAnonymous): no live row goes with the guest, also after an adoption that
\* died half-way and was tried again, while no request of the guest runs beside the
\* adoption.
AdoptionKeeps ==
  [][~torn' => \A w \in Handlers, u \in Uids : LeavesNothing(w, u)]_vars

\* An account nobody can sign in to any more goes in the end, and nothing stays
\* behind that belongs to nobody: a deletion that dies leaves "a Postgres row with no
\* way to authenticate into it, which the sweep below finishes" (deleteAccount),
\* "never orphans" (eraseUser).
DeletionsFinish ==
  \A u \in Uids : ~Live(u) ~> (users[u] = None /\ EveryRowOwned)

-----------------------------------------------------------------------------
(* Why the first six hold.  Every account has a counter, every request knows *)
(* what it has come to know, whatever overlaps.                            *)

Known(id) == id \in DOMAIN lastSeq

\* A key confirmed for f.
MadeFor(f, key) == key.file = f \/ key \in crossed

Acting(r) == r.op \in Operations /\ r.pc # "upsert"

Changing == {"create", "ask", "confirm", "edit", "remove"}
Moving == {"list", "more", "move"}
Emptying == {"keys", "photos", "memos", "erase", "rest"}
Erasing == {"firebase", "forget", "objects"} \union Emptying

StageOK(w, r) ==
  /\ r.op = "idle" \/ r.pc = "idle" => r = Idle
  /\ r.op = "sweep" => w = Sweeper /\ r.pc \in Erasing
  /\ r.op \in Operations => w \in Handlers
  /\ r.pc \in {"number", "write"} => r.op \in Changing
  /\ r.pc = "find" => r.op \in {"ask", "confirm"}
  /\ r.pc = "head" => r.op = "confirm"
  /\ r.pc \in Moving => r.op = "adopt"
  /\ r.pc \in Erasing => r.op \in {"delete", "adopt", "sweep"}

SubjectOK(r) ==
  /\ r.op \in Operations => r.uid \in Uids
  /\ Acting(r) => Known(r.id)
  /\ r.pc \in {"number", "write", "head", "find"} => r.file \in Files
  /\ r.op = "confirm" /\ r.pc \in {"number", "write", "head", "find"} =>
       r.key # None /\ r.key.account = r.id /\ MadeFor(r.file, r.key)
  /\ r.pc \in Moving \union Erasing => r.victim \in Uids
  /\ r.pc \in Moving \union Emptying \union {"objects"} => Known(r.from)
  /\ r.op = "sweep" => Known(r.from)
  /\ r.op = "delete" /\ r.pc \in Erasing => r.victim = r.uid /\ r.from = r.id
  /\ r.op = "adopt" /\ r.pc \in Moving \union Erasing => r.victim # r.uid
  /\ \A d \in r.listed : r.op = "sweep" /\ Known(d.id)

TablesOK ==
  /\ \A u \in Uids : users[u] # None => Known(users[u].id)
  /\ \A u \in Uids : cache[u] # None => Known(cache[u].id)
  /\ \A u, v \in Uids :
       users[u] # None /\ users[v] # None /\ users[u].id = users[v].id => u = v
  /\ \A f \in Files : files[f] # None =>
       Known(files[f].owner) /\ (files[f].key # None => MadeFor(f, files[f].key))
  /\ IsFiniteSet(KeysAround)   \* there is always a fresh key

FitInv ==
  /\ StateTypeOK
  /\ TablesOK
  /\ \A w \in Workers : StageOK(w, worker[w]) /\ SubjectOK(worker[w])

\* What is served as a member's is a linked sign-in's; somebody unseen has
\* nothing cached and sends nothing.
GuestOK(u) ==
  /\ firebase[u] = "guest" =>
       /\ "linked" \notin seenAs[u] /\ <<u, FALSE>> \notin stale
       /\ cache[u] # None => cache[u].anonymous
       /\ \A w \in Workers : worker[w].uid = u => worker[w].anonymous
  /\ users[u] # None /\ users[u].anonymous /\ "late" \notin seenAs[u] =>
       /\ "linked" \notin seenAs[u]
       /\ cache[u] # None => cache[u].anonymous
       /\ \A w \in Workers :
            worker[w].uid = u /\ worker[w].pc = "remember" => worker[w].anonymous
  /\ users[u] # None /\ ~users[u].seen =>
       cache[u] = None /\ \A w \in Workers : worker[w].uid = u => ~Acting(worker[w])

Is(u, id) == users[u] # None /\ users[u].id = id

\* Whom the sweep has listed nobody has seen since, or the row has been written
\* since, or another has erased the account.
Unseen(u) == users[u].anonymous /\ ~users[u].seen
Stands(u, id) == Is(u, id) /\ Unseen(u)
SweptOK(u, id) == users[u] = None \/ "back" \in seenAs[u] \/ Stands(u, id)
ListOK ==
  LET r == worker[Sweeper] IN
  r.op = "sweep" =>
    SweptOK(r.victim, r.from) /\ \A d \in r.listed : SweptOK(d.uid, d.id)

GuestInv == FitInv /\ ListOK /\ \A u \in Uids : GuestOK(u)

-----------------------------------------------------------------------------
(* While no erasure has met another request of its account.                *)

\* The account of a request is there until the request itself erases it.
AccountKept(r) == Acting(r) => (r.op = "delete" /\ r.pc = "objects") \/ Is(r.uid, r.id)

\* A principal is cached of an account that is there, that an adopter has erased
\* and is about to drop, or whose erasure was not heard of.
Dropping(r, u) ==
  r.op = "adopt" /\ r.pc \in {"objects", "firebase", "forget"} /\ r.victim = u
CacheOK ==
  \A u \in Uids : cache[u] # None =>
    \/ Is(u, cache[u].id) \/ cache[u].id \in lost
    \/ \E w \in Workers : Dropping(worker[w], u) /\ worker[w].from = cache[u].id

\* What an erasure has got to: a deletion past forget has nothing cached, the
\* sweep goes after guests nobody has seen, an adoption has all there is.
ErasureKept(r) ==
  /\ r.op = "delete" /\ r.pc \in Emptying => cache[r.uid] = None
  /\ r.op = "sweep" /\ r.pc # "objects" => Stands(r.victim, r.from)
  /\ \A d \in r.listed : Stands(d.uid, d.id) /\ d.id # r.from
  /\ r.op = "adopt" /\ r.pc \in Moving \union Emptying \union {"objects"} => r.from # r.id
  /\ r.pc \in {"more", "move"} =>
       /\ \A n \in DOMAIN r.moved : r.moved[n] \in OwnedBy(r.from)
       /\ \A f \in LiveOf(r.from) : f \in Range(r.moved) \/ (r.pc = "more" /\ f \in VoiceNotes)
  /\ r.op = "adopt" /\ r.pc \in Emptying => LiveOf(r.from) = {}
  /\ r.pc = "rest" => r.rows = OwnedBy(r.from) \intersect VoiceNotes

\* Rows keep to what requests know of them.
FileKept(r) ==
  /\ r.op # "create" /\ r.pc \in {"number", "write"} => r.file \in OwnedBy(r.id)
  /\ r.pc = "write" =>
       /\ r.seq \in 1..lastSeq[r.id]
       /\ \A f \in OwnedBy(r.id) : files[f].seq # r.seq
  /\ r.op = "confirm" /\ r.pc \in {"find", "number", "write"} => r.key \in objects
  /\ \A k \in r.doomed \ crossed, f \in Files : files[f] # None /\ files[f].key = k =>
       r.pc \in Emptying /\ files[f].owner = r.from

WritersApart ==
  \A v, w \in Workers :
    v # w /\ worker[v].pc = "write" /\ worker[w].pc = "write"
      /\ worker[v].id = worker[w].id => worker[v].seq # worker[w].seq

ApartInv ==
  ~torn =>
    /\ ~Clash(worker) /\ CacheOK /\ WritersApart
    /\ \A w \in Workers :
         AccountKept(worker[w]) /\ ErasureKept(worker[w]) /\ FileKept(worker[w])

AccountsInv ==
  GuestInv /\ ApartInv /\ NoOrphans /\ NumbersDistinct /\ ObjectsThere
=============================================================================
