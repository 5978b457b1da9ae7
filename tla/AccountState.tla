----------------------------- MODULE AccountState -----------------------------
(***************************************************************************)
(* What accounts are made of: Firebase users and their tokens, rows of     *)
(* the users table, the server's cache of principals, the rows an account  *)
(* owns (attachments and voice notes here), and the objects in R2 they     *)
(* name.  A worker is a request the server handles, or the process of the  *)
(* nightly guest sweep; each statement it awaits is a step.                *)
(***************************************************************************)
EXTENDS Naturals, SequencesExt

CONSTANTS
  Guests,       \* Firebase users that began with "continue as guest"
  Members,      \* Firebase users that began with a real sign-in
  Handlers,     \* requests the server may be serving at once
  Sweeper,      \* the process of the guest sweep
  Attachments,  \* ids clients mint for attachments
  VoiceNotes,   \* ids clients mint for voice notes
  Stored,       \* the rows there are at first, by id; None for no row
  None

Uids == Guests \union Members
Files == Attachments \union VoiceNotes
Workers == Handlers \union {Sweeper}

StoredBy(u) == Cardinality({f \in Files : Stored[f] # None /\ Stored[f].owner = u})

\* A key is server-made: u/<account>/<uuid>; no is the uuid.
Key == [account : Nat, file : Files, no : Nat]

File == [owner : Nat, deleted : BOOLEAN, seq : Nat, key : Key \union {None}]

\* seen: within the last 30 days.
User == [id : Nat, anonymous : BOOLEAN, seen : BOOLEAN]

Principal == [id : Nat, anonymous : BOOLEAN]

ASSUME AccountAssumption ==
  /\ IsFiniteSet(Uids) /\ IsFiniteSet(Files)
  /\ Uids = 1..Cardinality(Uids)   \* the first accounts have the same numbers
  /\ Guests \intersect Members = {}
  /\ Sweeper \notin Handlers
  /\ Attachments \intersect VoiceNotes = {}
  /\ None \notin User \union Principal \union Key \union File
  /\ Stored \in [Files -> File \union {None}]
  /\ \A f \in Files : Stored[f] # None /\ Stored[f].key # None => Stored[f].key.file = f
  /\ \A f, g \in Files : Stored[f] # None =>
       /\ Stored[f].owner \in Uids /\ Stored[f].seq \in 1..StoredBy(Stored[f].owner)
       /\ Stored[g] # None /\ Stored[g].owner = Stored[f].owner
              /\ Stored[g].seq = Stored[f].seq => f = g

VARIABLES
  firebase,   \* what each Firebase user is
  stale,      \* tokens that still verify though the user has changed or gone
  users,      \* the users table, by firebaseUid
  cache,      \* the server's principals, by firebaseUid
  lastSeq,    \* by account id: its sync_state counter, 0 with no row
  files,      \* the attachments and voice notes tables
  urls,       \* object keys with an upload URL that a client holds
  objects,    \* object keys with an object in the bucket
  worker,     \* what each worker is doing
  crossed,    \* history: keys confirmed for another file than they were made for
  lost,       \* history: accounts erased by a commit nobody heard of
  torn,       \* history: has an erasure met another request of its account, or
              \* has a principal served whose account was lost?
  seenAs      \* history: "linked" once served so, "late" once a guest token
              \* has been taken after that user linked a sign-in, "back" once
              \* its row has been written while the sweep had it listed

tables == <<users, lastSeq, files, lost>>
bucket == <<urls, objects, crossed>>
tokens == <<firebase, stale>>

\* A worker between requests.  uid, anonymous, id: the token and its account.
\* victim, from: Firebase user and account to be erased or moved; rows: what its
\* transaction has deleted so far; listed: whom the sweep still has to erase.
Idle == [op |-> "idle", pc |-> "idle", uid |-> 0, anonymous |-> FALSE, id |-> 0,
         file |-> None, key |-> None, seq |-> 0, victim |-> 0, from |-> 0,
         moved |-> <<>>, doomed |-> {}, rows |-> {}, listed |-> {}]

Operations ==
  {"create", "ask", "confirm", "edit", "remove", "push", "delete", "adopt"}

\* The statement a worker is about to execute.
Statements ==
  {"idle", "upsert", "remember", "begin"}
    \union {"number", "write", "head", "find"}
    \union {"list", "more", "move", "firebase", "forget"}
    \union {"keys", "photos", "memos", "erase", "rest", "objects"}

Request ==
  [op : Operations \union {"idle", "sweep"}, pc : Statements, uid : Nat, anonymous : BOOLEAN, id : Nat,
   file : Files \union {None}, key : Key \union {None}, seq : Nat,
   victim : Nat, from : Nat, moved : Seq(Files), doomed : SUBSET Key,
   rows : SUBSET Files, listed : SUBSET [uid : Uids, id : Nat]]

StateTypeOK ==
  /\ firebase \in [Uids -> {"guest", "linked", "gone"}]
  /\ stale \in SUBSET (Uids \X BOOLEAN)
  /\ users \in [Uids -> User \union {None}]
  /\ cache \in [Uids -> Principal \union {None}]
  /\ lastSeq \in Seq(Nat)
  /\ files \in [Files -> File \union {None}]
  /\ urls \subseteq Key
  /\ objects \subseteq Key
  /\ crossed \subseteq Key
  /\ lost \subseteq Nat
  /\ worker \in [Workers -> Request]
  /\ torn \in BOOLEAN
  /\ seenAs \in [Uids -> SUBSET {"linked", "late", "back"}]

\* Everybody has used the planner lately, and may be cached; the objects rows
\* name are there.
StateInit ==
  /\ firebase = [u \in Uids |-> IF u \in Guests THEN "guest" ELSE "linked"]
  /\ stale = {}
  /\ users = [u \in Uids |-> [id |-> u, anonymous |-> u \in Guests, seen |-> TRUE]]
  /\ \E cached \in SUBSET Uids :
       cache = [u \in Uids |-> IF u \in cached THEN [id |-> u, anonymous |-> u \in Guests]
                                              ELSE None]
  /\ lastSeq = [u \in Uids |-> StoredBy(u)]
  /\ files = Stored
  /\ urls = {}
  /\ objects = {Stored[f].key : f \in {g \in Files : Stored[g] # None}} \ {None}
  /\ crossed = {}
  /\ lost = {}
  /\ worker = [w \in Workers |-> Idle]
  /\ torn = FALSE
  /\ seenAs = [u \in Uids |-> IF u \in Members THEN {"linked"} ELSE {}]

-----------------------------------------------------------------------------
At(w, op, pc) == worker[w].op = op /\ worker[w].pc = pc

\* Accounts a worker acts for, and accounts it is erasing or deleting objects of.
Dooms(r) ==
  ({r.from} \union {d.id : d \in r.listed} \union {k.account : k \in r.doomed}) \ {0}
ActsFor(r) == ({r.id} \ {0}) \union Dooms(r)

Clash(ws) ==
  \E v, w \in Workers : v # w /\ Dooms(ws[v]) \intersect ActsFor(ws[w]) # {}

\* A request acts for an account that is lost.
Astray(ws) == \E w \in Workers : ws[w].id \in lost

Become(w, r) ==
  LET ws == [worker EXCEPT ![w] = r] IN
  /\ worker' = ws
  /\ torn' = (torn \/ Clash(ws) \/ Astray(ws))

\* Nobody else's transaction has deleted the row; a write waits until it ends.
Unlocked(w, f) == \A v \in Workers \ {w} : f \notin worker[v].rows

Goto(w, pc) == Become(w, [worker[w] EXCEPT !.pc = pc])
Finish(w) == Become(w, Idle)

\* The scope of every read of a row: own and live.
Own(id, f) == files[f] # None /\ files[f].owner = id /\ ~files[f].deleted

OwnedBy(id) == {f \in Files : files[f] # None /\ files[f].owner = id}
LiveOf(id) == {f \in OwnedBy(id) : ~files[f].deleted}

\* seq.next, a statement of its own; it makes the counter's row where there is
\* none.
Number(w, pc) ==
  LET id == worker[w].id IN
  /\ lastSeq' = [lastSeq EXCEPT ![id] = @ + 1]
  /\ Become(w, [worker[w] EXCEPT !.pc = pc, !.seq = lastSeq[id] + 1])
  /\ UNCHANGED <<users, files, lost>>
=============================================================================
