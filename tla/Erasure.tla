------------------------------- MODULE Erasure --------------------------------
(***************************************************************************)
(* The three ways UsersService ends an account: its owner deletes it, a    *)
(* member adopts a guest's, the nightly sweep takes guests nobody has      *)
(* seen.  All three erase with eraseUser; they differ in when Firebase's   *)
(* user goes.                                                              *)
(*                                                                         *)
(*   delete   firebase  forget  erase                                      *)
(*   adopt    list  more  move  erase  firebase  forget                    *)
(*   sweep    firebase  forget  erase, and the next guest                  *)
(*                                                                         *)
(* where to erase is keys, photos or memos, erase, rest, objects.  Tables  *)
(* are read and deleted one by one: attachments before voice notes where   *)
(* rows are moved, after them where they are deleted.                      *)
(***************************************************************************)
EXTENDS SignIn

\* Rows in the order of their numbers.
BySeq(S) ==
  {s \in [1..Cardinality(S) -> S] :
     /\ IsInjective(s) /\ Range(s) = S
     /\ \A i, j \in DOMAIN s : i < j => files[s[i]].seq <= files[s[j]].seq}

-----------------------------------------------------------------------------
(* deleteAccount                                                           *)

\* findById.
DeleteBegin(w) ==
  LET r == worker[w] IN
  /\ At(w, "delete", "begin")
  /\ IF users[r.uid] # None /\ users[r.uid].id = r.id
     THEN Become(w, [r EXCEPT !.pc = "firebase", !.victim = r.uid, !.from = r.id])
     ELSE Finish(w)
  /\ UNCHANGED <<tokens, tables, cache, bucket, seenAs>>

-----------------------------------------------------------------------------
(* adoptAnonymous                                                          *)

\* A member shows a guest's token.  There may be no account behind it.
AdoptBegin(w) ==
  LET r == worker[w] IN
  /\ At(w, "adopt", "begin")
  /\ \/ r.anonymous /\ Finish(w)
     \/ /\ ~r.anonymous
        /\ \E u \in Uids \ {r.uid} :
             /\ Verifies(<<u, TRUE>>)
             /\ IF users[u] = None
                THEN Become(w, [r EXCEPT !.pc = "firebase", !.victim = u])
                ELSE Become(w, [r EXCEPT !.pc = "list", !.victim = u,
                                         !.from = users[u].id])
     \/ ~r.anonymous /\ Finish(w)   \* the token does not verify, or is no guest's
  /\ UNCHANGED <<tokens, tables, cache, bucket, seenAs>>

\* wrong variant: only files that have been uploaded.
LiveUploaded(id) == {f \in LiveOf(id) : files[f].key # None}

ToMove(id) == LiveOf(id)

AdoptList(w) ==
  LET r == worker[w] IN
  /\ At(w, "adopt", "list")
  /\ \E rows \in BySeq(ToMove(r.from) \intersect Attachments) :
       Become(w, [r EXCEPT !.pc = "more", !.moved = rows])
  /\ UNCHANGED <<tokens, tables, cache, bucket, seenAs>>

\* The next table, once the first one's rows have been updated.
AdoptMore(w) ==
  LET r == worker[w] IN
  /\ At(w, "adopt", "more")
  /\ \E rows \in BySeq(ToMove(r.from) \intersect VoiceNotes) :
       Become(w, [r EXCEPT !.pc = "move", !.moved = @ \o rows])
  /\ UNCHANGED <<tokens, tables, cache, bucket, seenAs>>

\* wrong variants: a row keeps the number it had; the block is counted down from
\* where it begins.
RenumberedKept(f, base, n) == files[f].seq
RenumberedDown(f, base, n) == base - n

\* The n-th row moved has the n-th number of a block of its new owner's.
Renumbered(f, base, n) == base + n

Move(r) ==
  LET base == lastSeq[r.id] IN
  /\ files' = [f \in Files |->
       IF Contains(r.moved, f)
       THEN LET n == CHOOSE i \in DOMAIN r.moved : r.moved[i] = f IN
            [files[f] EXCEPT !.owner = r.id, !.seq = Renumbered(f, base, n)]
       ELSE files[f]]
  /\ lastSeq' = [lastSeq EXCEPT ![r.id] = @ + Len(r.moved)]

\* One transaction with AdoptList and AdoptMore, which shows when it commits: all
\* rows move, or one has been deleted meanwhile and none does.
AdoptMove(w) ==
  LET r == worker[w] IN
  /\ At(w, "adopt", "move")
  /\ \A n \in DOMAIN r.moved : Unlocked(w, r.moved[n])
  /\ IF \E n \in DOMAIN r.moved : files[r.moved[n]] = None
     THEN Finish(w) /\ UNCHANGED <<files, lastSeq>>
     ELSE Move(r) /\ Become(w, [r EXCEPT !.pc = "keys", !.moved = <<>>])
  /\ UNCHANGED <<users, lost, tokens, cache, bucket, seenAs>>

-----------------------------------------------------------------------------
(* sweepAnonymous                                                          *)

Abandoned(u) == users[u] # None /\ users[u].anonymous /\ ~users[u].seen

\* On to the next of those listed, in whatever order; done when none is left.
SweepOn(listed) ==
  IF listed = {} THEN Finish(Sweeper)
  ELSE \E d \in listed :
         Become(Sweeper, [Idle EXCEPT !.op = "sweep", !.pc = "firebase",
                            !.victim = d.uid, !.from = d.id, !.listed = listed \ {d}])

SweepList ==
  /\ worker[Sweeper] = Idle
  /\ SweepOn({[uid |-> u, id |-> users[u].id] : u \in {v \in Uids : Abandoned(v)}})
  /\ seenAs' = [u \in Uids |-> seenAs[u] \ {"back"}]
  /\ UNCHANGED <<tokens, tables, cache, bucket>>

-----------------------------------------------------------------------------
(* firebase.deleteUser, principals.delete                                  *)

\* A user missing in Firebase is no error to the sweep; adopt goes on after any.
Tolerant(op) == op \in {"adopt", "sweep"}

FirebaseDelete(w) ==
  LET r == worker[w]
      u == r.victim
  IN
  /\ r.pc = "firebase"
  /\ \/ /\ Live(u)
        /\ firebase' = [firebase EXCEPT ![u] = "gone"]
        /\ stale' = stale \union {Token(u)}
        /\ Goto(w, "forget")
     \/ /\ ~Live(u) \/ r.op = "adopt"
        /\ IF Tolerant(r.op) THEN Goto(w, "forget") ELSE Finish(w)
        /\ UNCHANGED tokens
  /\ UNCHANGED <<tables, cache, bucket, seenAs>>

\* The sweep's own process has nothing cached.
Forget(w) ==
  LET r == worker[w] IN
  /\ r.pc = "forget"
  /\ cache' = IF w = Sweeper THEN cache ELSE [cache EXCEPT ![r.victim] = None]
  /\ IF r.op = "adopt" THEN Finish(w) ELSE Goto(w, "keys")
  /\ UNCHANGED <<tokens, tables, bucket, seenAs>>

-----------------------------------------------------------------------------
(* eraseUser                                                               *)

\* ownedObjectKeys: two queries, answered in either order.
DoomedKeys(id, table) == {files[f].key : f \in OwnedBy(id) \intersect table} \ {None}

Doom(w, pc, table) ==
  LET r == worker[w] IN
  Become(w, [r EXCEPT !.pc = pc, !.doomed = @ \union DoomedKeys(r.from, table)])

EraseKeys(w) ==
  /\ \/ worker[w].pc = "keys" /\ Doom(w, "memos", Attachments)
     \/ worker[w].pc = "keys" /\ Doom(w, "photos", VoiceNotes)
     \/ worker[w].pc = "photos" /\ Doom(w, "erase", Attachments)
     \/ worker[w].pc = "memos" /\ Doom(w, "erase", VoiceNotes)
  /\ UNCHANGED <<tokens, tables, cache, bucket, seenAs>>

\* wrong variant: tombstones stay.
ErasedLive(id) == LiveOf(id)

Erased(id) == OwnedBy(id)

\* The transaction's first deleteMany; what it deletes is gone when it commits.
EraseFirst(w) ==
  LET r == worker[w]
      rows == Erased(r.from) \intersect VoiceNotes
  IN
  /\ r.pc = "erase"
  /\ \A f \in rows : Unlocked(w, f)
  /\ Become(w, [r EXCEPT !.pc = "rest", !.rows = rows])
  /\ UNCHANGED <<tokens, tables, cache, bucket, seenAs>>

\* After the last object: what each of the three does next.
Onward(w, r) ==
  CASE r.op = "adopt" -> Become(w, [r EXCEPT !.pc = "firebase"])
    [] r.op = "sweep" -> SweepOn(r.listed)
    [] r.op = "delete" -> Finish(w)

Objects(w, r) ==
  LET done == [r EXCEPT !.rows = {}] IN
  IF r.doomed = {} THEN Onward(w, done) ELSE Become(w, [done EXCEPT !.pc = "objects"])

\* The other table's rows, clients, counter, and the user.
Commit(r) ==
  /\ LET rows == r.rows \union (Erased(r.from) \intersect Attachments) IN
     files' = [f \in Files |-> IF f \in rows THEN None ELSE files[f]]
  /\ lastSeq' = [lastSeq EXCEPT ![r.from] = 0]
  /\ users' = [users EXCEPT ![r.victim] = None]
  /\ seenAs' = [seenAs EXCEPT ![r.victim] = {}]

\* The user must be there, or all is rolled back.
EraseRows(w) ==
  LET r == worker[w]
      u == r.victim
  IN
  /\ r.pc = "rest"
  /\ IF users[u] # None /\ users[u].id = r.from
     THEN Commit(r) /\ Objects(w, r) /\ UNCHANGED lost
     ELSE Finish(w) /\ UNCHANGED <<tables, seenAs>>
  /\ UNCHANGED <<tokens, cache, bucket>>

\* The transaction commits and its answer is lost: nothing more is done, and an
\* adopted guest's principal stays cached.
EraseUnheard(w) ==
  LET r == worker[w]
      u == r.victim
  IN
  /\ r.pc = "rest"
  /\ users[u] # None /\ users[u].id = r.from
  /\ Commit(r)
  /\ Finish(w)
  /\ lost' = lost \union {r.from}
  /\ UNCHANGED <<tokens, cache, bucket>>

\* Afterwards and best-effort, one by one.
EraseObject(w) ==
  LET r == worker[w] IN
  /\ r.pc = "objects"
  /\ \E k \in r.doomed :
       /\ objects' \in {objects, objects \ {k}}
       /\ Objects(w, [r EXCEPT !.doomed = @ \ {k}])
  /\ UNCHANGED <<tokens, tables, cache, urls, crossed, seenAs>>

\* Failures that end neither a request nor the sweep.
Caught(r) ==
  \/ r.pc = "objects"
  \/ r.op = "adopt" /\ r.pc \in {"firebase", "forget"}

EraseStep(w) ==
  \/ FirebaseDelete(w) \/ Forget(w)
  \/ EraseKeys(w) \/ EraseFirst(w) \/ EraseRows(w) \/ EraseObject(w)

Adopt(w) == AdoptBegin(w) \/ AdoptList(w) \/ AdoptMore(w) \/ AdoptMove(w)
Sweep == SweepList \/ EraseStep(Sweeper)
=============================================================================
