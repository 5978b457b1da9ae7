------------------------------ MODULE SyncPush -------------------------------
(***************************************************************************)
(* POST /sync/push: one transaction per batch (SyncService.push).          *)
(*                                                                         *)
(* The transaction first allocates numbers for the whole batch, which      *)
(* locks the account's sync_state row until it ends.  Then each change is  *)
(* a read (findFirst) and, unless it conflicts, a write: two statements,   *)
(* between which other requests commit.  A request ends by commit and      *)
(* reply, or by a rollback: a refused payload, an id somebody else has     *)
(* inserted meanwhile, the 30 s timeout, a lost connection, a deadlock.    *)
(***************************************************************************)
EXTENDS SyncState, Sequences

CONSTANTS
  Batches,          \* the batches each device may push (sequences of Change)
  MaxPushes,        \* bound: push requests per device
  AdoptPushCursor   \* does a device pull from the cursor a push returned?

ASSUME BatchesAssumption ==
  /\ \A d \in Devices : Batches[d] \subseteq Seq(Change)
  /\ MaxPushes \in Nat
  /\ AdoptPushCursor \in BOOLEAN

VARIABLES
  push,      \* the push request each device has in progress
  pushes     \* how many each device has sent

pushVars == <<push, pushes>>

NoPush == [pc |-> "idle", batch |-> <<>>, i |-> 1, seq |-> 0,
           existed |-> FALSE, applied |-> {}]

\* pc: "find", "write" inside the transaction, "reply" after the commit.
\* seq: the last number given out; applied: the changes counted as applied.
PushRequest ==
  [pc : {"idle", "find", "write", "reply"}, batch : Seq(Change), i : Nat,
   seq : Nat, existed : BOOLEAN, applied : SUBSET Nat]

PushTypeOK ==
  /\ push \in [Devices -> PushRequest]
  /\ pushes \in [Devices -> Nat]

PushInit ==
  /\ push = [d \in Devices |-> NoPush]
  /\ pushes = [d \in Devices |-> 0]

-----------------------------------------------------------------------------
\* A stable sort by the table's order, then by updatedAt.
Before(a, b) ==
  \/ TableOf[a.id] < TableOf[b.id]
  \/ TableOf[a.id] = TableOf[b.id] /\ a.updatedAt < b.updatedAt

\* The places of b in sorted order, as the only permutation in the set.
SortedPlaces(b) ==
  {p \in [1..Len(b) -> 1..Len(b)] :
     \A j, k \in 1..Len(b) : j < k =>
       \/ Before(b[p[j]], b[p[k]])
       \/ ~Before(b[p[k]], b[p[j]]) /\ p[j] < p[k]}

\* SyncService.orderChanges, as the set of its one result.
orderChanges(b) == {[k \in 1..Len(b) |-> b[p[k]]] : p \in SortedPlaces(b)}

Pending(d) == push[d].batch[push[d].i]
Finished(d) == push[d].i > Len(push[d].batch)
Stored(d) == Visible(d, Pending(d).id)

InTransaction(d) == push[d].pc \in {"find", "write"}

Rollback(d) ==
  /\ Release(d)
  /\ push' = [push EXCEPT ![d] = NoPush]
  /\ UNCHANGED <<rows, lastSeq, clients, device, pushes>>

-----------------------------------------------------------------------------
PushBegin(d) ==
  /\ push[d].pc = "idle"
  /\ pushes[d] < MaxPushes
  /\ AllocateInTx(d)
  /\ \E batch \in Batches[d] : \E ordered \in orderChanges(batch) :
       push' = [push EXCEPT ![d] =
                  [NoPush EXCEPT !.pc = "find", !.batch = ordered,
                                 !.seq = lastSeq[UserOf[d]]]]
  /\ pushes' = [pushes EXCEPT ![d] = @ + 1]
  /\ UNCHANGED <<rows, draft, clients, device>>

\* findFirst by id alone, and the conflict rule.  A conflict takes no number.
PushConflict(d) ==
  /\ push[d].pc = "find" /\ ~Finished(d)
  /\ Conflicts(Stored(d), UserOf[d], Pending(d))
  /\ push' = [push EXCEPT ![d].i = @ + 1]
  /\ UNCHANGED <<shared, pushes>>

Accepted(d) ==
  /\ push[d].pc = "find" /\ ~Finished(d)
  /\ ~Conflicts(Stored(d), UserOf[d], Pending(d))

\* A delete of an unknown row takes a number and writes nothing.
PushNoop(d) ==
  /\ Accepted(d)
  /\ Noop(Stored(d), Pending(d))
  /\ push' = [push EXCEPT ![d].i = @ + 1, ![d].seq = @ + 1]
  /\ UNCHANGED <<shared, pushes>>

\* A payload coerce throws on rolls the whole batch back.
PushRefuse(d) ==
  /\ Accepted(d)
  /\ Refused(Stored(d), Pending(d))
  /\ Rollback(d)

PushFind(d) ==
  /\ Accepted(d)
  /\ ~Noop(Stored(d), Pending(d))
  /\ ~Refused(Stored(d), Pending(d))
  /\ push' = [push EXCEPT ![d].pc = "write", ![d].seq = @ + 1,
                          ![d].existed = Stored(d) # None]
  /\ UNCHANGED <<shared, pushes>>

\* update/create by id: an update lands on whatever is committed by now.
PushWrite(d) ==
  /\ push[d].pc = "write"
  /\ RowFree(d, Pending(d).id)
  /\ push[d].existed = (Stored(d) # None)
  /\ draft' = [draft EXCEPT ![d][Pending(d).id] =
                 Written(Stored(d), UserOf[d], Pending(d), push[d].seq)]
  /\ push' = [push EXCEPT ![d].pc = "find", ![d].i = @ + 1,
                          ![d].applied = @ \cup {push[d].i}]
  /\ UNCHANGED <<rows, lastSeq, lock, clients, device, pushes>>

\* create on an id another request has inserted since the read: unique violation.
PushCollide(d) ==
  /\ push[d].pc = "write"
  /\ RowFree(d, Pending(d).id)
  /\ ~push[d].existed /\ Stored(d) # None
  /\ Rollback(d)

PushFail(d) == InTransaction(d) /\ Rollback(d)

\* The whole batch becomes visible, and the account's numbers with it.
PushCommit(d) ==
  /\ push[d].pc = "find" /\ Finished(d)
  /\ rows' = [id \in Ids |-> Visible(d, id)]
  /\ lastSeq' = [lastSeq EXCEPT ![UserOf[d]] = @ + Len(push[d].batch)]
  /\ Release(d)
  /\ push' = [push EXCEPT ![d].pc = "reply"]
  /\ UNCHANGED <<clients, device, pushes>>

\* The device may store the cursor a push answers with as its own.
CursorsAfterReply(d) ==
  IF AdoptPushCursor THEN {cursor, [cursor EXCEPT ![d] = push[d].seq]}
                     ELSE {cursor}

\* touchClient, then the response, which the device may not receive.
PushReply(d) ==
  /\ push[d].pc = "reply"
  /\ Touch(d, Position(d))
  /\ cursor' \in CursorsAfterReply(d)
  /\ push' = [push EXCEPT ![d] = NoPush]
  /\ UNCHANGED <<rows, draft, lastSeq, lock, held, pushes>>

PushStep(d) ==
  \/ PushBegin(d)
  \/ PushConflict(d)
  \/ PushNoop(d)
  \/ PushRefuse(d)
  \/ PushFind(d)
  \/ PushWrite(d)
  \/ PushCollide(d)
  \/ PushFail(d)
  \/ PushCommit(d)
  \/ PushReply(d)

\* The steps a request in progress takes on its own, once it has begun.
PushProgress(d) ==
  \/ PushConflict(d) \/ PushNoop(d) \/ PushRefuse(d) \/ PushFind(d)
  \/ PushWrite(d) \/ PushCollide(d) \/ PushCommit(d) \/ PushReply(d)
=============================================================================
