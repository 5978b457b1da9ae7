------------------------------ MODULE SyncMerge ------------------------------
(***************************************************************************)
(* What SyncService.push decides for one change against one stored row,    *)
(* and the row it then writes (sync.service.ts, SyncRegistry.coerce).      *)
(* Pure operators: SyncPush runs them inside its transaction, TieOrder     *)
(* runs them on two servers that receive the same changes in two orders.   *)
(***************************************************************************)
EXTENDS Naturals

CONSTANTS
  Users,      \* accounts: the owner of every row
  Ids,        \* client-generated row ids, over all tables
  Values,     \* column values of a row: one value stands for the whole tuple
  Times,      \* modification instants, as devices and the server claim them
  None,       \* "no row", "no holder", "no value"
  Partial,    \* a payload with some of the required columns missing
  Malformed   \* a payload with an unknown field or a value of a wrong type

ASSUME TimesAssumption == Times \subseteq Nat

Row == [owner : Users, data : Values, deleted : BOOLEAN,
        updatedAt : Times, seq : Nat]

Change == [op : {"upsert", "delete"}, id : Ids, updatedAt : Times,
           data : Values \cup {Partial, Malformed}]

ASSUME NoneAssumption == None \notin Row
ASSUME PayloadAssumption == Partial \notin Values /\ Malformed \notin Values

-----------------------------------------------------------------------------
(* Definitions marked "wrong variant" are not used: they are what a slip in *)
(* the code would turn the definition after them into (see README).         *)

NotOwnedNever(row, u) == FALSE   \* wrong variant: no ownership check

\* Another account already owns the id.
NotOwned(row, u) == row # None /\ row.owner # u

StaleNever(row, c) == FALSE      \* wrong variant: every change is accepted

\* serverUpdatedAt >= incomingUpdatedAt: the server wins ties.
Stale(row, c) == row # None /\ row.updatedAt >= c.updatedAt

\* The change is reported under "conflicts" and the row is left alone.
Conflicts(row, u, c) == NotOwned(row, u) \/ Stale(row, c)

\* wrong variant: required columns are not checked on create.
RefusedMalformedOnly(row, c) == c.op = "upsert" /\ c.data = Malformed

\* SyncRegistry.coerce throws: the request ends with 400.
Refused(row, c) ==
  /\ c.op = "upsert"
  /\ c.data = Malformed \/ (c.data = Partial /\ row = None)

\* A delete of a row the server never had.
Noop(row, c) == c.op = "delete" /\ row = None

-----------------------------------------------------------------------------
Created(u, c, s) ==
  [owner |-> u, data |-> c.data, deleted |-> FALSE,
   updatedAt |-> c.updatedAt, seq |-> s]

\* wrong variant: an upsert that leaves the tombstone in place.
UpsertedStillDeleted(row, c, s) ==
  [row EXCEPT !.data = IF c.data = Partial THEN @ ELSE c.data,
              !.updatedAt = c.updatedAt, !.seq = s]

\* Only the columns the payload carries are written, and the row is undeleted.
Upserted(row, c, s) ==
  [row EXCEPT !.data = IF c.data = Partial THEN @ ELSE c.data,
              !.deleted = FALSE, !.updatedAt = c.updatedAt, !.seq = s]

Tombstoned(row, c, s) ==
  [row EXCEPT !.deleted = TRUE, !.updatedAt = c.updatedAt, !.seq = s]

\* The row the change leaves, written over the stored `row` with number `s`.
Written(row, u, c, s) ==
  IF c.op = "delete" THEN Tombstoned(row, c, s)
  ELSE IF row = None THEN Created(u, c, s)
  ELSE Upserted(row, c, s)

\* The stored row after one change, nothing else running.
Outcome(row, u, c, s) ==
  IF Conflicts(row, u, c) \/ Noop(row, c) \/ Refused(row, c)
  THEN row ELSE Written(row, u, c, s)
=============================================================================
