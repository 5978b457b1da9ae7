-------------------------------- MODULE Sync ---------------------------------
(***************************************************************************)
(* The sync engine: pushes, web writes and pulls interleaved over one      *)
(* database, and the properties that make it a replication protocol.       *)
(***************************************************************************)
EXTENDS SyncPush, ScopedCrud, SyncPull

vars == <<shared, pushVars, webVars, pullVars>>

Init == StateInit /\ PushInit /\ WebInit /\ PullInit

Next ==
  \/ \E d \in Devices : PushStep(d) /\ UNCHANGED <<webVars, pullVars>>
  \/ \E w \in Handlers : CrudStep(w) /\ UNCHANGED <<pushVars, pullVars>>
  \/ \E d \in Devices : PullStep(d) /\ UNCHANGED <<pushVars, webVars>>

Spec == Init /\ [][Next]_vars

\* A push in progress goes on, and no longer than its 30 s timeout.  A device
\* keeps polling, and not every poll of it is lost.
Fairness ==
  \A d \in Devices :
    /\ WF_vars(PushProgress(d) /\ UNCHANGED <<webVars, pullVars>>)
    /\ WF_vars(PushFail(d) /\ UNCHANGED <<webVars, pullVars>>)
    /\ WF_vars(PullBegin(d) /\ UNCHANGED <<pushVars, webVars>>)
    /\ SF_vars(PullTable(d) /\ UNCHANGED <<pushVars, webVars>>)
    /\ SF_vars(PullDeliver(d) /\ UNCHANGED <<pushVars, webVars>>)

LiveSpec == Spec /\ Fairness

\* Every variable holds what the code can put there.
TypeOK == StateTypeOK /\ PushTypeOK /\ WebTypeOK /\ PullTypeOK

-----------------------------------------------------------------------------
(* The sequence                                                            *)

\* No two rows of an account carry the same number, and none lies above the
\* account's counter: a page may end at any row and resume after it
\* (SyncState's comment in schema.prisma; SeqService.allocate).
SeqsDistinct ==
  \A i \in Ids : rows[i] # None =>
    /\ rows[i].seq \in 1..lastSeq[rows[i].owner]
    /\ \A j \in Ids \ {i} :
         OwnRow(rows[i].owner, rows[j]) => rows[j].seq # rows[i].seq

(* Why: the parts of the invariant that make SeqsDistinct inductive.       *)

\* A push is in its transaction exactly while it holds its account's counter,
\* and only then has it uncommitted rows.
LockHeld ==
  \A d \in Devices :
    /\ InTransaction(d) <=> lock[UserOf[d]] = d
    /\ draft[d] # NoRows => InTransaction(d)

\* How far a push is through the block of numbers it reserved.
BlockUsed ==
  \A d \in Devices : InTransaction(d) =>
    LET base == lastSeq[UserOf[d]] IN
    /\ push[d].i \in 1..(Len(push[d].batch) + 1)
    /\ push[d].pc = "find"  => push[d].seq \in base..(base + push[d].i - 1)
    /\ push[d].pc = "write" => /\ push[d].i <= Len(push[d].batch)
                               /\ push[d].seq \in (base + 1)..(base + push[d].i)

\* Uncommitted rows carry distinct numbers of the block, all given out already.
DraftNumbered ==
  \A d \in Devices, i \in Ids : draft[d][i] # None =>
    /\ draft[d][i].owner = UserOf[d]
    /\ draft[d][i].seq > lastSeq[UserOf[d]]
    /\ draft[d][i].seq <= push[d].seq
    /\ push[d].pc = "write" => draft[d][i].seq < push[d].seq
    /\ \A j \in Ids \ {i} :
         draft[d][j] # None => draft[d][j].seq # draft[d][i].seq

\* A row another request has locked is one its own account may write.
DraftOwned ==
  \A d \in Devices, i \in Ids : draft[d][i] # None =>
    /\ rows[i] # None => rows[i].owner = UserOf[d]
    /\ \A e \in Devices \ {d} : draft[e][i] = None

\* What a write needs has been checked or filled in by the steps before it.
WriteReady ==
  /\ \A d \in Devices : push[d].pc = "write" =>
       /\ Pending(d).op = "delete" => push[d].existed
       /\ Pending(d).op = "upsert" =>
            /\ Pending(d).data # Malformed
            /\ Pending(d).data = Partial => push[d].existed
  /\ \A w \in Handlers : web[w].pc # "idle" =>
       /\ web[w].id \in Ids
       /\ web[w].op \in {"create", "update"} => web[w].data \in Values
       /\ web[w].pc = "write" \/ web[w].op = "create" => web[w].at \in Times

\* What a request found is still there, and still its account's, when it writes.
PushFoundStays ==
  \A d \in Devices : push[d].pc = "write" /\ push[d].existed =>
    OwnRow(UserOf[d], Stored(d))

WebFoundStays ==
  \A w \in Handlers : web[w].pc # "idle" /\ web[w].op # "create" =>
    OwnRow(WebUser[w], rows[web[w].id])

\* The number a web request holds is its own until it writes the row.
WebNumbered ==
  \A w \in Handlers : web[w].pc = "write" =>
    /\ web[w].seq \in 1..lastSeq[WebUser[w]]
    /\ \A i \in Ids : OwnRow(WebUser[w], rows[i]) => rows[i].seq # web[w].seq
    /\ \A x \in Handlers \ {w} :
         web[x].pc = "write" /\ WebUser[x] = WebUser[w] => web[x].seq # web[w].seq

\* A pull has collected committed rows of its own account.
GotBounded ==
  \A d \in Devices : \A e \in pull[d].got :
    e.row.seq <= lastSeq[UserOf[d]]

SeqInv ==
  /\ TypeOK
  /\ SeqsDistinct
  /\ LockHeld /\ BlockUsed /\ DraftNumbered /\ DraftOwned
  /\ WriteReady /\ PushFoundStays /\ WebFoundStays
  /\ WebNumbered /\ GotBounded

-----------------------------------------------------------------------------
(* Pull                                                                    *)

\* A device holds the current version of every row of its account whose number
\* its cursor has passed ("every row in (since, cursor] is present").
Covered ==
  \A d \in Devices, id \in Ids :
    OwnRow(UserOf[d], rows[id]) /\ rows[id].seq <= cursor[d]
      => held[d][id] = rows[id]

\* The same for the rows that only other devices write, whatever d makes of the
\* cursor a push answers with ("The client's new cursor", sync.dto.ts).
PeerRowsCovered ==
  \A d \in Pollers :
    \A id \in Ids \ UNION {{b[i].id : i \in DOMAIN b} : b \in Batches[d]} :
      OwnRow(UserOf[d], rows[id]) /\ rows[id].seq <= cursor[d]
        => held[d][id] = rows[id]

\* The row was there when d's pull began, above its cursor, and has not been
\* given a newer number since.
Due(d, id) ==
  /\ OwnRow(UserOf[d], asOf[d][id])
  /\ asOf[d][id].seq > pull[d].since
  /\ rows[id] = asOf[d][id]

\* Whatever else commits while the tables are being queried, a page holds every
\* row that was due below its new cursor.
PageComplete ==
  \A d \in Devices, id \in Ids :
    Collected(d) /\ Due(d, id) /\ rows[id].seq <= NewCursor(d)
      => [id |-> id, row |-> rows[id]] \in Page(d)

\* A page that says there is no more holds every row that was due: a client
\* never stops a page early.
NoEarlyStop ==
  \A d \in Devices, id \in Ids :
    Collected(d) /\ ~HasMore(d) /\ Due(d, id)
      => [id |-> id, row |-> rows[id]] \in Page(d)

(* Why: the parts of the invariant that make these two inductive.          *)

\* A number a row carried when a pull began is spent: nobody will write it again,
\* so a row that has changed since does not come back to what it was.
AsOfSpent ==
  \A d \in Devices, id \in Ids : asOf[d][id] # None =>
    /\ asOf[d][id].seq <= lastSeq[asOf[d][id].owner]
    /\ \A w \in Handlers : web[w].pc = "write" /\ WebUser[w] = asOf[d][id].owner
         => web[w].seq # asOf[d][id].seq

\* A page's worth of rows below the row of id has been collected.
FullBelow(d, id) ==
  Cardinality({e \in pull[d].got : e.row.seq < rows[id].seq}) >= Cap

\* Of the tables queried so far, every row due has been collected or has no place
\* on the page.
TablesRead ==
  \A d \in Devices :
    /\ IsFiniteSet(pull[d].got)
    /\ \A id \in Ids : Due(d, id) /\ TableOf[id] < pull[d].table =>
         \/ [id |-> id, row |-> rows[id]] \in pull[d].got
         \/ pull[d].more /\ FullBelow(d, id)

PageInv == SeqInv /\ AsOfSpent /\ TablesRead

\* A device has the rows of its account as they are, and no others.
Agrees(d) ==
  \A id \in Ids : IF OwnRow(UserOf[d], rows[id]) THEN held[d][id] = rows[id]
                                               ELSE held[d][id] = None

\* No row of its account is above the device's cursor: its next pull finds nothing.
CaughtUp(d) == \A id \in Ids : OwnRow(UserOf[d], rows[id]) => rows[id].seq <= cursor[d]

\* A device whose next pull would find nothing has the rows of its account as they are,
\* tombstones included, and nothing else: pull's cursor never leaves it wrong for good.
CaughtUpAgrees == \A d \in Devices : CaughtUp(d) => Agrees(d)

\* Once nobody writes, every device ends up with exactly its account's rows.
Converges == <>[](\A d \in Pollers : Agrees(d))

-----------------------------------------------------------------------------
(* Push                                                                    *)

Commits(d) == push[d].pc = "find" /\ push'[d].pc = "reply"

\* A step leaves a row alone, or belongs to a request of the row's account.
OwnRowsStep ==
  \A id \in Ids : rows'[id] # rows[id] =>
    /\ rows'[id] # None
    /\ rows[id] # None => rows'[id].owner = rows[id].owner
    /\ \/ \E d \in Devices : UserOf[d] = rows'[id].owner /\ push'[d] # push[d]
       \/ \E w \in Handlers : WebUser[w] = rows'[id].owner /\ web'[w] # web[w]

\* A row is changed only by a request of the account that owns it, never changes
\* hands and never disappears (push's not_owned branch; findOne's scope).
OwnRowsOnly == [][OwnRowsStep]_vars

\* The row is what change c asked for.
Shows(row, c) ==
  /\ row # None
  /\ row.updatedAt = c.updatedAt
  /\ row.deleted = (c.op = "delete")
  /\ c.op = "upsert" /\ c.data \in Values => row.data = c.data

\* A change the response counts as applied is in the database when the push
\* commits, or a later change of the same batch to the same row is: the outbox
\* is never cleared of a row that did not land.
AppliedLands ==
  [][\A d \in Devices : Commits(d) =>
       \A i \in push[d].applied : \E j \in push[d].applied :
         LET a == push[d].batch[i]
             b == push[d].batch[j]
         IN j >= i /\ b.id = a.id /\ Shows(rows'[b.id], b)
    ]_vars

\* Last writer wins: no commit lowers a row's updatedAt, and after a push the
\* account's rows are at least as recent as every change it carried.
NewestWins ==
  [][/\ \A id \in Ids : rows[id] # None =>
          rows'[id].updatedAt >= rows[id].updatedAt
     /\ \A d \in Devices : Commits(d) =>
          \A i \in DOMAIN push[d].batch :
            LET c == push[d].batch[i]
            IN OwnRow(UserOf[d], rows'[c.id])
                 => rows'[c.id].updatedAt >= c.updatedAt
    ]_vars

(* Why: the parts of the invariant that make these two inductive.          *)

\* The last of a batch's applied changes to a row is in the uncommitted row.
AppliedReady ==
  \A d \in Devices : InTransaction(d) =>
    /\ push[d].applied \subseteq 1..(push[d].i - 1)
    /\ \A i \in push[d].applied : \E j \in push[d].applied :
         LET a == push[d].batch[i]
             b == push[d].batch[j]
         IN j >= i /\ b.id = a.id /\ Shows(draft[d][b.id], b)

AppliedInv == SeqInv /\ AppliedReady

\* A batch comes to a row in the order of its changes.
BatchInOrder ==
  \A d \in Devices : InTransaction(d) =>
    \A j, k \in DOMAIN push[d].batch :
      LET a == push[d].batch[j]
          b == push[d].batch[k]
      IN j < k /\ a.id = b.id => a.updatedAt <= b.updatedAt

\* What a push has written or is about to write is newer than what is there.
DraftNewer ==
  \A d \in Devices, i \in Ids : draft[d][i] # None /\ rows[i] # None =>
    draft[d][i].updatedAt >= rows[i].updatedAt

WriteNewer ==
  \A d \in Devices : push[d].pc = "write" /\ push[d].existed =>
    Pending(d).updatedAt >= Stored(d).updatedAt

\* Of the changes a push is done with, none is newer than the account's row.
DoneNewer ==
  \A d \in Devices : InTransaction(d) =>
    \A k \in 1..(push[d].i - 1) :
      LET c == push[d].batch[k]
      IN OwnRow(UserOf[d], Visible(d, c.id)) =>
           Visible(d, c.id).updatedAt >= c.updatedAt

NewestInv == SeqInv /\ BatchInOrder /\ DraftNewer /\ WriteNewer /\ DoneNewer

-----------------------------------------------------------------------------
(* What the engine implements while pushes are the only writers and one    *)
(* table holds every row.                                                  *)
Feed == INSTANCE ChangeFeed WITH rows <- rows, cursor <- cursor, held <- held
ImplementsFeed == Feed!Spec

PushesOnly == Handlers = {} /\ NTables = 1 /\ ~AdoptPushCursor

(* Why: the parts of the invariant that make Covered inductive then.       *)

\* No cursor is ahead of its account's counter, and a pull is at the cursor its
\* device still has.
CursorsBehind ==
  \A d \in Devices :
    /\ cursor[d] <= lastSeq[UserOf[d]]
    /\ pull[d].table # 0 => pull[d].since = cursor[d]

\* What a pull has collected lies above its cursor, and is current unless the row
\* has been published anew, above everything collected.
GotCurrent ==
  \A d \in Devices :
    /\ pull[d].table = 1 => pull[d].got = {}
    /\ \A e \in pull[d].got :
         /\ e.row.owner = UserOf[d] /\ e.row.seq > pull[d].since
         /\ OwnRow(UserOf[d], rows[e.id])
         /\ \/ rows[e.id] = e.row
            \/ \A f \in pull[d].got : f.row.seq < rows[e.id].seq

\* What a pull has not collected has no place on the page, or was published since.
NotGot ==
  \A d \in Devices, id \in Ids :
    Collected(d) /\ OwnRow(UserOf[d], rows[id]) /\ rows[id].seq > pull[d].since =>
      \/ [id |-> id, row |-> rows[id]] \in pull[d].got
      \/ FullBelow(d, id)
      \/ \A e \in pull[d].got : e.row.seq < rows[id].seq

FeedInv == PageInv /\ CursorsBehind /\ GotCurrent /\ NotGot /\ Covered

\* A device has rows of its account only: those pulled have not changed hands since.
HeldOwn ==
  \A d \in Devices, id \in Ids :
    held[d][id] # None => OwnRow(UserOf[d], rows[id])
=============================================================================
