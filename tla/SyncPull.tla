------------------------------ MODULE SyncPull -------------------------------
(***************************************************************************)
(* GET /sync/pull (SyncService.pull) and the device that calls it.         *)
(*                                                                         *)
(* The handler queries the replicated tables one after another, outside    *)
(* any transaction, each for its `Cap` lowest rows above the cursor, then  *)
(* cuts the merged result at `Cap`.  The device, which src/ holds only the *)
(* protocol of, stores the page's rows and its cursor together.            *)
(***************************************************************************)
EXTENDS SyncState

CONSTANTS
  Cap,       \* min(limit, sync.maxPullRows)
  Pollers    \* bound: the devices that pull

ASSUME CapAssumption == Cap \in Nat \ {0}
ASSUME PollersAssumption == Pollers \subseteq Devices

VARIABLES
  pull,    \* the pull request each device has in progress
  asOf     \* history: the committed rows when that request began

pullVars == <<pull, asOf>>

\* table: the next table to query, 0 when idle.  got: the rows collected, with
\* their ids.  more: some table had more rows than it returned.
NoPull == [table |-> 0, since |-> 0, got |-> {}, more |-> FALSE]

Entry == [id : Ids, row : Row]

PullTypeOK ==
  /\ pull \in [Devices -> [table : 0..(NTables + 1), since : Nat,
                           got : SUBSET Entry, more : BOOLEAN]]
  /\ asOf \in [Devices -> [Ids -> Row \cup {None}]]

PullInit ==
  /\ pull = [d \in Devices |-> NoPull]
  /\ asOf = [d \in Devices |-> NoRows]

-----------------------------------------------------------------------------
\* The k entries of S with the lowest numbers: orderBy seq, take k.
FirstBySeq(S, k) ==
  {e \in S : Cardinality({f \in S : f.row.seq < e.row.seq}) < k}

\* wrong variant: tombstones are filtered out, as everywhere else.
InRangeLive(u, t, since) ==
  {[id |-> id, row |-> rows[id]] :
     id \in {i \in Ids : /\ TableOf[i] = t
                         /\ OwnRow(u, rows[i]) /\ ~rows[i].deleted
                         /\ rows[i].seq > since}}

\* wrong variant: the rows of every account.
InRangeOfAll(u, t, since) ==
  {[id |-> id, row |-> rows[id]] :
     id \in {i \in Ids : /\ TableOf[i] = t
                         /\ rows[i] # None /\ rows[i].seq > since}}

\* userId = ..., seq > since, in one table.
InRange(u, t, since) ==
  {[id |-> id, row |-> rows[id]] :
     id \in {i \in Ids : /\ TableOf[i] = t
                         /\ OwnRow(u, rows[i])
                         /\ rows[i].seq > since}}

PullBegin(d) ==
  /\ d \in Pollers
  /\ pull[d].table = 0
  /\ pull' = [pull EXCEPT ![d] = [table |-> 1, since |-> cursor[d],
                                  got |-> {}, more |-> FALSE]]
  /\ asOf' = [asOf EXCEPT ![d] = rows]
  /\ UNCHANGED shared

\* findMany with take Cap + 1, the last one only to learn that there is more.
PullTable(d) ==
  LET inRange == InRange(UserOf[d], pull[d].table, pull[d].since)
      fetched == FirstBySeq(inRange, Cap + 1)
  IN
  /\ pull[d].table \in 1..NTables
  /\ pull' = [pull EXCEPT ![d].table = @ + 1,
                          ![d].got = @ \cup FirstBySeq(fetched, Cap),
                          ![d].more = @ \/ Cardinality(fetched) > Cap]
  /\ UNCHANGED <<shared, asOf>>

Collected(d) == pull[d].table = NTables + 1

Page(d) == FirstBySeq(pull[d].got, Cap)

\* wrong variant: only the collected rows are counted.
HasMoreCounted(d) == Cardinality(pull[d].got) > Cap

HasMore(d) == pull[d].more \/ Cardinality(pull[d].got) > Cap

\* wrong variant: the highest number collected, not the page's last.
NewCursorCollected(d) ==
  IF pull[d].got = {} THEN pull[d].since
  ELSE CHOOSE s \in {e.row.seq : e \in pull[d].got} :
         \A e \in pull[d].got : e.row.seq <= s

\* The number of the page's last row.
NewCursor(d) ==
  IF Page(d) = {} THEN pull[d].since
  ELSE CHOOSE s \in {e.row.seq : e \in Page(d)} :
         \A e \in Page(d) : e.row.seq <= s

Received(d) ==
  [id \in Ids |->
     IF \E e \in Page(d) : e.id = id
     THEN (CHOOSE e \in Page(d) : e.id = id).row ELSE held[d][id]]

Answer(d) ==
  /\ Collected(d)
  /\ Touch(d, NewCursor(d))
  /\ pull' = [pull EXCEPT ![d] = NoPull]
  /\ asOf' = [asOf EXCEPT ![d] = NoRows]
  /\ UNCHANGED <<rows, draft, lastSeq, lock>>

PullDeliver(d) ==
  /\ Answer(d)
  /\ cursor' = [cursor EXCEPT ![d] = NewCursor(d)]
  /\ held' = [held EXCEPT ![d] = Received(d)]

\* The response is lost: the server has recorded a position the device is not at.
PullLost(d) == Answer(d) /\ UNCHANGED device

\* The request dies before it has collected every table.
PullDie(d) ==
  /\ pull[d].table \in 1..NTables
  /\ pull' = [pull EXCEPT ![d] = NoPull]
  /\ asOf' = [asOf EXCEPT ![d] = NoRows]
  /\ UNCHANGED shared

PullStep(d) ==
  \/ PullBegin(d)
  \/ PullTable(d)
  \/ PullDeliver(d)
  \/ PullLost(d)
  \/ PullDie(d)
=============================================================================
