------------------------------ MODULE SyncState ------------------------------
(***************************************************************************)
(* The state the sync engine, the CRUD services and the devices share.     *)
(*                                                                         *)
(* The database is Postgres under READ COMMITTED: `rows` is what is        *)
(* committed, `draft[d]` what the open transaction of a push by device d   *)
(* has written, which holds the lock on each row it wrote.                 *)
(* `lastSeq` is sync_state.last_seq; `lock[u]` is the row lock on the      *)
(* sync_state row of u, held from a push's allocation to its commit.       *)
(***************************************************************************)
EXTENDS SyncMerge, FiniteSets

CONSTANTS
  Devices,    \* installed mobile clients
  UserOf,     \* the account each device is signed in to
  NTables,    \* replicated tables, numbered in registry order
  TableOf     \* the table of each id

ASSUME DevicesAssumption ==
  /\ UserOf \in [Devices -> Users]
  /\ None \notin Devices
ASSUME IdsAssumption == IsFiniteSet(Ids)   \* UUIDs: 128 bits
ASSUME TablesAssumption ==
  /\ NTables \in Nat \ {0}
  /\ TableOf \in [Ids -> 1..NTables]

VARIABLES
  rows,      \* committed rows, by id
  draft,     \* uncommitted writes of each open push transaction
  lastSeq,   \* committed value of each account's sequence
  lock,      \* the device whose push holds the account's sync_state row
  clients,   \* sync_clients.last_pulled_seq of each device, or None
  cursor,    \* on the device: the cursor it will pull from
  held       \* on the device: the rows it last received

server == <<rows, draft, lastSeq, lock, clients>>
device == <<cursor, held>>
shared == <<server, device>>

NoRows == [id \in Ids |-> None]

StateInit ==
  /\ rows = NoRows
  /\ draft = [d \in Devices |-> NoRows]
  /\ lastSeq = [u \in Users |-> 0]
  /\ lock = [u \in Users |-> None]
  /\ clients = [d \in Devices |-> None]
  /\ cursor = [d \in Devices |-> 0]
  /\ held = [d \in Devices |-> NoRows]

StateTypeOK ==
  /\ rows \in [Ids -> Row \cup {None}]
  /\ draft \in [Devices -> [Ids -> Row \cup {None}]]
  /\ lastSeq \in [Users -> Nat]
  /\ lock \in [Users -> Devices \cup {None}]
  /\ clients \in [Devices -> Nat \cup {None}]
  /\ cursor \in [Devices -> Nat]
  /\ held \in [Devices -> [Ids -> Row \cup {None}]]

-----------------------------------------------------------------------------
\* What a statement of d's transaction reads: its own writes, then what is
\* committed at that moment.
Visible(d, id) == IF draft[d][id] # None THEN draft[d][id] ELSE rows[id]

\* No other open transaction has written the row.
RowFree(d, id) == \A e \in Devices \ {d} : draft[e][id] = None

\* wrong variant: the counter is read and written back past the row lock.
AllocateUnlocked(u, n) == lastSeq' = [lastSeq EXCEPT ![u] = @ + n]

\* SeqService.allocate, an autocommit upsert: it waits for the row lock.
Allocate(u, n) ==
  /\ lock[u] = None
  /\ lastSeq' = [lastSeq EXCEPT ![u] = @ + n]

\* wrong variant: the block is computed from a plain read of last_seq.
AllocateInTxUnlocked(d) == UNCHANGED <<lock, lastSeq>>

\* SyncService.allocateSeq: the same upsert inside a push's transaction, whose
\* new value nobody sees before the commit.
AllocateInTx(d) ==
  /\ lock[UserOf[d]] = None
  /\ lock' = [lock EXCEPT ![UserOf[d]] = d]
  /\ UNCHANGED lastSeq

Release(d) ==
  /\ lock' = [lock EXCEPT ![UserOf[d]] = None]
  /\ draft' = [draft EXCEPT ![d] = NoRows]

\* touchClient: an upsert on sync_clients whose failure is swallowed. A push
\* leaves the pulled position of a known device alone.
Touch(d, position) ==
  clients' \in {clients, [clients EXCEPT ![d] = position]}

Position(d) == IF clients[d] = None THEN 0 ELSE clients[d]

-----------------------------------------------------------------------------
OwnRow(u, row) == row # None /\ row.owner = u
=============================================================================
