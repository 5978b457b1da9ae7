# planner-api: models and proofs

planner-api is the server of an offline-first planner: a NestJS application over
one Postgres database.  Mobile clients keep a full copy of their account's rows
and replicate it with `POST /sync/push` and `GET /sync/pull`; the web client
edits the same rows through ordinary REST handlers.  These modules model the
replication engine, recurring tasks and meetings, and accounts with the files they
own; TLC checks small instances, and TLAPS proves every safety property the passing runs
check, for every instance.

## Inventory

| Component | State it keeps | Operations | Hard part |
|---|---|---|---|
| sync engine (`modules/sync`) | rows of 13 tables, `sync_state.last_seq`, `sync_clients` | push, pull, status | concurrent transactions, paging over tables, conflict rule, lost answers |
| sync registry | table order, columns | get, coerce | which payloads abort a batch |
| sequence allocator (`common/crud/seq.service.ts`) | `sync_state.last_seq` | allocate, next | number and write are two statements |
| scoped CRUD (`common/crud/scoped-crud.service.ts`) | rows | create, update, remove, restore, list | check-then-write, not in a transaction |
| tasks | tasks, checklist items, activity entries | complete, removeTask, reopen, drop, carryForward, checklist | several statements over several tables |
| recurrence | tasks of a series | spawnNextOccurrence, materialiseDueSeries | two creators of one occurrence, a crash between completion and spawn, calendar arithmetic |
| accounts (`modules/users`, guard) | users, principal cache, Firebase users | resolvePrincipal, deleteAccount, adoptAnonymous, sweepAnonymous | two systems without a common transaction, a cache per process |
| attachments, voice notes, storage | object keys, objects in R2 | createWithUpload, requestUpload, confirmUpload, update, remove | a guest's quota, upload and row out of step |
| meetings | raw notes, note items | splitRawNotes, note item edits | check-then-rebuild, numbers reserved before they are used |
| activity, organizations, projects, notes, decisions, requirements | rows | scoped CRUD with parent checks | none of their own |
| http shell, configuration, health, deployment | none | | not modelled |

Interaction is through the database.  Every writer draws numbers from its
account's `sync_state` row and stamps them into `seq`; a pull reads `seq` only.
Push allocates inside its transaction, everybody else in a statement of its own.
Tasks call recurrence; adoption moves rows between accounts with numbers of the
target; erasure deletes rows, counter and user.

What makes each part correct:

- *sequence*: no two rows of an account share a number, none is above the counter.
- *pull*: a device has the current version of every row its cursor has passed;
  a page is complete up to its cursor; the client is not told to stop early.
- *push*: last writer wins; a batch is applied as a whole or not at all; what is
  counted as applied is there; another account's row is never touched.
- *together*: once writing stops, every device ends up with its account's rows.
- *tasks and recurrence*: an occurrence has one successor, however often it is completed; a
  completed occurrence is followed by the next, on the date the rule gives; a
  deleted task leaves no live children; subtasks stay one level deep.
- *meetings*: each raw line becomes one note; rebuilding replaces what was there.
- *accounts*: an erasure leaves nothing behind and finishes; adoption loses no live
  row; a guest who has linked a sign-in is not swept.
- *attachments*: a row that names an object names one that exists.

`PROJECT.json` lists the hazards with their lines, and which property covers each.

## Modules

    SyncMerge    the conflict rule and the row a change leaves (pure operators)
      TieOrder   two copies of the server, two changes in both orders
      SyncState  the database, the sequence, the devices: shared variables
        SyncPush    POST /sync/push, one action per statement
        ScopedCrud  create, update, remove, restore, one action per statement
        SyncPull    GET /sync/pull, one action per table queried, and the device
          Sync      the three interleaved; properties; fairness
            MCSync     instances for TLC
            SyncProofs   types, numbers, ownership
              PullProofs   pages of a pull; the engine implements ChangeFeed
                PushProofs   applied changes, the conflict rule
    ChangeFeed   what the engine promises, without requests

    RecurrenceDates  nextAfter and reminderFor on the Gregorian calendar
      Series       one recurring task: spawnNextOccurrence and the nightly sweep
        Tasks      complete, undo, edit, delete, checklist, crashes; properties; fairness
          Meetings   a meeting and its note items beside them
          MCTasks    instances for TLC
            MCSeries     the same, and the calendar checked over bounded inputs
            MCMeetings   instances with the meeting
            TaskProofs   types, dates of the occurrences
              NumberProofs numbers of the rows
                SerialProofs requests that do not overlap
      DateProofs   the calendar and nextAfter (TaskProofs uses it too)

    AccountState Firebase, users, the principal cache, files, objects: shared variables
      SignIn     the guard and resolvePrincipal; tokens, linking, time
        Uploads    attachments and voice notes, presigned URLs, confirmation
        Erasure    deleteAccount, adoptAnonymous, sweepAnonymous, eraseUser
          Accounts   the three interleaved, crashes; properties; fairness
            MCAccounts  instances for TLC
            AccountProofs types, erasures, adoption, the sweep

The three groups share no variables.  Each has its own copy of the allocator: what the
first group establishes of it (numbers are distinct whoever draws them) the others
use as one step, since a statement that allocates is atomic outside a push.

| Variable | Code |
|---|---|
| `rows` | committed rows of the 13 tables: owner, column values, deletedAt, updatedAt, seq |
| `draft[d]` | uncommitted writes of the push transaction of device d, each holding its row's lock |
| `lastSeq`, `lock` | `sync_state.last_seq`, and the lock on that row a push holds until it ends |
| `clients` | `sync_clients.last_pulled_seq` |
| `push[d]` | the handler's local state: ordered batch, place in it, `seq`, whether the row existed, the changes counted in `applied` |
| `web[w]` | a CRUD request between its statements: found, numbered, to be written |
| `pull[d]` | the handler's local state: next table, `since`, `collected`, `truncated` |
| `cursor`, `held` | the device (outside this repository): its cursor and its copy |
| `asOf` | history variable: the rows when the pull began |

In `Series` and `Tasks` a worker (`worker[w]`) is a request handler or the sweep; its
`pc` names the next database statement and its other fields are the handler's
local variables (`kids`, `links`: what it read; `base`: the number it was given).
`tasks`, `items` and `activities` are the rows, in order of creation; `rule` says
whether the recurrence rule is there; `lastSeq` is the account's counter.  One series of one account is modelled: the sweep
treats the series one by one and nothing relates two of them.  Pushes appear as
single steps (`PushCompletion`, `PushRuleEnd`), since `SyncPush` has their inside.
`from`, `copy`, `of` and `overlap` are history: what a row was made from, and whether
any request has run beside another.  A deadline is a day (`due`) and what gave it its time of
day (`at`): the series, or, when it was created from a task without a deadline, the moment
that task was completed.  A successor is recognised by the exact timestamp, so by both
(`Existing`); of times that come from two completions it is left open whether they agree
(`SpawnFound`), as some rules cut them to the minute.

A date is a number of days, day 1 being 1 January 2024.  `RecurrenceDates` builds
the calendar behind JavaScript's `Date` from the lengths of years and months and
translates `nextAfter`, its helpers and `reminderFor` onto it.  Every rule keeps the time of
day.  A rule ends at an instant: `endsEarly` says that it is earlier in its day than
the deadlines are in theirs, and then an occurrence due on the end date is one too many
(`Over`; the rule of run `tasks` is such).  A rule may hold any integers, as a push takes whatever
integer the device sends (`RecurrenceSpec`); `CalendarSpec` are those whose day and month are the
calendar's, `RecurrenceSpecDto` those `createTask` accepts.  `None` is null, apart from 0, which a
pushed day of the month may be (the last day of the month before).  `Fits` says what a rule promises of two dates without
computing the second; `OnSchedule` holds every occurrence the server creates to it.
The assumptions of `MCSeries`, which TLC evaluates in run `series`, check the
calendar against a day-by-day count (`CalendarRight`), every kind of rule against
`Fits` (`DatesAgree`), and that a rule with a day of the month does not drift
through short months (`NoDrift`): all dates of 2024 to 2028 and the turns of
February in 2100 and 2400.

`Meetings` adds one meeting and its note items to the rows of `Tasks`: the raw notes
are so many non-empty lines, a note item remembers the line it came from
(history), whether it was processed and what it became.  Requests for it run on
the same handlers and draw from the same counter as those for the tasks.

In the account modules a worker is again a request or the process of the guest sweep.

| Variable | Code |
|---|---|
| `firebase`, `stale` | Firebase's users (guest, linked, gone), and tokens that verify although the user has changed or gone: verification is local |
| `users` | the users table by Firebase uid: account id, `anonymous`, seen within 30 days |
| `cache` | the principals map of the server; the sweep is a process of its own with an empty one |
| `lastSeq` | `sync_state.last_seq` by account |
| `files` | attachments and voice notes: owner, deletedAt, seq, object key; they stand for all 13 tables of an account |
| `urls`, `objects` | upload URLs a client holds, objects in the bucket |
| `worker[w].rows` | the rows an erasing transaction has deleted so far, and whose locks it holds (`Unlocked`) |
| `crossed` | history: keys that were confirmed for another file than they were made for |
| `lost` | history: accounts erased by a commit whose answer was lost |
| `torn` | history: has an erasure (of an account, of one listed for the sweep, or of the objects left of one) run beside another request of that account, or has a request been served from the principal of a lost account? |
| `seenAs` | history, per user: "linked" once served as a member; "late" once a guest's token arrived after that user linked a sign-in; "back" once its row was written while the sweep had it listed |

Adoption reads the tables one by one (`AdoptList`, `AdoptMore`), and erasure reads keys and
deletes rows table by table (`EraseKeys`, `EraseFirst`, `EraseRows`): each is a statement of its
own, and under READ COMMITTED sees what others have committed in between.  The
attachments and the voice notes stand for any two tables, in the order `SYNC_TABLES` has them, and the
reverse for deletions.

A confirmation checks that the key has the account's prefix, not which row it was made for, so two
rows can name one object (`crossed`).  When one of them is a tombstone of a guest's and the other is
adopted, erasing the guest deletes the object of the other; `ObjectsThere` leaves such keys out.

A token names a user and says whether it is a guest's.  Cached principals may be
ignored at any request, which covers their five minutes, the eviction of the
oldest and an idle server's restart.  `Restart` in the middle of requests ends all of
them and empties the cache; `Fail` ends one request, or the sweep, at the statement that
failed, `EraseUnheard` after a commit whose answer was lost; what the code catches
(`Caught`) ends nothing.  `Month` is the passing of thirty days for one user: no
token, URL or cache entry lasts that long.  `Link` and `Put` are Firebase and R2
acting by themselves.

Column values in the replication modules are one model value per row; a payload is a value, one with
required columns missing (`Partial`: refused on create, merged on update) or one
`coerce` throws on (`Malformed`).  Instants are small naturals.  Ids are global,
as the UUIDs they stand for; each belongs to one table.

Database behaviour is READ COMMITTED: a statement sees its transaction's writes
and what is committed at that moment, and an update waits for the row lock.  A
wait is a disabled action; a deadlock ends in the same rollback as a timeout
(`PushFail`).  A write by the web waits for drafts on its row; it has no lock of
its own between statements, because it has no transaction.

`ChangeFeed` is the abstract specification: rows are published to an account's
feed above everything in it, and a device moves its cursor forward only to a
point up to which it holds everything.  `ImplementsFeed` is the refinement, from `Feed`, an
`INSTANCE ChangeFeed WITH` the engine's `rows`, `cursor` and `held`: what is committed and what the
device has; drafts, locks and half-read pages are what the abstraction hides.

Definitions marked "wrong variant" describe what a plausible slip in the code
would do (a missing ownership check, a cursor taken from the wrong row, an
allocation without the lock).  Nothing uses them; substituting one for the
definition that follows it makes the corresponding property fail.

## Runs

| Run | Instance | Shows |
|---|---|---|
| `sync_push` | three devices of two accounts, two ids in one table, one push each, page size 1, no web writes | types, `SeqsDistinct`, `Covered`, `CaughtUpAgrees`, `OwnRowsOnly`, `NewestWins`, `ImplementsFeed`, and under fairness `Converges` |
| `sync_full` | one device, two web handlers, three ids in two tables, page size 1, the push cursor adopted or not | `SeqsDistinct`, `PageComplete`, `NoEarlyStop`, `AppliedLands` |
| `crud_gap` | one push, one web write | `Covered` fails: a web write's number is overtaken |
| `pull_tables` | one push over two tables | `Covered` fails: a commit between two of the pull's queries |
| `push_cursor` | two devices | `PeerRowsCovered` fails when the push's cursor is adopted |
| `tie_order` | two changes, both orders | `TiesAgree` fails: the first to arrive stays |
| `tasks` | two handlers and the sweep, all operations on a task and a meeting, two requests, one crash; the 31st of every month until early on 31 March | `TypeOK`, `NumbersDistinct`, `DeleteCleans`, `NotesOK`, `NotesNumbered`, `HistoryOnce`, `ChecklistCarried`, `OnSchedule`, `SplitOnce` |
| `series` | one handler and the sweep, complete, reopen, drop, delete, a new checklist item, pushed completions and the end of the rule, three requests, one crash, three dates, completions dated in any order; the date assumptions | `SpawnsOnce`, and under fairness `Repaired` |
| `series_fork` | two handlers | `NoFork` fails: a completion and the sweep at once, or two completions, create two successors |
| `sweep_stuck` | one handler, undo and pushes | `GoesOn` fails: the sweep looks at the occurrence completed last, not at the last one |
| `accounts` | a guest with an uploaded photo and a member, two handlers and the guest sweep, two requests (an edit writes what `ask` and `confirm` do), one failure or crash, an attachment and a voice note | `TypeOK`, `NoOrphans`, `NumbersDistinct`, `ObjectsThere`, `LinkedKept`, `AdoptionKeeps` |
| `erasure` | the same accounts, one handler, one deletion | `DeletionsFinish` fails: a member's deletion that dies is never finished |

The runs with a property that fails are disagreements between the code and its comments or tests,
quoted in `PROJECT.json`.  They delimit what the passing runs say: `Covered` and the
refinement hold when pushes are the only writers, one table holds the rows and a
device keeps to the cursors of its pulls.  `PageComplete` and `NoEarlyStop` are what
holds of a page without these restrictions.  `NewestWins` is stated for pushes only: a web edit
that commits between a push's read and its write is overwritten.

Bounds.  `MaxPushes`, `MaxEdits`: requests per device and handler; one of each,
with three actors, gives every pairwise interleaving of their statements.
`Pollers`: only one device pulls, as pulls do not affect each other.  `Cap` is 1
and there are up to three rows, so pages overflow, both from one table and from
several.  `Batches` are chosen to hold a create, an edit, a tie, a stale change, a delete
of a known and of an unknown row, an undelete, a partial and a malformed payload, unsorted
changes, and ids another account owns.  Two instants are enough for
older, equal and newer.  The pulls are unbounded.

`MaxRequests`, `MaxCrashes`: in `tasks` two requests of any kind meet the sweep at every
pair of statements; in `series` three in a row give the undo the tests have
(complete, reopen, complete) with a sweep and a crash between any two statements.
`NumbersDistinct`, `OnSchedule` and `TypeOK` hold however requests overlap, `Repaired` however a
request and the sweep do.  `SpawnsOnce`,
`HistoryOnce`, `ChecklistCarried` and `DeleteCleans` are stated while `overlap` is false: the code
takes no lock between looking and writing and does not look again, so that two requests at once
break each of these promises.  `series_fork` shows how; in the same way two completions write two
history entries ("completing twice does not double the history", `tasks.int-spec.ts`), an entry or
an item written while its task is being deleted goes on naming it ("clears the Activity links that
pointed at it", `removeTask`), and two splits make two notes of a line ("one per non-empty
line", `splitRawNotes`).  The properties still cover crashes and retries, sweeps between requests, and
every order of operations.

`SpawnsOnce` is stated by deadline, as the successor is recognised by its deadline alone.  A task
without one is anchored at the moment of its completion, so that completed again after an undo it has a
second successor at another instant, with nothing overlapping; so has an occurrence whose successor
was moved to another date.  `NoFork`, stated by occurrence, fails in both histories too.

In `accounts`, two requests and a sweep meet at every pair of statements, or follow
one another with a month between: a guest links a sign-in and is cached, an
adoption dies and is tried again, a photo is asked for, put and confirmed.  One
attachment is the guest's whole quota.  `MCSpec` of `MCAccounts` bounds the run further: everybody
starts cached, which a request may ignore (an entry may be too old); the member, whom the sweep does
not look for, is never away for a month; and of the two requests only the first creates, asks or
removes, for the guest.  A request may be as slow as it likes, so the first one still meets every
statement of the second, before it and after it.  The proofs are of `Spec`, without these bounds.

`NumbersDistinct`, `NoOrphans`, `ObjectsThere` and `AdoptionKeeps` are stated while `torn` is false.  A request
that resolved its account before the erasure still writes its rows after it, as no statement checks that
the account is there, and a row written between an adoption's move and its erasure is erased with the
guest ("whatever is left under the guest is soft-deleted rows and bookkeeping",
`adoptAnonymous`).  An erasing transaction whose commit is not
heard of (`EraseUnheard`) does not set `torn`, nor does the principal an adopted guest has then left
in the cache for up to five minutes (`CacheOK`, `lost`); the first request it serves does, and writes
orphans.

`LinkedKept` holds whatever overlaps, and says whom the sweep's list cannot contain: somebody
served as a member.  Two histories defeat it, and are left out.  A guest's token, made before the
linking, that arrives after it sets the row back to `anonymous` until the member's next uncached
request ("late").  And who is on the list already is erased whatever it does ("back"): the sweep does
not look again.
`DeletionsFinish` says that an account which cannot be signed in to goes in the end, and that nothing is left
that belongs to nobody; run `erasure` shows it fail with nothing overlapping, and orphans, which nothing
ever takes away, make it fail too.

Deadlock is checked in every run: devices can always poll, the
sweep can always run (`TieOrder` ends in a
stuttering step once all is delivered).

Fairness (`LiveSpec`, for `Converges` only).  A push in progress continues (`WF`
on `PushProgress`) or reaches its 30 s timeout (`WF` on `PushFail`): Prisma's
`timeout` option guarantees the second.  A device polls again (`WF` on
`PullBegin`) and not every poll dies or is lost (`SF` on `PullTable` and `PullDeliver`): the
protocol retries from the same cursor until an answer arrives.  No fairness is
assumed of beginning a push or of a web request.  For `Repaired` and `GoesOn`: the timer
starts the sweep again and again (`WF` on `Sweep`), and a request that has not
died goes on to create the next occurrence (`WF` on `SpawnStep`).  For `DeletionsFinish`
(`LiveSpec` of `Accounts`): a request that has not died goes on (`WF` on `Serve`), the timer starts the
guest sweep again and again (`WF` on `Sweep`), and for whoever has no Firebase
user a month without a request comes (`WF` on `Month`).

## Proofs

Eight modules hold theorems; tlapm checks every leaf.  They are about every
set of users, devices, ids, tables, handlers, files, every batch, rule and bound that the
named assumptions of the modules allow.  Each safety property is proved from an
inductive invariant, which TLC checked on the instances above before it was proved.
The parts of the invariants are definitions of `Sync`, `Meetings` and `Accounts`, beside the
properties they explain, or (`TaskTypeInv`, `Settled`) of the proof module.

| Module | Theorems | Inductive invariant |
|---|---|---|
| `SyncProofs` | `TypeCorrect`, `SeqsAreDistinct`, `AccountsApart` | `SeqInv` |
| `PullProofs` | `PagesComplete`, `PagesDoNotStopEarly`; `CursorsCover`, `CaughtUpDevicesAgree`, `EngineImplementsFeed` for `PushesOnly` | `PageInv`; `FeedInv`, `HeldOwn` |
| `PushProofs` | `AppliedChangesLand`; `NewestChangeWins` for pushes only | `AppliedInv`, `NewestInv` |
| `DateProofs` | `NextFits`, `NextExact`, `DatesDoNotDrift` | none: `nextAfter` is a function |
| `TaskProofs` | `TaskTypesCorrect`, `TypesCorrect`, `NotesTyped`, `OccurrencesOnSchedule` | `TypeInv` |
| `NumberProofs` | `RowsNumberedApart`, `NotesNumberedApart` | `TypeInv /\ NumbersInv` |
| `SerialProofs` | `OccurrencesOnce`, `OccurrencesOnceBesideMeetings`, `DeletionsClean`, `HistoryTellsOnce`, `ChecklistsCarried`, `SplitsOnce` | `TypeInv /\ SerialInv /\ SplitInv` |
| `AccountProofs` | `AccountTypes`, `AccountsNoOrphans`, `AccountsNumbersDistinct`, `AccountsObjectsThere`, `SweepKeepsLinked`, `AdoptionLosesNothing` | `AccountsInv` |

### The engine

`SeqsDistinct` is not inductive: a commit could publish two drafts with one
number, or a number below the counter, unless something is known of the drafts.
`SeqInv` adds it:

- `LockHeld`: a push is in its transaction exactly while it holds its account's
  counter, so at most one push per account numbers rows at a time;
- `BlockUsed`: the last number given out is within the block reserved, and behind
  the place in the batch;
- `DraftNumbered`, `DraftOwned`: drafts carry distinct numbers of the block, of
  rows their own account may write;
- `WebNumbered`: a number a web request holds is at most the counter, hence below
  any block, and nobody else's;
- `WriteReady`, `PushFoundStays`, `WebFoundStays`: what was checked when a request
  looked still holds when it writes, since rows never vanish or change hands;
- `GotBounded`: a page has a highest number, so the cursor is defined.

`PageInv` adds what a pull has found after some of its tables.  `AsOfSpent`: the number
a row had when the pull began is never given again, so a row that is still as it was then
is told from one that has been numbered anew.  `TablesRead`: of the tables queried,
each row due is collected, or a page's worth of lower numbers is
(`FullBelow`).  The argument that the k lowest rows of all tables are among the k
lowest of each is in `PullTableCollects`, `DueCollected` and `OnPage`; it counts rows,
hence `IsFiniteSet(Ids)`.

`FeedInv` adds where the cursors are: `CursorsBehind`, a cursor is at most the
account's counter, and a pull reads from the cursor its device still has; `GotCurrent`, an entry of a
page is the row as it is, unless the row has been published anew above the whole page; `NotGot`, a
row missing from a page has no place on it or was published since.  The hypothesis `PushesOnly` (no web handlers, one table,
cursors taken from pulls only) is the exact complement of runs `crud_gap`,
`pull_tables` and `push_cursor`: dropping any of its three parts, `Covered` fails.
`EngineImplementsFeed` maps each step: a commit is a publication, a delivery an
advance of the cursor, everything else a stutter.  `CaughtUpDevicesAgree` is the safety half
of `Converges`: a device whose next pull would find nothing has its account's rows as they
are, and no others.  It needs, beside `Covered`, that what a device has been given has not
changed hands since (`HeldOwn`).

`AppliedInv` follows a batch: the last of the changes counted as applied to a row is the draft's.
`NewestInv` adds that a batch is sorted by time, that a draft is no
older than the row below it, and that what a push is about to write, or has passed over, is not
newer than what it leaves.  `NewestChangeWins` assumes `Handlers = {}`: a web
edit stamps the server's clock, commits between a push's read and its write, and is
overwritten by an older change.

### Dates, tasks and meetings

`DateProofs` builds the Gregorian calendar up from the lengths of years and
months: every date has one year, month and day (`YearAt` finds the year from
`Cycle`, the 146097 days of 400 years, instead of searching for it), adding months and clamping lands in
the month meant, and `NextFits`: for every rule in `CalendarSpec` and every date,
`nextAfter` is a later date, on a day the rule promises, and not past the end.  `NextExact` adds
the converse: what `Fits` promises is one date, and `nextAfter` answers with it unless the rule
has ended by then, by the instant of its end date, so no series stops early or skips a date.  So the
assumptions of `MCSeries` (`CalendarRight`, `DatesAgree`) hold not only for the dates TLC looks at;
`DatesDoNotDrift` is `NoDrift` for every date, day of the month and interval.

`TypeInv` is more than types: `Consistent` says what a worker has kept since an earlier
statement (the date it will create is the one after its anchor, and there is one; lists that it
read name no row twice; a split has as many lines as the meeting had).  `OccurrencesOnSchedule` follows
from it and `NextFits`.  `NumbersInv` says that the blocks workers have reserved
and not used are disjoint, at most the counter, and meet no row's number.

What requests promise that do not overlap is a matter of what they read: nothing is locked
between looking and writing, so each promise rests on nobody having written in between.
`SerialInv` says so, while `overlap` is false: one worker at most is at work (`OneAtATime`),
what it has read is still so (`ReadStands`: the task it completes is alive and not done, the
occurrence it found missing is missing, the lists it made name the rows they should), and
items and history entries belong to tasks that are there (`ItemsHang`, `LinksLead`).
`SplitInv` adds the notes a split has read and the lines it has counted.  A request that dies, and a
step of its own that reads anew, keep them; a step that takes numbers
changes no row.  `BeginsOrGoesOn` and `Alone` turn `~overlap` into "the others are idle", one
lemma per operation then shows that `Stands` holds after its step (`CompleteStands`,
`EditStands`, `RemoveStands`, `SpawnStands`, ...).  The promises themselves are about one
transaction each, of which they say what it does given what was read.  `MeetingSpec` does not imply
`Spec` (a handler may be at a request of the meeting), so `SpawnsOnce`, which run `series` checks of
`Spec`, is proved of both.

### Accounts

`AccountsInv` has two layers.  The first holds whatever overlaps.  `FitInv`:
types, a counter for every account a request has come to know, a finite number of
keys around (so that there is a fresh one), and which statements a request of each
kind can be at.  `GuestInv`: what has been served as a member belongs to a
linked sign-in; somebody who has not been seen for a month has nothing cached and sends
nothing; and whom the sweep goes after, or has still listed, is a guest nobody has seen,
unless its row has been written since or is gone (`ListOK`).  `SweepKeepsLinked` follows
from this layer alone.  The second, `ApartInv`, holds while `torn` is false:

- `AccountKept`: the account of a request is there until the request itself erases it;
- `CacheOK`: a principal is cached of an account that is there, that an adopter has erased
  and is about to drop, or that is lost;
- `ErasureKept`: a deletion that has dropped its principal has not got it back; whom the
  sweep goes after is there; an adopter that has listed a table has every live row of it, and once
  the rows have moved none is left; an erasing transaction has deleted all there is of its first
  table (`rows`);
- `FileKept`, `WritersApart`: the row a request has looked up is its account's still,
  the number it has drawn is nobody's, the object it has seen is there, and no row but those to
  be erased names a doomed key, unless it is `crossed`.

`Settled` is `ApartInv` with the three invariants, for a state that is not torn.  One lemma per operation
shows that it preserves `Settled` (`UploadSettles`, `MoveSettles`, `EraseSettles`,
...); they rest on `QuietSettles` (a statement that changes no table), `RowSettles` (a
row of the request's own account is made or written), `CommitSettles` (an account is erased) and
`ClashApart` (what it means that nobody else acts for an account that is being erased).
`TornStays` lets the steps assume `~torn` before and after.

### Assumptions

Accounts of devices and handlers, tables of ids, batches that are sequences of changes, times
that are naturals; `None` and the special payloads are not rows or values; ids, accounts and
files are finitely many; rules are in `CalendarSpec`, in `Tasks` those `createTask`
accepts; one `endsEarly` for a series: the times of day its deadlines have, those given by a completion
included, lie on one side of its end date's; a PATCHed deadline has the series' own, and it and the
first deadline come before the rule's end (`Dates`); the accounts there are at first are numbered from 1
and their rows carry distinct numbers up to the counter.

### Only model-checked

Liveness, which is out of TLAPS's reach: `Converges` and `Repaired`.  Every invariant and action property of the passing runs is
the conclusion of a theorem.  The disagreements with comments are TLC's counterexamples, on
the instances of their runs.

## Not modelled

`status()` and the list endpoints, which only read.  Subtasks, profile fields and the
checks that a parent id is the caller's own, which precede every change of
state.  The registry's reading of
`schema.prisma`, the validation of request envelopes, wording, logging, HTTP.
`updatedAt` strings that are not in one format: the batch is sorted by string, the
conflict rule compares instants; the model has instants only.  Deadlines of
requests other than a push's.  A change of the clock (daylight saving) between two
occurrences.  The `@nestjs` shell, configuration, health checks and deployment
scripts keep no state.

Object reaping: `attachments.service.ts` refers to `jobs/reap-orphaned-objects.ts`,
which does not exist; objects of deleted rows and unconfirmed uploads stay in the
model's bucket, as they do in the real one, until the account is erased, and the
unconfirmed ones after it.

Referential actions: `schema.prisma` declares `relationMode = "prisma"`, so Prisma
itself looks for dependent rows when one is deleted.  Whether erasing a guest's
tombstoned meeting is refused because a live note item of it has been adopted
depends on that library and is not modelled.

## Plan

1. *Tasks*, the rest: subtasks one level deep, parent checks.
2. The registry's reading of `schema.prisma`, as a function from models to columns.
