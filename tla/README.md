# A verification project for toasty-driver-surreal

`toasty-driver-surreal` lets the Toasty ORM use SurrealDB as a key-value
database. Toasty's engine sends operations to a pool of connections; the driver
renders each as one or more SurrealQL statements, sends them through the
SurrealDB SDK, and turns the answers into rows, counts or classified errors.
This directory holds TLA+ models of that driver, TLC runs over small instances
of them, and TLAPS proofs that the central properties hold for every instance.

Paths below are relative to the repository root (`src/conn.rs` is the file the
`map` of PROJECT.json calls `src/src/conn.rs`).

## 1. Inventory of the system

| Component | State it keeps | Operations | What is hard | What makes it correct |
|---|---|---|---|---|
| Connection and transactions (`src/conn.rs`) | `transaction: Option<Transaction>`, `read_only: bool`; in the store: committed rows, open client transactions | `exec`: inserts, keyed reads and writes, queries, Start/Commit/Rollback; everything else refused | a call is suspended at each await while other connections commit; the handle is moved out before the await; answers may be errors or never come | handle and transaction stay paired; the read-only flag never outlives its transaction; a statement takes effect in one place; a commit is atomic and its result is told truthfully |
| Operation handlers (`src/op.rs`, `src/op/*`) | locals across awaits: the rows still to insert, the rows collected | one handler per operation | multi-row inserts are several statements; conditions are answered from the number of rows; decoding may fail after the effect | each handler does what its operation asks, once, or reports the error |
| Retrying clients (outside the repository) | the step a client is at | repeat the transaction on `serialization_failure` | conflicts, lost answers | increments applied exactly once; everybody finishes |
| Migration execution (`src/conn.rs`) | the tracking table `__toasty_migrations` | `applied_migrations`, `apply_migration` | concurrent runners, crashes between statements, failing cancel | each migration applied once, wholly or not at all, in order |
| Driver, sessions, reset (`src/lib.rs`) | the shared handle behind a mutex; the data directory | `connect` (`session`), `reset_db`, `max_connections` | lazy opening by several tasks at once; calls that fail or are dropped while they hold the mutex; `reset_db` gives it back before it removes the files; restarts | all connections made since a reset share one store; a connect after a reset is to a new one; no call waits for ever |
| Keyset pagination (`src/op/query_pk.rs`, `src/op/scan.rs`, `src/op/find_pk_by_index.rs`) | the cursor, held by the caller | `run_keyset_select`, `keyset_cursor`; an index lookup and the `GetByKey` after it | rows change between pages; ties of the sort key | no row twice, every row that was there throughout once, an end |
| Migration generation (`src/migration.rs`), `push_schema` (`src/conn.rs`) | none; in the store: tables, indexes, rows | `generate`, `render_alter_table`, `define_table_statements` | statement order within and across tables, renames, guards, an index builder that does not see its own transaction, pushes that fail halfway | the statements lead from the old schema to the new, with the data and the indexes, or have no effect |
| Value and record-id codec (`src/value.rs`, `src/record_id.rs`) | none (pure) | conversions both ways | integer widths, null in three forms, JSON text, keys in several forms | what is read is what was assigned; a key is found exactly when its row is there |
| Filter rendering (`src/expr.rs`) | none (pure) | `render`, `value_to_binds` | the encoding of literals depends on the other operand; placeholders are numbered across two filters; operators that do not chain | a row is selected exactly when it satisfies the expression |
| Capability table (`src/capability.rs`) | none | constants | - | - |

Components call each other as follows. `SurrealDb::connect` clones the shared
handle into a `Connection`; the pool keeps connections and hands them out; a
`Connection` is used by one task at a time (`exec` takes `&mut self`) and keeps
at most one SDK transaction. All connections meet only in the store. Nothing in
the driver is retried, and nothing is persisted outside the store.

The hazards this gives rise to are listed, each at its line, in PROJECT.json
under `hazards`, with the properties that would catch them.

## 2. Modules

| Module | Role |
|---|---|
| `SurrealStore` | what the driver relies on in the SDK: rows, statements, client transactions with snapshot reads and first-committer-wins, the facts an error shows. External: modelled from the calls the driver makes and what `tests/transactions.rs` observes |
| `Connection` | the driver: `exec`, `exec_transaction`, every handler of `src/op`, `run_query`, `classify_error` |
| `AtomicStore` | the abstract specification: a transactional store whose clients send requests and get truthful answers |
| `RetryClient` | clients that use `Connection` in a retry loop |
| `ConnectionProofs` | the inductive invariant of `Connection`, that it implements `AtomicStore`, and that retrying clients count every increment once, proved |
| `Migrations` | several migration runners on one store: `applied_migrations`, `apply_migration`, application writes, crashes |
| `StoreProofs` | lemmas about the operators of `SurrealStore`, shared by the proofs |
| `MigrationsProofs` | the inductive invariant of `Migrations`, proved |
| `Paging` | cursor pages and index lookups while other connections write |
| `PagingProofs` | the inductive invariant of `Paging`, proved |
| `Driver` | the shared handle, its mutex and the data directory: `connect`, `reset_db`, dropped calls, restarts |
| `DriverProofs` | the inductive invariants of `Driver`, proved |
| `MigrationGen` | `generate` and `push_schema`: which statements they yield, and what these do to tables, rows and indexes |
| `MigrationGenProofs` | lemmas about statement sequences and the inductive invariant of `MigrationGen`, proved |
| `Codec` | values and record-id keys, both ways: the operators of `src/value.rs` and `src/record_id.rs` |
| `Register` | the abstract specification of a column: it holds what was assigned last |
| `Column` | one column of one row under every assignment of every operation; implements `Register` |
| `Keys` | rows by their keys: inserted, found and deleted in every form a key comes in |
| `Row` | `Column` and `Keys` together: the types of the values, behaviours of either |
| `RowProofs` | what columns hold, that `Column` implements `Register`, and that keys read back, proved for every width |
| `Filter` | `render` and the predicate it yields, compared with the expression |
| `FilterProofs` | that filters of any shape and depth select the rows they mean, proved |
| `MCConnection`, `MCRetry`, `MCMigrations`, `MCPaging`, `MCMigrationGen`, `MCRow`, `MCFilter` | instances for TLC; `Driver` needs none |

### State and actions

`store` is the committed content of one table, `srv[c]` the SDK transaction that
connection `c` has open in the store (its snapshot, its writes, and which rows
others have committed since). `transaction[c]` and `read_only[c]` are the two
fields of `Connection`: the handle is a Boolean (`is_some()`), because a handle
has no content but the transaction it refers to. That the two agree
(`HandleLive`) is a property, not an assumption. `pend[c]` is the state of the
future of the call in flight, `reply[c]` what the last call returned.

A call is one *call step* (the handler up to its first await: guards, early
returns, `Option::take`) and then one *completion step* per await: `BeginOk`,
`CommitOk`, `CommitConflicts`, `QueryOk`, and so on, with the outcomes the SDK
can produce, a lost answer among them. Completions of different connections
interleave freely. `Reconnect` is the pool replacing an idle connection: the
dropped transaction handle rolls the transaction back.

A row is one integer: enough to tell which writes it has absorbed. `Effect` is
what a statement does to a row it finds (overwrite, add to, delete, keep), so
`SET`, `+=`, `-=` and list append are read-modify-writes of it. Rendering errors
(`build`) and decoding errors (`decode`) are attributes of an operation's
arguments: which error comes out, not how. An error of the SDK is the set of
facts `classify_error` can see in it (the typed detail, the marker texts).

In `Migrations` the tracking table is part of `store` (the record of a migration
is the row under its id), `srv[r]` is the transaction `apply_migration` opens for
itself, and `transaction[r]` the one the connection's user may have open, which
only makes the two calls refuse. `run[r].at` names the await a runner is at;
`Place` lists them. A migration is a list of steps: blank text that is not sent,
SurrealQL, or the generated `THROW` that asks for manual work; the CREATE of the
tracking record is the step after the last. The engine's loop around the two
calls (which migrations are pending, in which order they are applied) is not
part of the repository and is modelled as it uses them (`Pending`, `Proceed`).
A runner may be refused, fail or die at any await, and is run again. Users may
begin and end transactions between two calls. Application statements run outside
transactions and name no tracking record.

`Paging` has one step per SELECT: `run_keyset_select` reads the rows after the
cursor in the order asked for, takes at most `page_size` of them and answers the
sort key of the last one if the page is full. Which of several rows with one sort
key make it onto a page is open. `seen`, `resumed` and `stable` are history: the
rows delivered, the cursors resumed from, and the rows that have matched since the
read began. `Write` inserts, changes or deletes a row at any moment.

In `Driver` a store is a number, given as it comes into being, so that "a new
store" is a greater number; `floor` remembers how many there were when the last
successful reset was called. `call[c].at` names the await a task is at, `lock` who
is inside the mutex: `session` keeps it across the opening of the store, `reset_db`
only for `take()`. The engine is chosen at the start. A call may fail or its future
may be dropped at any await; `Restart` ends the process. `overlapped` is history:
some other call was in progress during a `reset_db`.

In `MigrationGen` a statement is a record and a migration the sequence of them
that `generate` yields for a sequence of table diffs. `render_alter_table` is
translated part by part (`guards`, `index_removals`, `index_definitions`,
`data_changes`). A migration runs its statements in a transaction (`base`, `view`);
an index is built from the rows of `base`, which is what the comment at
`src/migration.rs:234-237` says of SurrealDB, and maintained by later writes. A push
runs its statements one by one on the committed database.

`Codec` has integers of two widths: that of SurrealDB's integers (`MaxInt`), above
which a u64 is a `Decimal`, and a narrower one (`Narrow`) for columns that are cut
with `as`. A JSON text is the value it denotes, or is invalid. `Column` applies each
kind of assignment (`SET`, `+=`, list append, and the create-only and shared forms
of an upsert with their `??`) to one field; `op` records what was asked. In `Keys` a
table is its set of record ids, an insert lists the key columns in any order, and a
key is handed over bare or as a record. In `Filter` an expression is rendered by a
recursive function (`render`, one clause of `RenderedBy` per case of the source). A
SurrealQL text is what SurrealDB takes it for: a function from the binds and the
row to a value, and whether it is an operator without parentheses of its own (`open`),
which must not be the operand of another. Binds are a list to which each literal adds its
encoding. `means` says, recursively as well, which rows an expression is satisfied by
on the columns as they are read, and for which this is clear.

### The abstract specifications

`AtomicStore` knows no handle, no flag, no await and no error text. A session is
nothing or a transaction (snapshot and effects); a request is answered once; a
statement takes effect at once in the session's transaction or in the store; a
commit either happens wholly on the *current* rows, and may then be answered
`ok` or, if the answer is lost, `driver_operation_failed`; or it does not happen,
and is answered with a failure. Only what has not happened may be answered
`serialization_failure`. The refinement mapping of `Connection` hides the
handle, the flag and the bookkeeping of stale rows; that a commit from a
snapshot equals applying its effects to the current rows is where
first-committer-wins is used.

`Register` is the other one: a column of a row holds a value, and each operation
assigns, adds to or appends to it. It knows no encoding, no width and only one
null. `Column` implements it with what `row_to_record` reads as the value, as long
as sums stay in range.

## 3. Runs

| Run | Instance | Shows |
|---|---|---|
| `operations` (Operations.cfg) | 2 connections, 2 rows, 4 calls, 1 fault; every operation, every argument shape, every error path | the inductive invariant `RefInv`, `ReadOnlyHygiene`, and the refinement `ImplementsAtomicStore` for every handler |
| `retry` (Retry.cfg) | 3 clients whose transactions race for one row, up to 2 faults | `HandleLive` and `ImplementsAtomicStore` under racing transactions; `ExactlyOnce`; `EveryoneCommits`: where nothing fails, retrying on `serialization_failure` is enough; `EveryoneSettles` |
| `migrate` (Migrate.cfg) | 2 runners of 6 runs each, 2 migrations of which the second depends on the first, 2 rows, an update and an insert by applications, 1 fault or crash | `InOrder`, `DoneMeansApplied`, `OneByOne`, `AppliesWhole`, `EveryoneMigrates` |
| `migrate_guard` (MigrateGuard.cfg) | 2 runs each; the second migration rewrites and creates a row and then asks for manual work; users open transactions; applications may create that row first, or leave a malformed id in the tracking table | `WholeInv` (the inductive invariant: `MigInv`, that no migration is run where the user has a transaction open (`UsersApart`), and what transactions show), `GuardHolds` |
| `pages` (Pages.cfg) | 1 reader; 5 keys in 2 partitions that share sort keys; pages of 1 and 2 rows, both orders, a whole partition and the whole table; any writes | `PagesInOrder`, `OnlyTiesLost`, `PagingComplete`; `ReadsEnd`, once no more rows are inserted |
| `driver` (Driver.cfg) | 2 tasks, every engine, 3 resets and restarts in all | `OneStore`, `StoreKept`, `StartsFresh`, `Durable`, `CallsReturn` |
| `generate` (Generate.cfg) | 14 schema changes, 8 that can be applied and 6 that must not, 3 of these with another table ahead of the guarded one; 2 clients that push and migrate, 1 failure | `SchemaFollows`, `RowsFollow`, `IndexesCurrent`, `DriftDetected`, `GuardHolds`, `GuardedUntouched`, `PushComplete`, `PushesEnd` |
| `rows` (Rows.cfg) | columns of 9 types with values at the ends of their ranges; tables with 5 kinds of key | `ReadsExact`, `NullMeansNone`, the refinement `ImplementsRegister`; `KeysReadBack`, `FoundWhenThere` |
| `filters` (Filters.cfg) | a table with a composite key and a column of each kind; every operator, nested and negated, in both filters of a query | `SelectsMeant` |
| `scan_ties` (ScanTies.cfg), `driver_race` (DriverRace.cfg), `guard_order` (GuardOrder.cfg) | see below | a violation |

`AppliesWhole` also says what a migration does *not* do: a row that an
application changed while the migration ran, and that the migration did not
write, keeps the application's form. A row inserted in that window is therefore
not rewritten (`Grow` in `MCMigrations` inserts one that the migration would have
changed). That is snapshot isolation, not an error of the driver, and the reason
why the property compares with the effect of the migration row by row.

**Bounds.** `MaxCalls` bounds the operations sent, `MaxFaults` the failures and
lost answers. One fault is any one call going wrong at any await. Whole transactions
that race are those of `retry`: three clients, two faults, and a conflict whenever two of
them meet; that more connections, rows or calls add nothing to the refinement is proved
(`Refinement`). The four calls of `operations` are a Start, a write that sets up a row, the operation of interest
and a Commit, or two of them on each connection. Two rows tell a multi-row
insert and a missing key apart. In `retry` the bound is above what three
clients can ever need (a client loses a round only to one that won it), so
it never stops a client: the liveness properties would fail if it did.

In `migrate` two runners are enough for a race and two migrations for an order. One
application update makes a commit conflict, one insert changes what a migration
sees. A runner loses a run to a fault, to a concurrent statement, or to a commit of
the other runner, of which there are two: six runs are always enough, and
`EveryoneMigrates` would fail if they were not. In `migrate_guard` two runs each let
a runner that failed come back and find what it or the other one left.

Five rows in `pages` are more than two pages of each size, two partitions give every
sort key a tie, and a reader meets every other connection's writes one by one, so
one reader stands for any number. Two tasks in `driver` are a connect racing a
connect, a connect racing a reset, and two resets; three disruptions let a reset
follow a reset and a restart either of them (a third task adds no case but the
queue for the mutex, and TLC finds nothing there either, in five minutes). The
changes of `generate` are one per rule of `render_alter_table`: a rename, a shift of names,
a dropped, added and moved column, indexes that change, follow or stay, a renamed
key, each kind of guard, and tables created and dropped beside them; one row with
two possible values per field shows whether a field kept its value. In `rows`,
`MaxInt` = 3 gives integers of three bits and `Narrow` = 4 of two: every boundary
(below zero, the largest narrow, signed and unsigned value, one beyond) exists and
is an input; `MaxSum` and `MaxLen` stop sums and lists beyond all of them. `filters`
has every operator once with operands on either side and once under NOT, and
conjunctions of them; that deeper nesting adds nothing is proved (`Selected`).

**Deadlock.** The bounds on calls and runs stop the system in `operations`,
`retry`, `migrate` and `migrate_guard`, so these set `CHECK_DEADLOCK FALSE`; what never
gets stuck is the subject of `EveryoneSettles` and `EveryoneMigrates` instead. In the
other runs deadlock is checked.

**Symmetry.** Connections are interchangeable in `operations`, and
runners in `migrate_guard`, which check safety only.

**Fairness.** `RetryClient` and `Migrations` (`FairSpec`) assume weak fairness of each
client (the executor polls ready tasks) and of each connection's completions (an
await on the SDK ends, in an answer or an error). No fairness decides who wins a
conflict or which outcome an await has. A migration runner is run again until it
has been told that everything is applied, which is what a deployment does and no
code of the repository. `Paging`: a reader that has a cursor asks for the next page. `ReadsEnd`
has a hypothesis as well, that others insert no more rows from some point on: a reader
whose cursor others keep ahead of goes on for ever in the code, which a finite table
would hide. Others may go on changing and deleting rows.
`Driver`: whoever is inside the mutex makes progress (weak), and whoever waits for it
gets in if it is free again and again (strong), because `tokio::sync::Mutex` admits
tasks in the order they asked. `MigrationGen`: a client that was not told that its
push succeeded pushes again (strong, because a migration of its own may keep it busy
in between), and the statements it has begun are answered.

Each property is paired in PROJECT.json with a mutant, a plausible bug in the
code it is about, under which TLC finds it violated.

### Where the code disagrees with what is said of it

Three runs expect a violation.

- `scan_ties`: `exec_scan` resumes after the *last* primary-key column alone. In a
  table with a composite key, rows of different partitions share it, and those that
  did not fit on a page are skipped by the next (`ScanComplete`), where
  `src/op/scan.rs:40-42` asks for "a stable key to resume from". `OnlyTiesLost` and
  `PagingComplete` say, and the theorems prove, that nothing else is ever lost:
  within a partition, as `QueryPk` reads, the column is unique.
- `driver_race`: `reset_db` empties the handle and gives the mutex back before it
  looks at the directory. A connect in between opens the old directory again and
  caches that handle, and then its files are removed; connects after `reset_db`
  returned are given it too (`NextConnectFresh`), although `src/lib.rs:252` says "so
  the next connect starts fresh". `StartsFresh` and `Durable` hold as long as no
  other call overlaps a reset, and in memory always.
- `guard_order`: guards come first among the statements of *their own* table only. The
  tables before it in the change have been altered, or removed, within the transaction
  when the guard is met (`NoTransientChange`), although `src/migration.rs:230-231` says
  that an unsafe migration "cannot perform even a transient destructive change". What
  does hold, whatever the order of the tables, is that the guarded table itself is
  untouched (`GuardedUntouched`), and that nothing is ever committed (`GuardHolds`).

Six configurations beside the regression runs reproduce further disagreements;
each names one property that TLC finds violated.

| Configuration | Property | What it shows |
|---|---|---|
| Swap.cfg (`MCMigrationGen`) | `SwapKeepsData` | columns are renamed one after the other (`src/migration.rs:137`): where two trade names, the first copy overwrites the second column, and its data are lost without a guard |
| JsonNull.cfg (`MCRow`) | `ImplementsRegister` | `col = col ?? $v` (`src/op/upsert.rs:109`) takes a JSON null for nothing and overwrites it with the create-only value; line 108 says "keep an existing value" |
| BigLeaf.cfg (`MCRow`) | `ImplementsRegister` | a u64 above i64::MAX inside a document is read as F64 (`src/value.rs:242`) and loses its low bits, although `src/value.rs:67-68` says that no magnitude is lost |
| WideKeys.cfg (`MCRow`) | `EveryKeyAccepted` | a single-column u64 key above i64::MAX is refused (`src/record_id.rs:66`); `.agents/specs/driver.md:162-163` says it no longer is |
| BoolCompare.cfg (`MCFilter`) | `SelectsMeant` | a bool column is rendered as `col = true` also where it is compared (`src/expr.rs:233`), so that operators chain, which SurrealQL refuses |
| DriverKind.cfg (`Driver`) | `FailedConnectIsLost` | a connect that fails is answered `driver_operation_failed` (`src/lib.rs:191`); `.agents/specs/driver.md:320` has `connection_lost`. No property of a run takes a side: `TypeOK` admits either kind |

## 4. Proofs

`ConnectionProofs` proves for every set of connections, rows and operations, and
every bound:

- `Invariance`: `Spec => []ConnInv`, and from it `TypeCorrect`, `HandlesLive`
  and `ReadOnlySound`.

`ConnInv` is the inductive invariant. `HandleLive` alone is not inductive:
that a commit leaves no transaction behind needs that the commit in flight has
one (`PendLive`); `ReadOnlyHygiene` needs that every statement still to be sent
by a read-only connection is a SELECT (`PendLive` again), which the handlers
establish by calling `ensure_writable` before they suspend. `SnapshotFresh` (a
transaction's snapshot differs from the store only on rows it knows to be stale)
is what the refinement needs of the store's bookkeeping. And the refinement:

- `RefInvariance`: `Spec => []RefInv`, where `GotSound` adds that only inserts
  collect rows over several statements;
- `Refinement`: `Spec => ImplementsAtomicStore`. Each action is mapped to a step
  of `AtomicStore`; `PublishMap` is the heart, that a commit without conflicts
  applies the transaction's effects to the current rows.

For the retrying clients it proves, for every finite pool of connections, every counter row and all
faults, `RetryInvariance` (`RSpec => []RetryInv`) and from it `CountedOnce` (`ExactlyOnce`).
`RetryInv` adds to `ConnInv` what a client relies on: its step, the call in flight, the
answer and the transaction fit together (`Aligned`), so that a commit is only ever sent
for exactly one increment of the counter as the snapshot has it (`Counted`), and that
the counter lies between the number of clients told "committed" (`Told`) and that number
plus those who cannot know (`Doubt`). A commit that succeeds raises the counter and
moves its client into one of the two; that the counter it raises is the current one is
first-committer-wins again (`SnapshotFresh`).

`MigrationsProofs` proves for every set of runners, list of migrations, rows and
application statements:

- `MigInvariance`: `Spec => []MigInv`, and from it `OrderSafety`, `DoneSafety` and
  `GuardSafety`;
- `RecordsOneByOne`: `Spec => OneByOne`, that a migration is recorded once, by the
  commit of its own transaction and after all earlier ones, and stays recorded;
- `ViewsWhole`: `Spec => []WholeInv`, and from it `WholeOrNot` (`AppliesWhole`): a step
  leaves the rows to applications, or makes of every row that the migration wrote what
  the whole migration makes of it, and leaves the others alone.

`InOrder` is not inductive: that a commit records the next migration and not one
further on needs that all earlier ones were recorded when the runner chose it and
still are (`Sound`), that the record is in the transaction's writes and was absent
from its snapshot, and that a snapshot is out of date only on stale rows. If
another runner has recorded the migration meanwhile, the record is stale and
written, and the commit conflicts: this is the argument of `PublishFacts`, from
which `OneByOne` follows. `SoundKept` is the other half: a runner stays `Sound`
while others commit, because records are never taken away. `GuardHolds` needs
that a run at step `i` has passed the steps before it (`Passed`). `WholeInv` adds that no
migration is in progress where the user has a transaction open (`UsersApart`), and that what
such a run sees is what those steps make of its snapshot (`Whole`). What a migration
makes of a row depends on that row alone (`OutcomeLocal`), and a row that the commit
publishes is not stale, so it is in the store as in the snapshot: hence what is
published is what the migration makes of the store.

`PagingProofs` proves for every finite table, every set of queries and readers and
all writes: `Inductive` (`Spec => []IInv`), and from it `Typed`, `InOrder` (pages never
overlap and follow the order asked for), `Ties` (a read that ended has missed nothing
but rows that tie with a cursor it resumed from) and `Complete` (nothing at all, where
sort keys are distinct). `IInv` says of a read in progress that everything delivered
lies at or before the cursor (`Behind`), so that what follows cannot overlap, and that
every row that was there throughout is delivered, tied, or still ahead (`Awaited`).
That a page without a cursor is all that was left needs a least element of a
non-empty finite set of rows, for which the well-foundedness of finite subsets is used.

`DriverProofs` proves for any number of tasks, resets and restarts: `SharedInductive`
and from it `Typed` (`TypeOK`) and `Sharing` (`OneStore`), because whoever opens or uses the handle
holds the mutex (`Guarded`); `FreshInductive`, and from it `FreshStart` (`StartsFresh`) and
`Durability` (`Durable`); and `Keeping` (`StoreKept`): whoever changes a handle that is set
is a restart or inside the mutex as a reset, because a task that opens the store found
no handle and holds the mutex until it has set one. As long as resets are alone, a reset that has emptied the
handle finds it empty until it is done (`Apart`), and every store that can be handed
out is newer than the last reset (`Marked`). That a connect overlapping a reset breaks
`Apart` is exactly what `driver_race` shows.

`RowProofs` proves for every width, all values of the types and keys of any arity:

- `RoundTrip`: every integer of every type is read as it was written;
- `Kinds`: what a field holds is of the kind its column's type is stored as (`FieldOf`), and
  from it `Exact` (`ReadsExact`: an integer column is read exactly where it is in range and
  within range where not) and `NullIsAbsent` (`NullMeansNone`);
- `Registers` (`ImplementsRegister`), where no JSON null is written and no document holds
  a number above `i64::MAX` (`Represented`). Neither hypothesis can be dropped:
  JsonNull.cfg and BigLeaf.cfg are the counterexamples. The inputs of Rows.cfg meet both;
- `KeysKept`, and from it `KeysRead` (`KeysReadBack`) and `KeysFound` (`FoundWhenThere`);
- `RowIsColumn`: what is proved of `Column` holds of the behaviours of `rows`.

`Registers` goes type by type: what is encoded is held as it was written (`Regained`), no
value but an absent field is held as `Null` (`HeldNull`), so `??` asks what the
register asks (`Meaning`); sums and concatenations of what is stored hold the sums and
concatenations of what is held (`SumHeld`, `ConcatHeld`). For keys the invariant is that
rows are the record ids of the keys known, none of which was refused (`Keyed`). A key
has one record id in whatever form and order of columns it comes (`FormRid`,
`OrderForm`: a permutation that sorts the positions 1..n is the one that puts each
in its place), and reads back from it (`KeyBack`), so different keys have different ids.

`MigrationGenProofs` proves for every set of schema changes, rows, clients and failures:

- `GenInvariance`: `Spec => []GenInv`, and from it `IndexesAgree` (`IndexesCurrent`),
  `PushesComplete` (`PushComplete`), `UnsafeRefused` (`GuardHolds`) and `DriftRefused`
  (`DriftDetected`);
- `SchemaReached` (`SchemaFollows`), where every secondary index is over fields of its
  table: the record id is no field, so an index over a key column that is renamed
  alone would have to be defined again, and `render_alter_table` defines again those over
  moved fields only;
- `GuardsFirst` (`GuardedUntouched`): until a migration with unsafe diffs is cancelled, its
  transaction has not touched any table these are about, wherever they stand in the
  change;
- `RowsFollowed` (`RowsFollow`), where columns move orderly (`Orderly`): no column takes the
  name of a field further down its table, and no two become the same column. Every
  change of `generate` that alters a table meets it; Swap.cfg's does not, and is the
  counterexample without it. The hypothesis is close to exact: of all changes of one
  table of three columns, with their rename hints, that can be applied (1832 are orderly,
  1048 are not), only 4 that are not orderly keep every row.

`GenInv` relates what a push or a migration has still to run to where it is. That every
index is current when it is defined needs that no statement still to run writes a table
before the last definition of an index on it (`Plan`, with `RowsKnown`: its rows are those
of `base` until then), because the builder reads `base`. That the statements end in the
next schema needs that everything in it is there or still to be defined, everything
else is absent or still to be removed, and that an index which is removed first is
defined later (`Reaches`, with `Restores` in `Plan`). A refusal needs that the statement that
throws, or the definition that is refused, is still ahead (`Guarded`, `Drifts`). That the
guarded table is as it was until then needs of the order of the statements that each one
that would touch it has one before it that is not accepted while that table is there
(`Shielded`): the guard, or the definition of a table over it (`PartShields`). And
before the migration the database is the previous schema with pushed parts of the next
(`Legit`). The first half of the module proves these facts of the statements `generate`
yields. They are proved position by position, not by recursion: `FlattenSeq` and
`Unique` are characterised by where each element of a part comes to stand, for
which least elements of sets of naturals (`Least`) and functions built up step by step
(`Climb`) take the place of the induction rule, which the provers cannot instantiate.

`RowsFollowed` rests on an invariant of its own (`FollowInv`). Before the migration the rows
hold nothing but fields of the previous schema, whatever is pushed meanwhile (`Sparse`).
While it runs, what a row of the view holds is a matter of which statements have still
to be run, in whatever order they were generated (`Underway`): a renamed field is where
it was until its copy has been run, and where it will be afterwards; one that stays is
unchanged; and nothing else is there but what has still to be emptied. A copy lands
where nothing is, and is not emptied, overwritten or copied on afterwards, because a
statement that would do so comes earlier (`Late`, `Ahead`): this is where the order of the
columns comes in, and where two columns that trade names fail.

`FilterProofs` proves `Selected` (`SelectsMeant`): for any columns, keys, widths and records,
and filters nested to any depth, a query selects a row exactly if its filters mean it. It
has three hypotheses. Records hold values of the types of their columns, no number above
`i64::MAX` in a document (BigLeaf.cfg) or as the only column of a key (WideKeys.cfg)
(`TypedRecord`). The filters are among a set that contains their operands. And in each of
them (`Typed`) what is compared is of one kind: a column, a member that is of one
kind in every row, the length of a list, or a literal that is stored like the other side;
numbers where they are ordered; a list on the side where the operator wants one; a bool
column only by itself or as the operand of IS NULL; and no AND or OR without operands,
which would be rendered as `()`. All 648 records and 174 expressions of `filters` satisfy them. The filter of BoolCompare.cfg
does not, and is the counterexample without the third.

The provers have no induction over expressions, so that `render` and `means` are what
their equations say (`RenderIs`, `MeansIs`), and that what holds of an expression whenever
it holds of its parts holds of all (`Induction`), are proved from a least element of a set
of heights. The argument then has three layers. What is bound for a literal *stands for*
it, and what is stored in a column for what is read from it (`Stands`, by kind: a number by
a number equal to it, a JSON text by the value it denotes), so that every operator of
SurrealQL on the encodings answers as the comparison does on the values (`Compared`,
`ListAsked`, `ListsCompared`). Rendering only ever appends to the binds (`Extends`), so a
placeholder means the same at the end as where it was written; this is why one list
shared by two filters is enough. And each comparison is
answered, without an operator next to an operator, as it holds of the row (`AtomAnswers`),
each connective as its parts are (`NotRight`, `JoinedRight`), hence all (`AllRight`).

The assumptions are those the modules declare: the arguments of operations have
the declared shapes, the bounds are naturals, the widths fit one another, inputs and keys are
values of their types (`InputAssumption`, `KeyAssumption`), tables are finite, the pool of retrying clients is finite (`PoolAssumption`), names of indexes and
tables are unique in a schema and a table is not both dropped and created in a change
(`ChangesAssumption`, which `toasty_core`'s diff by name gives), and the markers (`NoRow`, `NoTx`, `NoPred`, `NONE`, `Nobody`) differ from the
values they mark the absence of. TLC evaluates them in the runs.

**Model-checked only.** Liveness under fairness is out of the prover's reach, as are
ENABLED, induction over data and RECURSIVE operators: `EveryoneCommits`,
`EveryoneSettles`, `EveryoneMigrates`, `ReadsEnd`, `CallsReturn` and `PushesEnd`.
Every other property of a passing run is stated by a theorem: as it stands, or, for
`SchemaFollows`, `RowsFollow`, `ImplementsRegister` and `SelectsMeant`,
under the hypothesis named above.

## 5. Not modelled, and why

- The SDK itself is external. Isolation of reads is snapshot isolation with
  write-conflict detection, which is what the driver's tests rely on.
- In `Connection` a filter is a predicate on a row of one integer; what filters,
  columns and keys really are is the subject of `Filter`, `Column` and `Keys`.
- Projections of RETURNING clauses, and with them `record_id_key_to_stmt`, which is
  reached through them only; identifiers and their quoting.
- Offset pagination and limits without a cursor keep nothing between two calls.
- `max_connections` is a number handed to the pool; the capability table is constant.
- Floats, bytes, UUIDs, decimals and temporal values: stored as they are or as text
  whose form no property tells apart.
- In filters, arithmetic and lists of computed elements. What a comparison with an absent
  column means is left to the engine: in SurrealQL `col < 1` selects rows without `col`.
- In migrations, diff variants that the current `toasty_core` does not have, and what
  SurrealDB makes of absent fields in UNIQUE indexes: an index over a primary-key column
  (`src/migration.rs:246`), and one that is defined before renamed data are copied into
  its column. A violated index is one of the failures of a statement. `push_schema`
  over an older schema keeps indexes of the same name as they are (`IF NOT EXISTS`).
- Which error is the better one to report when `cancel()` fails after a statement
  (`src/conn.rs:215`), and that a malformed id in the tracking table is answered with
  the kind callers repeat on (`src/conn.rs:324`, as `.agents/specs/driver.md:325`
  prescribes); the runs include both, and nothing is recorded in either.
- What a connection made before a `reset_db` may still do with files that are gone.

## 6. Plan

Done: all modules of section 2 with their runs, and the proofs of every safety and action
property.

Next: a `Connection` whose rows have the columns and keys of `Row`, and whose filters are
those of `Filter`, would join the two halves of the project.
