# yass-orm: models, checks and proofs

yass-orm is an object-relational mapper for Node.js with MySQL/MariaDB, Postgres and
SQLite dialects. Its JavaScript runs on one thread; everything difficult in it comes from what
can happen between two `await`s: other callers, other processes that use the same database,
connections that die, statements that fail, answers that are lost. This directory models those
parts in TLA+, checks the models with TLC on small instances, and proves the most important
results with TLAPS for every instance.

All paths below are relative to the repository; line numbers are those of the modelled commit.
`PROJECT.json` lists components, runs, the code lines behind every definition (`map`), the
mutations every property has been tried against, findings, hazards and theorems.

## 1. The system: components, state, interactions

| component | code | state it keeps | status |
|---|---|---|---|
| Root transactions | `lib/transactions.js`, `acquireTransactionConnection`, `commit`, `rollback`, `cleanupTransaction` of the dialects | leased connection, `primaryError`, `cleanupError`, `committed`, attempt counter | modelled: `RootTransaction` |
| Nested transactions | `lib/transactions.js:22-45` | the counter of savepoint names, savepoints on the server | modelled: `Savepoints` |
| SQLite queue | `lib/dialects/SQLiteDialect.js:694-860` | `activeTransaction`, `transactionTail`, the deferred queries of a transaction | modelled: `SqliteQueue` |
| Pools and handles | `lib/dbh.js:336-520, 1390-1437`, `lib/utils.js:20-151` | `connCache`, `handle.dbh`, `handle.accessInProgress`, pools | modelled: `HandleCache` |
| Row writes | `lib/dbh.js:880-1350`, `lib/obj.js:1290-1520`, upsert SQL of the dialects | rows; the caller's fields object; `lastAction` and `wasCreated` on the function | partly: `RowWrites`; not calls that join a transaction of the caller |
| Link-collation migration | `lib/migrations/link-collation.js`, `bin/migrate-link-collation` | state file, the run's Set of completed items, report | modelled: `CollationMigration` |
| Model objects | `lib/obj.js` (get, inflate, cache, patch, nonce, remove) | instance cache per class and process, nonces, the fields of shared instances | partly: `ModelObjects`; no `set`, `patchIf`, hooks, `jsonify`, patches on a transaction handle |
| Load balancing | `lib/load-balancing/`, `roQuery` in `lib/dbh.js:663-690` | strategy in force, active balancer, initialisation in progress, round-robin counter | modelled: `LoadBalancing` |
| Promise pool | `lib/promiseMap.js` | next index, results, errors | modelled: `PromisePool` |
| Definitions | `lib/def-to-schema.js` | none | modelled: `Definitions` |
| Schema sync | `lib/sync-to-db.js`, `bin/schema-sync`, the DDL and catalogue parts of the dialects | the database's tables, indexes, triggers; the plan of the sync under way | partly: `SchemaSync`, `SchemaDiff`, `SchemaDialects`; not the dump of a database into definitions, `match_ratio`, or several processes at once |
| Error classification | `lib/utils.js:276-332`, dialects | none | not modelled: the models use its answers as kinds of errors |
| Finder, search options | `lib/finder.js`, `lib/search-options.js` | none | not modelled: builds the text of one SELECT |
| Type generator | `lib/generate-types.js` | none | not modelled: lays out TypeScript text |
| SQL transformers, index predicates | `lib/sql-transform/` | none | not modelled: rewrites SQL text by regular expressions (what schema sync needs of predicates is in `SchemaDialects`) |
| Configuration, JSON helpers | `lib/config.js`, ... | read once, or none | not modelled: no behaviour over time |

How they interact:

* A **model** operation (`Model.create`, `findOrCreate`, `patch`, ...) runs on the transaction
  handle `tx` if the caller passes one; otherwise through `retryIfConnectionLost`, which takes
  the shared **handle** (`handle()`), and tries once more with a new one when the connection
  was lost.
* `handle()` calls `dbh()`, which takes the **pool** from `connCache` or creates one; recovery
  replaces the cached pool and closes the old one; `closeAllConnections` ends what is cached.
* `conn.transaction(callback)` calls **`runRootTransaction`**: lease, BEGIN, callback, COMMIT or
  ROLLBACK, cleanup, release, and after a conflict all of it again on a new lease. A
  transaction handle's own `transaction` runs **`runNestedTransaction`** with a savepoint.
* On **SQLite** there is one connection: leases queue on `transactionTail`, and queries of the
  ordinary handle are deferred while a transaction holds the connection.
* `findOrCreate` composes search, `create` and `patchIf` in one transaction, so it is repeated
  by the retry machinery; `Model.create` outside a transaction is repeated by
  `retryIfConnectionLost`.
* A **model object** is loaded by `get` (through `roQuery`, so perhaps from a lagging replica),
  inflated into the one instance its process caches for the id, and patched on the primary after
  comparing nonces.
* **Load balancing**: one manager per process serves the `roQuery` of every handle from that handle's
  read replicas; `search`, and so the read-back of `upsert`, go through it.
* **Schema sync** turns a **definition** into field rows, compares them with the catalogue of the
  server it runs against, and executes the difference, while the application inserts rows.
* The **promise pool** is used by callers for bounded concurrency; it calls back into any of the above.

Hard behaviours, and what makes each part correct:

* *Root transactions*: any statement may fail at any time, or succeed with its answer lost. An
  attempt must take effect completely or not at all, at most one attempt of a call may take
  effect, the promise must say which, and a connection that may still be inside a transaction
  must never serve somebody else.
* *Nested transactions*: callbacks may catch a nested error and continue; what becomes durable
  must be exactly what the callback counts on.
* *SQLite queue*: everything is decided by the order of microtasks. No ordinary query may run
  inside a transaction; transactions run one at a time in call order; nobody waits for ever.
* *Pools and handles*: concurrent cold starts, concurrent recoveries, shutdown. Nobody may be
  handed a closed pool, no pool may be left open that nobody refers to, and everybody settles.
* *Row writes*: check-then-act between statements, retries of work that took effect, unique
  constraints, read-backs by a second statement.
* *Model objects*: servers share rows but not instances; callers of one server share instances
  that are blank until a load has filled them, and that late loads overwrite with older data. A
  patch through a stale instance must be refused, and retries must not apply one that was.
* *Migration*: crash between an ALTER and its record, torn files, overlapping runs.
* *Schema sync*: dozens of statements without a transaction (or, on SQLite, a table rebuilt inside
  one), each of which may fail, be lost silently, or be the last before a crash; and three catalogues that
  spell everything differently. Declared data must survive, a sync without an error must have
  done its work, a second one must have nothing to do, and a half-done one must not stop the next.
* *Load balancing*: a balancer is built, replaced and destroyed across awaits, by callers that
  arrive in between. One must be built for all, it must be the one asked for, and none may stay.
* *Promise pool*: chains that share one counter, end in any order, and throw.

The hazards at their lines, with the properties that watch them or the reason why none does, are
in `PROJECT.json` under `hazards`.

## 2. The modules

### `AtomicCall` and `RootTransaction`

`RootTransaction` has one action per awaited step of `runRootTransaction`
(`lib/transactions.js:46-166`) and each way it can end: `Start`, `Acquire`, `AcquireTimesOut`,
`Begin`, the callback, `Commit`, `Rollback`, `Cleanup`, `Release`, and the decision to retry.
`pc[t]` says which promise call `t` awaits; `primaryError`, `cleanupError`, `committed`, `began` are
the variables of the function; `lease` and `free` are the pool; `session[c]` is the server's view of
a connection (idle, inside the transaction of an attempt, or dead). A statement that fails may leave
the session as it was, end the transaction, or kill the connection, before or after it took effect;
ROLLBACK fails only with its connection (section 6); `durable` and `inDoubt` are history variables
that say which attempts the database made durable and for which the answer to COMMIT was lost.

`AtomicCall` is what a caller may expect: a call is pending, then fulfilled with its effect
durable exactly once, or rejected with none, or with one it is told about, or (answer to COMMIT
lost) in doubt. `ImplementsAtomicCall` is the refinement, checked by TLC and proved.

### `Savepoints`

The callback of one root transaction as strands (branches, joined by `Promise.all` or not) that
write, open write, open nested transactions, fail, and catch nested errors. `txSession.log` is the server's open
transaction: a sequence of levels, one per savepoint (the first: before any), each with the writes
that followed it; `RELEASE SAVEPOINT` and `ROLLBACK TO` act on the latest savepoint of their name
and forget the later ones, as SQL says. `frames` is the stack of `runNestedTransaction` calls per
strand. The three servers differ in what a failed statement does (Postgres aborts the
transaction, a MySQL deadlock ends it, SQLite and MySQL otherwise undo the statement).

### `SerialConnection` and `SqliteQueue`

`SqliteQueue` models `createConnectionPool`'s single-connection discipline with the microtask
queue explicit: `jobs` is the queue of continuations, each action the synchronous segment
between two awaits. `tail` and `waitsFor` are `transactionTail` and the promise a transaction
found there; `active` is `activeTransaction`; `deferred` are the queries that found it set.
`SerialConnection` is the promise: one transaction at a time, ordinary queries only in between.

### `HandleCache`

`dbh()`, `handle()`, `retryIfConnectionLost` (and `Model.retryIfConnectionLost`) and
`closeAllConnections` as callers of one cache key, a step per synchronous segment. `cache` is
`connCache[key]`, `handleDbh` and `inProgress` are `handle.dbh` and the promise
`handle.accessInProgress`, `replaced[t]` is the caller's `previouslyCachedConn`. `Teams` are the
sets of callers that meet in one history. The properties about `handle()` are stated until
somebody calls `dbh()` or `closeAllConnections` past it (`HandlesAlone`).

### `RowWrites`

Concurrent `findOrCreate`, `create`, `createIgnore`, `upsert` and `destroy` of one natural key: each
statement is a step, on a database with a set of committed rows and the open transactions' writes,
with the conflicts the three servers report. `fieldsId[t]` is the id in the caller's fields object,
into which `create()` writes it, `Setups` says which calls meet, with or without a UNIQUE
constraint. `Finders` and `Inliners` call `Model.findOrCreate`, these with `useTransaction: false`:
`SearchInline`, the statements of `create()`, `Update` and `UpdatedBack`, each for itself. The retry
of `runRootTransaction` is here a loop of whole attempts, justified by `RootTransaction`'s result
that an attempt that failed leaves nothing. When `dbh.findOrCreate` or `dbh.create` has resolved the
row is durable, and the model call goes on: it inflates the row, patches `createdAt` (`Stamp`) and
calls the hooks (`CallHooks`), and whatever rejects there (`ModelFails`) leaves the call
`"rejectedLate"`, with its row. Three properties say more precisely than their comment in the code
when they hold: `RejectedFinderLeavesNoRow` is about `dbh.findOrCreate`, and of a model call
rejected later says only that a row of it is the one it had in hand; `AtMostOneRowPerCall` leaves
out calls of `create()` outside a transaction where the server assigns ids (a repeated INSERT does
not know the first row), and `FirstAttemptsAgree` asks that no attempt of any finder has failed (of
three finders, one whose attempt failed searches by its own old id and inserts a second row, which
the third may find).

### `CollationMigration`

Processes (`Runs`) that execute `bin/migrate-link-collation --run` again and again on one
database and one state file. `pc` is the awaited step of the loop in
`runLinkCollationMigration`, `manifest`, `todo`, `done`, `applied`, `seenTarget` its variables,
`clean` whether the run reported no error and did not stop early, `stateFile` what `load()`
returns, `canonical` the database. A process may crash anywhere (its ALTER may go on without it,
the file it was writing may be torn and load as empty), a statement may fail before or after it
took effect, an ALTER may succeed without effect, the save may throw after `done.add`.

### `ModelObjects`

Application servers, each with its identity cache (`cache[s]`, `OBJECT_INSTANCE_CACHE`), and one
row. `disk` is the row on the primary, `replica` where `get()` reads it. `Plans` gives each caller
its calls, and `call[c]` is the current one with the local variables of the code: `ref` the
instance, `row` the data to inflate, `seen` what `getCachedId()` answered, `memoryNonce`. An
instance is the version of the row its fields show (`shows`, `Blank` before the first load).
`Get`, `Read`, `Lookup`, `Construct`, `Register`, `Inflate`, `Store` are the segments of `get` and
`inflate`; `Patch`, `CheckPasses`, `CheckRefuses`, `Update`, `Select` those of `patch`, which ends in
`Inflate` and `Store` as `_updateProperties` does; `CheckRefuses`, `Reload`, `AskShouldRetry` are the
loop of `patchWithNonceRetry`, whose time limit may strike at any refusal. Callers hand a fresh
argument to each patch: with an old `nonce` in it, the argument is compared instead of the instance.

### `Definitions`, `SchemaDialects`, `SchemaDiff`, `SchemaSync`

`Definitions` is `def-to-schema.js`: the types `t.*` as records (a macro, `t.object` or `t.array`,
is a record of what its function closes over), chain methods as `With`, `Default`, `Nullable`, and
`ToSchema`, the list of field rows. `SchemaSync` is parameterised by its result (`Schemas`, which
`MCSchemaSync` computes from the definitions of the run), so that what is proved of a sync holds for
any list of fields and indexes. `SchemaDialects` gives for each server what its dialect writes into
DDL, what the server makes of it (external: MySQL 8, MariaDB, Postgres, SQLite) and what the
catalogue queries of the dialect report of it. Columns, index entries and predicates are records; a
spelling is a string wherever the code compares strings, because the question is whether the pairs
of spellings match. `SchemaDiff` is what `sync-to-db.js` decides before it executes: field
comparison with its table of same types, index signatures, stale indexes, plans of statements `[op,
name, arg, check]`, made by filtering the fields (`Where`). A CREATE INDEX carries what it asks for
(`CreatedIndex`), which the server judges it by; what enters the catalogue is what `getTableIndexes`
reports of it (`ReportedIndex`). `SchemaSync` executes them: `pc` is the phase of `syncSchemaToDb`,
`plan` the statements left, and the actions are `Inspect`, up to the first statement, with the guard
against errno 1170, `Preflight` (the count of NULLs before an ALTER to NOT NULL), `Execute` (one
statement), `Begin`, `RebuildStep`, `Undo` (the SQLite rebuild), `ReadIndexes` and the index pass,
`Verify`, `VerifyAgain` (healing), `AttachTrigger`, `Insert` by the application and `Crash`. `table`
is the table as its connection sees it, `saved` the one on disk while a transaction is open
(`Durable`). Three ghosts remember what the properties need: `given` the values written, `owed`
those of them in columns that every later definition declares, `sync` how the sync at hand has gone.
What a server accepts has three parts: `Fits` (the tables, columns and indexes there are), `Suits`
(NULLs and missing values in the rows), and `MayRefuse`: values are not modelled, so wherever a
server may refuse a statement for them (rows that may be equal under a unique index, values of
another type or collation, a JSON accessor over what may be none, a column that an index may hold)
it may or may not. A statement may so be refused, fail or succeed without effect, at most
`MaxFaults` times in all. `StartSync` picks the next definition of the family, so that a history is
a sequence of deployments.

### `LoadBalancing`

`LoadBalancerManager`, its balancers and `roQuery`, one step per synchronous segment. `active`,
`initOf`, `strategy`, `destroyed` are the manager's fields; `balancer[b]` a balancer by order of
construction with the strategy it was built for and its state; `cursor[b]` the `lastReadConn` of round
robin; `pc[t]`, `using[t]` where a call stands and which balancer it holds or awaits. Queries route,
fail, and fall back to round robin; switchers run `setStrategy`, `setCustomLoadBalancer` and
`removeCustomLoadBalancer`; probes run `getStats` and `healthCheck`; `Destroy` and `Clean` are the two
segments of `destroy()`. `overlapped` is a history variable: a change of strategy has met an
initialisation, another change or `destroy()`; the code then does not keep what the
safety properties say (section 4), so they are stated until that happens.

### `PromisePool`

`promisePoolMap` with one chain per unit of concurrency: `chain[c]` is what chain `c` awaits (its
callback, or `yieldToEventLoop`), `nextIndex` the shared counter, `results`, `errors` and `answer` what
the caller gets. `promiseMap` is the instance with one chain that throws (`Sequential`).

### `*Proofs` modules

`SqliteQueueProofs`, `HandleCacheProofs`, `RowWritesProofs`, `CollationMigrationProofs`,
`ModelObjectsProofs` and `LoadBalancingProofs` hold the theorems of one component each.
`TransactionProofs` holds those of both halves of `lib/transactions.js`, `RootTransaction` and `Savepoints`
(whose names start with `tx` where both have one). `SyncProofs` holds those of `SchemaSync` and of
`PromisePool`, whose `promiseMap` the script and the sync run their files, tables and statements through.

### `MC*` modules

They declare the model values of the runs and extend the component's module; every
instance is in the `.cfg` files. Operators marked "Mutant" in the modules are plausible bugs, not
used by any specification.

## 3. The runs

| run | instance | what it shows |
|---|---|---|
| `root_transaction` | 3 calls, 2 pooled connections, 1 retry, 3 failures | at most one durable attempt per call, truthful outcomes, clean pool, refinement of `AtomicCall`, every call settles and releases |
| `savepoints` | a sequential callback, depth 2, 3 savepoints, 4 writes, 2 failures, each server | the open transaction holds exactly the work counted on (`OpenWorkIsKeptWork`, which includes that savepoints are the open nested calls), and all or none of it becomes durable |
| `sqlite_queue` | 3 transactions, 3 queries, one callback that may await a query on the parent handle | no foreign statement, call order, refinement of `SerialConnection` (one transaction at a time); everything settles unless a callback awaits the parent handle |
| `sqlite_queue_hook` | the same | violation: see findings |
| `handle_cache` | 3 recovering callers (1 through a model), or a direct, a throwaway, a recovering and a closing caller; 5 pools, 2 failures, 1 failed replica | nobody is handed a pool that was ended, except while `closeAllConnections` waits; `handle()` serves one open handle to all and orphans no pool; everybody settles |
| `row_writes` | 2 finders with a creator or an upserter and a destroyer, 2 finders without transactions and a destroyer, without constraint; a finder, a creator, 2 ignorers, 2 upserters with UNIQUE; a finder with and one without a transaction, a creator, a destroyer with and without; each server, 1 retry, 2 faults | one row per call, no row of a failed `dbh.findOrCreate`, first attempts agree, finders tell the truth to caller and hooks; `createIgnore` tells who inserted, `upsert` returns the winning row |
| `collation_migration` | 2 processes, 2 columns, one column per run, 2 faults, 1 column changed back | true state file, complete clean runs, no needless rebuild, convergence |
| `model_objects` | 2 callers on one server, or 1 on each of 2 servers, up to 3 calls each, a lagging replica, 1 fault | stale patches are refused, a retried patch is applied once, loads share one instance per id and a blank one is being filled, every call ends |
| `schema_sync` | 2 families of definitions (3 and 2 versions), each server, with and without `YASS_ALLOW_DROP`, 3 syncs, 2 rows (interchangeable, `Symmetry`), 4 syncs and rows in all (`MaxWork`), 1 failure, refusal for values, lost statement or crash | declared data survives, a clean sync is complete, a second sync does nothing, errors have a cause that the table still shows |
| `sqlite_rebuild` | the same without failures | violation: see finding 1 |
| `load_balancer` | 4 queries on handles of 0, 2, 2 and 3 replicas, a probe, 2 switchers (random, custom, remove custom), `destroy()`, 1 failure, 5 plans of who meets whom | every replica gets its turn, callers share one initialisation, the balancer in force is the one asked for, `destroy()` leaves none, every call is answered |
| `promise_pool` | 4 items, concurrency 0 to 3, every combination of `throwErrors` and `yieldEvery` | each item is drawn once, the answer is complete or names the first error, every item is tried |

**Why the bounds are enough.** Contention needs more callers than resources: three calls on two
connections make one wait while two run, and one retry makes a retried attempt compete with another
first attempt. Three failures cover the longest chain of the code: a failed statement, a failed
ROLLBACK, a failed cleanup or release. Nesting two deep gives a rollback to an inner and an outer
savepoint, and three savepoint names let a name be reused after a rollback. Three transactions on
the SQLite queue give a middle one whose successor already waits. Two recovering callers and a third
through the model give recovery, joining and late arrival. In the migration two columns with
`--stop-after 1` need at least two runs, two faults give a crash during the recovery from a crash.
In `model_objects` the two histories separate what is shared: instances within a server (where a
third call reaches those left behind by a removal), the row between servers (where a second patch
meets the nonce of the first, and a third one that was written meanwhile). In `schema_sync` three
syncs are a first one, one to another version, and either one back or one that should have nothing
to do; the two families between them contain every form of index, a column that changes type,
becomes NOT NULL, is new and required, or leaves, and both kinds of keys; one fault is enough to
leave any prefix of a plan behind, and two syncs remain to stumble over it. Two rows can be equal
under a unique index; more do not make a statement do or refuse anything else. `MaxWork` leaves out
only histories that have both all three syncs and both rows. In `load_balancer` two replicas need
two picks to go round, handles of two and three share the counter, and each plan is a meeting the
code could get wrong: callers with callers, with a change, with `destroy()`, a change with a change.
In `promise_pool` four items on three chains let one chain draw twice while others are at their
first. For the properties proved in section 5 the bounds do not matter.

**Deadlock** is checked except in the runs whose callers simply finish (`handle_cache`,
`model_objects`, `load_balancer`, `promise_pool`, and `schema_sync`, where the syncs are used up)
and those where a callback may wait for itself on SQLite (`sqlite_queue*`).

**Fairness.** Weak fairness per call or process (`WF_vars(Step(t))`), where the code justifies
it: the event loop runs every continuation and drivers settle their promises (with an error if
the connection dies). In `RootTransaction` acquiring a connection is weakly fair only: pools serve
waiting leases in order, or time them out. In `SqliteQueue` microtasks run in order and a
callback settles, unless it awaits a query on the parent handle (`HandleAwaited`). In
`CollationMigration` fairness says that a run which was started goes on and that the command is
repeated, which is what "it can run overnight / on a schedule" (`link-collation.js:19`) expects;
crashes, failures and changed columns are not fair and are bounded. In `ModelObjects` every call that
has begun goes on (`Proceed`) and the replica catches up; nobody has to make a call. In `LoadBalancing`
the segments of a call, of an initialisation, of a change and of `destroy()` are weakly fair, once
the call was made (`init()`, `destroy()` of a balancer and queries settle); in `PromisePool` each
chain is (callbacks settle). `SchemaSync` states no fairness: a sync may stop anywhere, and what
is claimed of it are safety properties.

## 4. Findings

Two runs find the shortest behaviour in which the code does something else than the
repository's text says:

1. `sqlite_rebuild`: on SQLite a difference in any column rebuilds the table with the columns of
   the definition only (`lib/sync-to-db.js:756`). A column that left the definition is lost with its
   data, although `YASS_ALLOW_DROP` was not set (`README.md:981` says it is preserved).
2. `sqlite_queue_hook`: on SQLite a callback or hook that awaits a query without `tx` waits for its own
   transaction to end, which waits for it (`docs/transactions.md:223` promises that such
   writes happen outside the transaction).

Four more were found so and have their property in the modules, but no run of their own; the
property named must be put into a `.cfg` to see the behaviour:

3. Nested transactions in concurrent branches share one stack of savepoints. Rolling back the older
   one undoes the released, successful work of its sibling, and the transaction fulfils without it
   (`docs/transactions.md:99`): `EffectMatchesOutcome` with two `Strands` in `MCSavepoints.cfg`.
4. The pool closed by recovery is the one cached *then*, not the one that failed: a caller who lost
   its connection a little later closes the healthy replacement (`lib/utils.js:115`):
   `OnlyAbandonedPoolsAreClosed` in `HandleCache`.
5. `create()` leaves the generated id in the caller's fields; a retried `findOrCreate` searches by
   it, misses the row that won the conflict and inserts a second (`lib/dbh.js:935, 1069`):
   `FindersAgree` in `RowWrites`.
6. The nonce is compared by one statement and replaced by another that does not repeat the
   condition: two patches that both compared first are both applied (`README.md:1167`):
   `NonceEqualsDisk` in `ModelObjects`.

Met while modelling schema sync, and stated as limits of its properties (`Settles`, `IndexSettles`,
`RequiredMissing`, `ComparisonThrows`) where they touch them:

* SQLite rebuilds the table on every sync (`ResyncIsQuiet` is about the other servers; `README.md:560`).
* A sync repeats the same ALTER for ever on numeric and some other defaults, on Postgres `time`
  and string defaults, on a `linkColumnCollation` under Postgres, and on fields with `key: 'UNI'`
  (whose index the pass for stale indexes then drops).
* An index is dropped and created again by every sync when it has an `ASC`, an explicit length on a
  text column (MySQL) or on Postgres and SQLite, a DESC on a MySQL text or full-text
  column, or, on Postgres, several columns with a JSON path or DESC on a quoted name.
* `.nullable()` on a column that is NOT NULL in the database makes the comparison throw a TypeError: the
  sync of the whole table fails. Elsewhere it yields `null: 0`, which is never enforced unless
  something else differs.
* Manually created indexes are lost when a table is rebuilt, or when the guard against errno 1170 drops
  the indexes of a column.
* `t.bool({ default: 1 })` keeps the default 0. `lib/sync-to-db.js:2118` destructures
  `idFieldFromTable`, which `parseIdField` never returns. `bin/schema-sync` does not await the upload
  of `match_ratio`.

Met while modelling load balancing: `setStrategy` during an initialisation lets the old balancer
install itself under the new strategy's name, or leaves it alive for ever (`overlapped`); the one
round-robin counter, shared by handles with different numbers of replicas, can pin a handle to
one replica (the premise of `EveryReplicaServes`); `roQuery` falls back to the primary only for
errors thrown synchronously, because it returns the promise without awaiting it (`lib/dbh.js:672, 681`;
`FailedQueriesUseThePrimary` states the comment's claim and is in no run).

Earlier, kept as hazards or as limits that a property states: concurrent cold `dbh()`
calls each create a pool and all but one are never closed; a
failing read replica leaves the primary pool open and in no cache; `Model.retryIfConnectionLost`
drops the options of the second attempt, which so runs on the pool that failed (README.md:581
promises a fresh connection); with ids assigned by the server a repeated `create` inserts twice;
`createIgnore` answers null when the row it collided with is deleted before the read-back;
MySQL's `upsert` without `conflictColumns` may return null; Postgres answers COMMIT of an aborted
transaction with a silent rollback when a callback swallowed the error; a MySQL deadlock inside a
nested call ends the whole transaction while a callback that catches it goes on; a branch
that outlives its callback writes after ROLLBACK in autocommit mode; after
`closeAllConnections` the shared handle still names the ended pool; two loads that both look before
either registers construct two instances; a failed read of a linked row leaves a blank instance in
the cache; a patch repeated after a lost connection may bring back the nonce of a row that was
written since; the migration trusts its
state file before the database, so a column that was changed back is skipped for ever.

## 5. What is proved

TLAPS proves the following for every value of the constants that satisfies the modules'
ASSUMEs (bounds are naturals, identities are distinct from the "none" values). Each proof follows
the same plan: an inductive invariant `IInv`, `Init => IInv`, one step per action of `Next`,
and `IInv => P` for each property; `IInv` was model-checked first.

* **`TransactionProofs`**, `RootTransaction`: `TypeCorrect`, `AtMostOnce`, `Truthful`,
  `PoolIsClean`, `Exclusive`, `Refinement`. The properties are not inductive: "at most one attempt
  is durable" needs to know, for each phase, what the local variables of `runRootTransaction` say
  about the database. So `IInv` is `TypeOK`, `LeaseInv` (who holds a lease, and that leases differ),
  `SessionInv` (an open server transaction belongs to the leaseholder's present attempt, in the
  phases where it may be open) and `DurableInv`, which says for each phase that the call is
  `Untouched`, `Failed` (at most the present attempt is durable, and only if it is in doubt, and
  then the error is not one that is retried) or `Succeeded`.
* **`TransactionProofs`**, `Savepoints`: `NestedTypeCorrect` for any number of branches, and
  `NestedEffects` and `NestedWork` for sequential callbacks (one strand, which lets conflicts and
  failures of its own statements propagate: what the code does otherwise is in section 4), of any
  depth, length and number of failures, on any server. That a savepoint is found by its name needs
  `NamesInv`: names come from one counter, so along the log they rise (`Rising`), and RELEASE,
  ROLLBACK TO, writes and new savepoints keep that. `LoneInv` then says that while the transaction
  is open the log and the stack of calls agree level by level (`Agrees`: same name, the level's
  writes are those the call counts on), that only the top call unwinds, that a transaction which the
  server has aborted or ended is being unwound (`Fallen`, by a conflict if it was ended, so that no
  callback catches it and goes on), and that between ROLLBACK TO and RELEASE the level is empty.
* **`SqliteQueueProofs`**: `TypeCorrect`, `NoForeignStatementEver`, `OneAtATime`, `ServedInOrder`,
  `Refinement`. `IInv` adds `ChainInv` (the promises in `transactionTail` form a chain in call
  order, and everyone before the holder has settled), `ActiveInv` (who is `activeTransaction` in
  which phase), `JobsInv` (which continuations may be queued) and `DeferredInv` (deferred queries
  belong to the transaction that runs). The claim about foreign statements depends on the order of
  microtasks after `release()`, hence `JobsInv`.
* **`HandleCacheProofs`**: `TypeCorrect`, `OpenPoolsServed`, `OneHandle`, for any callers (finitely
  many), pools and failures. That nobody is handed an ended pool needs to know who may refer to it:
  `BornInv` (a pool has a number below the counter, open, ended or being ended), `PrivateInv` (a
  pool that a caller is connecting is in no cache yet), `ClosingInv` (only `closeAllConnections` and
  recovery end pools, and they take them out of the cache first), `PhaseInv` (what a caller knows in
  each phase). `OneHandleForAll` needs `AloneInv`: until somebody goes past `handle()`, the cache
  holds what `handle.dbh` holds (`CacheIsHandle`), every open pool is the handle's or held by
  whoever is replacing it (`NoOrphans`), and the callers inside `accessInProgress` are at most one
  (`CountInv`).
* **`RowWritesProofs`**: `TypeCorrect`, `OneRowPerCall`, `NoRowLeft`, `TruthTold`, `WinnerReturned`,
  `FirstAgree`, for any callers, constraints, servers, retries and failures. An id names the call
  that generates it, and a call keeps its id across attempts (`IdInv`), so the durable rows of a
  call are one at most; a finder's transaction differs from the rows it saw in one row, which it
  made or found (`TxInv`); `OutcomeInv` says in each phase, that of a model call after its row is
  durable included, which row a call has in hand and whether it made it, `ReadInv` what it knows
  when it reads back; that a rejected `dbh.findOrCreate` leaves no row (`NoRowLeft`) and that a call
  rejected later leaves only the row it had in hand follow from `OutcomeInv`; `StoreInv` that ids do
  not go away while nobody destroys. That first attempts agree is a matter of locks: `LockInv` (on
  servers whose reads lock, nobody else is inside a transaction beside one that has written) and
  `AgreeInv` (two fulfilled finders saw one row, and a running one that saw none will fail or wait).
* **`CollationMigrationProofs`**: `TypeCorrect`, `StateFileIsTrue`, `CleanRunsComplete`,
  `RebuildsAreNeeded`, for any number of processes that overlap, columns, crashes and failures.
  `IInv` adds that each process's Set of completed items holds only canonical columns or such as
  were changed back (`CompletedInv`: the file is written from it), that what `verify()` returned
  stays true (`SeenInv`), that what the loop has passed in a clean run is canonical (`PassedInv`),
  that work starts below `--stop-after` (`BudgetInv`), and for rebuilds that until the first overlap
  one process is active (`AloneInv`) and that an unverified column can have become canonical only
  through an orphaned ALTER (`RebuildInv`).
* **`ModelObjectsProofs`**: `TypeCorrect`, `AppliedOnce`, `StaleRefused`, `OneInstance`, for any
  servers, callers, plans, replica lag and faults. That loads of one server share one instance needs
  to know where references to instances are (`RefInv`), and that until two loads overlap between
  looking and registering, or an entry is removed under one, every reference is the cached one or to
  an instance no longer filled (`ShareInv`). `StalePatchRefused` compares versions where the code
  compares nonces, so `IInv` adds `NonceInv`: wherever a row or a copy of one is in use
  (`RowsInUse`: the disk, the replica, instances, rows being inflated), its nonce comes from a patch
  already applied, and until a connection is lost equal nonces mean equal versions. `CompareInv`
  carries what a patch found at the comparison to its UPDATE, and `PhaseInv` (`PhaseOf`) says how
  often a call has written in each of its phases. After a lost connection the statement is not
  claimed: the repeated UPDATE is not compared again and may bring an old nonce back.

* **`SyncProofs`**, `PromisePool`: `PoolTypeCorrect`, `OnceEach`, `Complete`, for lists of any
  length and any options. That a resolved pool has every result needs to know where each drawn item
  is: `NoneIsLost` (it is in a running callback, among the results, or among the errors),
  `ReturnAtEnd` (a chain returns only when the counter is at the end, or an error was thrown with
  `throwErrors`), `FirstError` (the error a rejected pool names), `AnswerAtEnd` (a pool that
  collects answers after its last chain).
* **`SyncProofs`**, `SchemaSync`: `DataSurvives`, for any definitions (fields are a list, indexes
  finitely many), families, servers, rows, syncs and faults, with and without `YASS_ALLOW_DROP`.
  What stays of a value depends on what is still to be executed and on which of three tables counts.
  `PlanInv` says that every statement of `plan` and `changed` suits the definition being synced
  (`StatementOK`: none drops a declared column, a CREATE TABLE is of the declared ones); it rests on
  lemmas about the plans of `SchemaDiff`, as `AltersAreOK`, `GuardedPlanIsOK`, `IndexPassIsOK`, and
  these on `FlattenSeqType` and `SetToSeqType` about the lists they are made of. `OwedInv` follows
  the owed values through a rebuild: while it runs, the table on disk is the one BEGIN found (`open`
  exactly in the phases of `Rebuilding`), the copy is made from that table with every declared
  column (`CopyHolds`), and the table under construction, then the renamed one, holds what is owed
  until COMMIT puts it on disk; so failing, undoing or dying at any point leaves one that does.
  `ExecutedKeeps` is the step of a single statement.
* **`SyncProofs`**, clean syncs: `CleanSync` (columns, index names, no undeclared index, id trigger)
  for any definitions, and `CleanSyncComplete`, the whole of `CleanSyncIsComplete`, for those of
  which `PlainDefinitions` holds: on each server no two indexes of a definition get the same
  physical name, and predicates are written as `normalizeIndexPredicate` leaves them. Both are about
  how names are spelled, and no more than the code needs: two indexes of one physical name replace
  each other. `MCSchemaSync` assumes `PlainDefinitions`, so TLC evaluates it for the definitions of
  the run. What a clean end promises is owed from the first statement on, so the invariants are
  about the plan. `ColumnsInv`: until an error is noted, every declared column is there or among the
  columns (`changed`) that the verification will look for. `IndexesInv`: in the index pass every
  declared index is there or its creation is still in the plan, every other one is gone or its
  removal is, and (`Paired`) an index of the definition is removed only right before it is created.
  `SameInv`: every declared index is as declared, or the statement that creates it is still in the
  plan. Two facts about data carry it: what a catalogue reports of an index just created is the
  declared one (`ReportsIt`, by server: `MySqlReportsIt`, `PostgresReportsIt`, `SqliteReportsIt`),
  and what compares equal is the declared one (`ComparesAlike`). `IndexPassElements` says what is in
  an index pass, from `FlattenSeqElements` and `SetToSeqOnto`.
* **`SyncProofs`**, errors: `StatementsAlwaysFit` and `EveryErrorHasACause`, the whole of
  `ErrorsHaveACause`, for definitions of which `PlainDefinitions` and `SoundDefinitions` hold: each
  field is named once and no two versions of a model disagree about the primary key; raw SQL indexes
  are over columns that are declared (on MySQL over no text without a length); no default vanishes
  when it is written out; and no column is `UNIQUE` of itself, a required date, or a key of another
  type than in another version (section 6). These are the ways in which a definition alone makes a
  server refuse a statement. `MCSchemaSync` assumes both, so TLC evaluates them for the definitions
  of the run. That nothing else is refused is a matter of the whole plan, in its order, beside a
  table that earlier syncs left in any state. The inductive invariant is `ReasonsInv` on top of
  `CompleteInv`. `FitInv`: until something fails, what is left of the plan fits the table
  (`PlanFits`: no statement is disturbed by those before it, `Apart`; what it alters is there and
  what it adds is not, `Stands`; an index that exists is created only after its removal, `Freed`).
  It is kept because a statement leaves alone what it is not about (`ExecutedLeaves`, `TailFits`),
  and begins to hold because the plans are made so: `IndexPassFits`, `AltersFit`, `GuardedFits`,
  `CountedFits`, on lemmas about lists sorted by a relation (`FlattenSorted`). `ConformInv`: each
  declared column is there, on MySQL a text only if declared as one, or its statement is still to
  come, so the index pass finds its columns (`CreationIsMeasured`, `ConformingAreIndexable`).
  `GuardInv`: a column that is about to become a text is in no index that bars it, or that index's
  removal is in the plan. `ArgsInv` and `KeysInv`: statements carry the fields of the definition,
  and primary keys are never among the columns that SQLite would have to add. `CauseInv`: unless
  something failed by accident, an error was reported only when something stands for it (`Stuck`): a
  new column that rows have no value for (`Unfilled`), a comparison that throws (`Throws`), a column
  whose NULLs, values or barred rebuild were in the way (`LeftColumn`), an index its rows stood
  against (`LeftIndex`), a column that was to be dropped (`LeftThere`). It stays there until the
  sync ends because what is left of the plan is not about it (`Spared`, `Barren`), so that no step
  touches it (`Undisturbed`, shown action by action), and rows gain values but lose none (`Gains`).
* **`LoadBalancingProofs`**: `TypeCorrect`, `OneBalancer`, `InForce`, `NothingLeft`, `EveryReplica`,
  for any calls, handles, plans and failures. `IInv` is `TypeOK` with `RefsInv` (what the manager's
  references point to), `CountInv` (how many balancers a manager without one may have built),
  `AloneInv` (until a change overlaps something, at most one balancer lives or is being built, the
  manager knows it, it is of the strategy in force, and `destroy()` finds it), `RoutesInv`, and
  `TurnsInv`: a pick `k` places after another of the same size, less than a round later, is of the
  replica `k` places further round, and `cursor` is the last pick.

`Exclusive` (leases are not shared) and `OneAtATime` (one transaction holds SQLite's connection) are
proved only; the runs check what follows from them.

The type invariants are proved where there is a proof module and are in no run: TLC checked them
inside `IInv`.

**Only model-checked**: every liveness property (`EveryCallSettles`, `EverythingSettles`,
`EveryCallerSettles`, `EveryColumnConverges`, `EveryCallEnds`, `EveryCallIsAnswered`,
`EveryItemIsTried`), because liveness under fairness and `ENABLED` are out of the prover's reach;
and one invariant, `ResyncIsQuiet` of `SchemaSync`. It compares spellings of definition and
catalogue, pair by pair: it is a fact about the finitely many spellings that the run enumerates.
What `Definitions` computes, and the tables of `SchemaDialects`, are checked only through these, for
the definitions of the run. Induction over data is out of reach as well, and so are RECURSIVE
operators: `ExpandType` of `Definitions` is the only one (macros nest to any depth), and no module
with theorems reaches it.

## 6. What the models leave out

* Contents of rows, field conversions, SQL text, logging and metrics.
* More than one cache key in `HandleCache`: keys do not interact.
* Read replicas as sources of stale data (`row_writes` reads what is committed), although `upsert`
  reads its row back through `roQuery`.
* In `ModelObjects`: patches on a transaction handle, `patchIf`, `set`, hooks, `jsonify`, several
  rows (a linked row is a read that may fail), and values of fields other than the version they
  belong to.
* Isolation anomalies of the servers beyond conflicts, lost answers and lock order: transactions of
  `RowWrites` read committed rows and their own.
* Dry runs of the migration, which change nothing; DDL text and size estimates.
* Servers refusing ROLLBACK on a connection that lives: `RootTransaction` assumes that it fails only
  with its connection. The code does not know the difference (`lib/transactions.js:70-76`): after
  such a refusal it would release the connection with its transaction open. In `SchemaSync`, SQLite
  refuses ROLLBACK only where it has already rolled back itself, which the code ignores
  (`lib/sync-to-db.js:795`).
* In `RowWrites`: `findOrCreate` and the other calls on a transaction handle of the caller (`tx`),
  which run inside a transaction that somebody else ends; links and nonces; what hooks write.
* In `SchemaSync`: several processes that sync at once, values of rows (a row is the set of its
  non-NULL columns). A refusal for values is possible wherever `MayRefuse` says so, which is oftener
  than the values would have it: a cause named by `ErrorsHaveACause` is one that may be in the way.
  Size limits, UNIQUE fields, required dates, keys that change type, kinds of index that a type
  cannot have, and unique indexes given as raw SQL are left out: no refusal of a statement is owed
  to them. A dropped column takes its indexes along (MySQL keeps an index of several columns without
  that one). NULLs inserted between the count and the ALTER to NOT NULL, and all of them when the
  count fails, are overwritten on MySQL: nothing is claimed of them. Also left out: comments on
  columns, dry runs, `dumpDatabaseSchemas`, the upload of `match_ratio`, types that only a
  hand-written native type could give.
* In `LoadBalancing`: statistics per connection, events, and the weights of a custom class: a custom
  balancer, like the random one, may pick any replica.
* The components marked not modelled in section 1.

## 7. Plan

1. **Model objects**: patches on a transaction handle (instances of rolled-back rows stay in the
   cache), `patchIf`, `set` with its deferred patch, and the guard of `jsonify`, the one hazard
   listed that needs a model of its own. Abstract specification: compare-and-set on the nonce, for one
   writer per row at a time.
2. **Pure definitions**: error classification (which errors are retried, and that a unique violation
   is no retryable conflict) and search options, against reference definitions.
3. **Composition**: `RowWrites` over `RootTransaction` as an instance, so that the loop of whole
   attempts is derived instead of assumed; `roQuery` of `LoadBalancing` as the source of stale reads.
4. **Proofs**: `ResyncIsQuiet` for all definitions whose types and defaults come from the tables of
   `SchemaDialects`, by cases on their entries; `SoundDefinitions` weakened where a dialect needs less of it.

Runs are kept few, one per question. New components take their place by merging the instances of
a module into one run where its properties allow it, as `Teams` (`HandleCache`), `Setups`
(`RowWrites`), `Families` (`SchemaSync`) and `Plans` (`ModelObjects`, `LoadBalancing`) do: the history
is chosen in `Init`.
