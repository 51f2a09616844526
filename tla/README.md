# A TLA+ verification of dolmen

dolmen is a schema-enforced record store for agents: namespaces of tables over
SQLite (the default engine), PostgreSQL or a lakehouse catalog, served by HTTP,
MCP and a Go library, with a durable change feed, live subscriptions, embeddings,
files, secret fields and idempotent writes. This directory models the concurrent
core of the three engines and of the API in front of them, checks the models with
TLC, and proves with TLAPS what ten of them (change log, registry, requests, signing keys,
shutdown, namespace pool, records, file store, vector cache, PostgreSQL) promise, for instances of every size. `PROJECT.json` lists
components, runs, seeded faults, the lines each definition models, hazards,
findings and theorems.

## 1. Inventory

Paths are relative to `src/internal/` unless they start with another directory.

| Component | State | Operations | Who calls whom | What is hard | What makes it correct |
|---|---|---|---|---|---|
| Change log, `store/changelog.go` | `_dolmen_changes`, `_dolmen_cursor_tokens`, drop generations | mint changes, `changes_since` (head, begin, token), prune | every write transaction mints; API and listen sessions read | pruning against cursors still in use; time read before a wait; drops between pages | a page never silently lacks a change; cursors live as long as promised; the backlog is bounded |
| Listen session, `store/listen_*.go`, `notify.go` | replay position, live position, queue, parked verdict, pin | Listen, next page, fill, drain, poll, end, cancel | the SSE handler reads pages and gets `notify`/`closed` callbacks; commits and drops wake it | three goroutines, a handler and callbacks; a parked close; two-read authorization | the stream is exactly the feed; the close is last; nothing hangs |
| SSE handler, `api/sse.go`, `api/scope.go` | `live` and `ended` channels, last cursor | write pages, live frames, keepalive checks, close frame | calls the session; re-authorizes through `auth` and `TableState` | client gone, age bound, revocation | what was written can be resumed from |
| Namespace pool, `store/store.go`, `lifecycle.go` | `Store.mu`, open handles, pins, LRU, sessions | lazy open, evict, create, drop, close | every operation pins a handle | eviction and drops under users; a lock taken inside a transaction | one writer per namespace; no transaction on a removed file; drops return |
| Record writes, `store/insert.go`, `update.go`, `search.go` | rows, embeddings, full-text index | insert, update, upsert, delete | call the embedding provider between reading and writing | what was read is stale when used | embeddings fit texts; retries insert once |
| Idempotency, `store/idempotency.go` | owned and legacy key records | look up, record | inside inserts | retries, shared keys, drops | the right caller gets the right answer |
| Migration, `store/migrate*.go`, `embed_stage.go` | schema version, stage table | plan, stage pages, check coverage, activate | races writers and vacuum | long-running, restarted, replanned | activation never stamps a stale vector |
| Batches, upsert_by_key, import | as record writes | several writes as one | over the write steps | retry of a whole batch | all or nothing, once |
| Search, query, filter, graph | none | reads | read transactions | SQL rendering | scope is applied |
| Vector cache, `store/vector_cache.go` | vectors by table, head | load, catch up, evict | search reads it | re-check after unlock | a search sees the committed rows |
| Files, `files/` | blobs, pins, references | attach, confirm, discard, sweep, drop | writes reference blobs; vacuum sweeps | sweep against attach; shared blobs | no referenced blob is removed |
| Secret rotation, `store/secret_rotate.go` | sealed columns | rotate in batches | races writers | half-way failure | every row ends under the active key |
| Backup and restore, `store/backup.go` | files | back up, verify, restore | offline tool | activation half done | a restore is complete or absent |
| Auth, `auth/` | grants, keys, pending logins, key ring | grant, revoke, rotate, OIDC flow | API | last administrator; late key rings | somebody can always administer |
| PostgreSQL engine, `postgres/` | the same contracts | the same operations | LISTEN/NOTIFY | lost notifications, other isolation | as the SQLite engine |
| Lakehouse engine, `lakehouse/` | commit journal, catalog | append, mutate, materialize, vacuum | its own listen loop | crash between journal and catalog | each commit is materialized once |
| MCP server, `mcp/` | in-flight requests | dispatch, cancel, drain | API operations | drain against start | every request is answered |
| Schema, constraints, values | none of their own | validate, convert | every write | wide input domains | as tested |
| Server process, `cmd/dolmen` | configuration | start, shut down | all | order of shutdown | nothing is cut short inside its grace |
| Telemetry, embedding providers, Go facade | none that others depend on | | | | |

## 2. Modules

| Module | Models |
|---|---|
| ChangeLog, ChangeLogProofs | one namespace's change feed, its cursors and retention; the proofs (section 5) |
| Subscribe | one `/v1/subscribe` stream: handler, session, goroutines |
| ListenRetention | a subscriber slower than the retention: keep-alives, loss noticed, reconnection |
| NamespacePool, NamespacePoolProofs | `Store.mu`, open handles, pins, eviction, create, drop, close; the proofs |
| Records, RecordsProofs | rows, embeddings, idempotency and staged migrations of a SQLite table; the proofs |
| MigrationPlan | the planners of the three engines and what applying a plan does |
| VectorCache, VectorCacheProofs | the SQLite engine's cache of decoded vectors; the proofs |
| FileStore, FilePromise, FileStoreProofs | attached files; the abstract promise FileStore implements; the proof that it does |
| SecretKeys | secret fields and `rotate_secret_key` on the three engines |
| Registry | grants, API keys, effective verbs, the last root administrator |
| Requests, RequestsProofs | every API operation: authentication, authorization, scope, incarnation, the engine call; the proofs about it and about Registry |
| SigningKeys | sign-ins, signing keys and the rings they are copied to |
| Lakehouse | the lakehouse engine |
| Postgres, PostgresProofs | the PostgreSQL engine; the proofs |
| Shutdown | how `dolmen` and `dolmen mcp` stop: requests in flight, drain, cleanup |
| ServerProofs | the proofs about SigningKeys and Shutdown |
| MCSqlite, MCLongCalls, MCLive, MCRecords, MCAccess, MCEngines | what the runs instantiate |

**ChangeLog** models one namespace's feed. Each operation is one transaction on the
single write connection, hence one action: `CommitWrite` (`mintChanges`),
`SinceHead`, `SinceBegin`, `SinceToken` (the three ways into `ChangesSince`, each
with its refresh, its page, the tokens it mints and the prune that ends it),
`DropTable`, `CreateTable` and the clock. `ChangesSince` reads the clock before it
waits for the connection, so it works with any `now` of the last `MaxWait` ticks.
`log` keeps every change ever committed, `retained` the ones still stored, and a
token's `base` is history: the last change delivered or committed when it was
minted. Assumption: the wall clock does not step back.

**Subscribe** models one `/v1/subscribe` stream: the handler, the listen session
and its fill, drain and poll goroutines, against writers, grant changes, table
drops, a namespace drop or close, the age bound, failing transactions and a client
that hangs up. An action is what a goroutine does between two points where it takes
`sess.mu`, runs a transaction, calls out or blocks. The live authorization is two
actions (`FillAuthz`/`FillScope`, `PageAuthz`/`PageScope`) because the code reads
twice. `handed`, `hidden` and `written` are history. Nothing is pruned here.

**ListenRetention** has the same session over a log that is pruned: ChangeLog's tokens and
pruning, instantiated on its own variables, a reader that takes a page or a change when it likes,
`chainFor`, `verifyRetained`, `mintOne`, `protectQueue` on two goroutines (reading the floor and
the transaction are two steps; a transaction may fail), the prune that a read carries, another
session's prune at any moment, and a client that hangs up and comes back with its last cursor.
A tick is half a retention. What the poller and the fill pump do is over within a tick: the
retention is at least an hour, the poll interval 250 ms. The reader and the drain owe nothing.

**NamespacePool** models `Store.mu`, the map of open handles, pins, LRU eviction
and the callers: a read or write operation, a `Listen` and the session it leaves,
`CreateNamespace`, `DropNamespace` (taking the lock and closing the pools; waiting
until no connection is open; removing the file) and `Close`. An action is what a
caller does under the lock without blocking, or one use of a `database/sql` pool,
which is external and modelled from its use: one write connection, `BeginTx` waits
for it and fails on a closed pool, `Close` does not wait for open transactions.

**Records** models the rows of one table with one vectorized field: inserts with
idempotency keys, updates, upserts, deletes, staged migrations, table drops, vacuum
of abandoned stages, and restarts of the server at any point, perhaps with another
embedding provider. A vector is the pair of its text and its space with a
dimension, so that a stale or foreign vector is told apart. An action is one
transaction or one read between two of them.

**MigrationPlan** models `planMigration` of each engine, a function from a list of
changes and a table to a plan, one step per change, and the application of the plan.
The reference, `meant`, is the list applied change by change to the row itself. The
planners keep the old name of every renamed column, the backfill of every added one
and the checks that must be asked of the stored table before any step has run; the
reference keeps none of this. Each engine has its own reserved words (`ValidateEngineIdent`): one name of
the run is SQLite's to accept and PostgreSQL's to refuse, one the lakehouse's.

**VectorCache** models entries, their locks and the map: a search takes an entry out of
the map, rebuilds it or catches it up with the change log to its own snapshot, accounts
for its size, unlocks, locks again and re-checks. Between any two of these another search may
move the entry, evict it, or fail half-way.

**FileStore** models a request's files from the received part to the committed row:
`Attach` and `place` (with and without a size cap), `Pin` (copy_from), `Confirm`,
`Discard`, the end of the request, vacuum's sweep with its earlier read of the
references, the removal of a namespace's files, and restarts. Two stores: the local one
with one server, and the shared one with several. A drop of the namespace waits for the write
transaction in progress and for nothing else, so it may come between a request's files and its row. A local
`Put` renames the file into place and then syncs the directory (`files/blob.go:60-68`), so it may fail
having stored: `missed` counts these. **FilePromise** says what a row relies on:
a row comes to name only a stored file, and no file a row names is removed.
`KeepsPromise` is FilePromise's specification under the mapping rows to `named`, blobs
to `stored`.

**SecretKeys** models a sealed value by the key it names. `rotate_secret_key` walks
namespaces, tables and columns in batches of one transaction each; writers, renames,
drops, re-creations, a second caller, timeouts and crashes come between; the operator
restarts the server with the next key, and takes the old one out once a report shows no
value under it. On SQLite a drop of the namespace closes the handle of a rotation in progress, whose next
query fails; a field renamed away is a quoted name without a column, which SQLite reads as a text
(`Literal`), and the count goes on with a key id that nobody configured.

**Registry** and **Requests** model the API with authentication on. A call of the registry is
several autocommit statements (look up, administrators, keys, write) under `Registry.mu`, which is a lock of
one process: `ServerOf` says which process serves a client, and those of another may come between any two
statements. A request is several reads of two stores, the
registry and the namespace's file, with other requests between them: authenticate,
`authorize`, `resolveScope` (owner filter and incarnation), the engine's call, which
compares the incarnation, and the deadline at any point. A graph traversal begins its snapshot, asks the
registry for grants, and then reads rows of the snapshot. `req[c].ok` is history: whether the
caller was, at some moment, allowed what it got on the very table it got it from.

**Shutdown** models both ways to serve. On stdio the main goroutine's two selects, the table of
requests in flight (`byKey`, the slots, the wait group), each worker with its defers one by one,
cancellation by an id in another spelling, a client that stops reading or closes the pipe, and
`drain` with its two bounded waits. Behind HTTP `Drain`, the grace period around net/http's
`Shutdown` (external) and a request that is never done; or the listener fails by itself, and `run`'s deferred
closes take the registry and the store away without any drain or bound. Otherwise `shutdownCleanup`, whose closers run in
order and may hang, and the end of the process.

**SigningKeys** models registry, `OIDCSource.ring` and `tokenSource.ring` with their locks
and generations, rotations on this and on another replica, the bounded table of pending
sign-ins, callbacks and the verification of requests with its refresh.

**Lakehouse** models catalog, commit journal, tables' data files and metadata, the batch's
intent row and catalog copy, recovery at open, migrations with vectors staged outside the
gate, vacuum, drops, SQL queries in a sidecar, a listen session, and the backup that runs
beside the server. Any step may fail and the process may stop between any two.
`Recovered` is what the next open would make of the disk; `Truth` is history: what was
acknowledged.

**Postgres** models several processes on one database: each write reads, prepares outside any
transaction and applies in another one, with the row lock of its namespace, the
idempotency look-ups on both sides, constraints, staged migrations, drops, imports with
receipts, batches with their whole retry, connections lost while a transaction commits, and a
listen session, from now, from the beginning or from a token, fed by NOTIFY and a poll. An import carries
references like any row, and is checked against no constraint.

Definitions marked *Seeded fault* are not used by the specifications: each is a plausible
bug of the definition that follows it, and shows that a property can fail.

### What composes what

Requests EXTENDS Registry and calls its operations, so a request and the registry it is
decided by are one state. ListenRetention instantiates ChangeLog over its own log. FileStore is
mapped to FilePromise. Records holds writers, migrations,
vacuum and the idempotency table together because they share rows; Subscribe holds handler and
session together; Lakehouse and Postgres each hold their engine's writers, migrations, reads,
feed and maintenance.

The other modules share no variable with one another. An MC module that extends several of
them has a variable `part`: a behaviour belongs to one part, and the others stand still
in one initial state. Its reachable states are the sum of the parts', not the product, and
since no action of a part reads another's variables, nothing is lost. In MCLive the parts that
stand still do so in states where none of their fair actions is enabled, so that fairness of
one part asks nothing of another.

Most parts choose a *scene* in their initial state: who takes part, which operations are
called, and how often each kind of interference may happen. A behaviour with every actor at once would be
out of reach; the scenes pair the actors that touch the same state.

## 3. Runs

| Run | Parts and bounds | Why they are enough |
|---|---|---|
| sqlite | ChangeLog: 1 table, 1 owner, retention 1, 4 ticks, 2 changes of up to 2 rows a commit, pages of 1, 2 tokens, 1 drop. VectorCache: 2 searches, 2 columns, 2 rows, memory 1 or 2, up to 3 writes, 1 retention sweep, 1 new life, 1 failed read. FileStore: 2 hashes, 2 requests at a time, 2 or 3 calls, 1 vacuum, 1 drop, 1 restart, cap 0 or 1 | 4 ticks are more than three retentions, so every window is entered and left; memory 1 makes two columns compete and an entry too big; 3 calls let a request attach what an earlier one committed and a third one discards |
| long_calls | Subscribe: pages of 1 or 2, queue of 1, 2 changes, 1 drop, up to 2 interferences; own, foreign, unlabelled rows (the last for an own-rows subscriber) and another table. SecretKeys: 2 keys, 2 tables, 3 field names, batches of 1, up to 2 renames, 1 drop, 1 crash, 1 timeout, 2 callers. ListenRetention: retention 2, 5 ticks, up to 2 changes, pages of 1 or 2, 2 failed renewals, 1 reconnection | replay, hand-over and overflow all happen with 2 changes, and two interferences race each other; a table with two columns and batches of one row has a boundary to interrupt at; a change is pruned after 2 retentions, in tick 5, when its queue has been renewed at least twice, and a tick has two attempts at a renewal |
| live | Subscribe: 1 interference; NamespacePool: 3 callers, 1 namespace, 1 file (re-creation is in access), no backlog authorization; SigningKeys: 1 rotation here and 1 elsewhere or 1 failed read; Shutdown: 1 request | see Fairness |
| records | Records: up to 2 writers or 2 migrators, 2 texts, 2 providers, 2 dimensions, 2 rows, 2 changes, 1 drop. MigrationPlan: 6 tables, up to 3 changes (4 for the full table), of the kinds and arguments in `Adds`, `Alters`, `Limits` and `Malformed` | every order of write, stage, cover, activate, delete, drop, vacuum and restart; two renames and a change that names the result need 3 changes |
| access | Requests: 3 clients, 1 namespace, 1 table, up to 4 calls of an administrator beside one of a user, 3 keys, 2 administrators, one process. SigningKeys: 2 sign-ins, 2 callbacks, 1 rotation here and 1 elsewhere. NamespacePool: 3 callers, 2 namespaces, 1 open at most, 2 files. Shutdown: 2 requests, ids in 2 spellings, 1 other line, stdout stalled or broken | drop, create and insert between two reads of one request take 3 calls; eviction, drop and re-creation happen with a third party in a transaction; callers and namespaces are symmetric; an id used again takes 2 requests |
| engines | Lakehouse: 13 scenes, 2 or 3 commits, 1 crash, 1 fault, 1 vacuum, 1 drop. Postgres: 11 scenes, 2 or 3 calls, 1 lost connection, 1 drop, 2 schemas, 1 vacuum, pages and queue of 2 | a batch of two writes beside one more write takes 3 commits; a query runs beside a vacuum, a migration and a drop, a backup beside a vacuum, a batch and a drop; a lost answer, its retry and a third call take 3 calls; a batch and a write more make a page overflow a queue of 2 in its middle and a replay longer than a page |
| subscribe_foreign, pool_drop, files_discard, secret_report, lake_batch, registry_replicas | the scene of the finding | section 4 |

The bounds are named constants, and each bounded counter's guard names its bound.
`CHECK_DEADLOCK FALSE` is set throughout: the bounds stop every model, and a
stream or a store that was closed really ends. Blocking that is a fault is stated
as liveness (`WindsDown`, `Delivered`, `DropCompletes`, `CallsReturn`).

### Fairness

Subscribe: weak fairness of each goroutine (Go runs every goroutine that is not
blocked), of the poll ticker, and of the drop that has taken `Store.mu` and goes on
to end the sessions. Writers, clients, administrators and the age bound owe nothing.
NamespacePool: strong fairness of the steps of a started call, because the mutex is
a channel and `database/sql` queues its waiters, so neither passes a waiter over for
ever; weak fairness of the end of a session that was told to end. Nothing makes a
subscriber hang up, and `-max-subscription-age 0` disables the age bound, so
`ListenCanceled` is not fair.
SigningKeys: weak fairness of the steps of a started rotation and callback, of the
clock that makes a ring old, and of a request with its refresh; that requests keep arriving is an
assumption on the callers, and without it no server drops a retired key, because nothing but a
request refreshes the ring. Rotations and sign-ins owe nothing.
Shutdown: weak fairness of the main goroutine, whose steps include its timers and the end of the
process. Requests, closers and the client owe nothing, so `Ends` holds although none of them ever
returns.

### Properties

ChangeLog: `TokensCovered`, `PageComplete` ("A conforming engine never silently
shortens a page"), `TokenKeptWhileValid`, `BeginReachesWindow`, `BacklogBounded`
("a client cannot keep an old backlog alive forever"; three retentions is the
bound the code gives: two for the chain's cap, one for the backlog begin starts at).

VectorCache: `VecSound`, which is `VecExact` (a search scores exactly the rows of its own
snapshot) and `VecBooks` (the memory counted is that of the entries in the map, and within
its limit). FileStore: `KeepsPromise` and `BooksBalance` (pins, reserved bytes and the
cached total are those of the open requests and stored files, the total short of nothing but the files
that failed `Put`s left).

Subscribe: `StreamExact` ("the concatenation replay-then-live is exactly cursor
order"), `ClosedIsLast`, `Delivered`, `WindsDown`, `RevokedEnds`, and
`SubscribeSafe`, which is `TypeOK`, `LifetimeDrained`, `WrittenPrefix`, `VerdictWins` and `PinHeld`.
`LifetimeDrained` is about a stream whose context is live: an aged or abandoned
stream gives its tail up (`notify` drops the record, `api/sse.go:100`), although its
close may still name the lifetime; its cursor resumes before the tail.
ListenRetention: `RideSafe`, which is `GapFree` (whatever is pruned, the reader gets every change
once and in order or an error, over a reconnection too), `OwedKept` (a queued change is not pruned
before its cursor is minted, though every renewal of a tick fails) and ChangeLog's
`TokensCovered`.
SecretKeys: `SecOpen`, every stored secret is under a configured key.

NamespacePool: `CallsReturn`, `DropCompletes`, and `PoolSafe`, which is `PoolTypeOK`,
`TxOnCurrentFile`, `OneWriter`, `SessionsOnCurrentHandle` and `PinsBalanced`.
Records: `VectorsMatch`, `ExactlyOnce`, and `RecordsSafe`, which is `TypeOK`,
`NoVectorsLeft` and `AnswersFit`.
MigrationPlan: `PlanExact` (`PlanFaithful`: the row after the plan is the row the changes
describe; `PlanDerived`: so are index, embedding and counts; `PlanAdmits`: no accepted plan leaves a row
its schema refuses) and `PlanAgree` (but for an engine's own words and for fields the lakehouse refuses at once,
PostgreSQL accepts what SQLite accepts and nothing else, the lakehouse accepts at least that, and all that accept
report the same work).

Registry and Requests: `RootKept` (revocations by several administrators never take the last
one away, where one process serves them) and `DecidedWhereRun`, which is `ScopeFits` and `PlanFits` (what was decided on one
incarnation of a table is not done to another, by the operations of `GuardedOps`). SigningKeys: `RingCurrent`, `RetiredDropped`, and `SignInSafe`, which is
`SingleUse` and `PendingBounded`.
Shutdown: `Ends`, and `ShutdownSafe`, which is `ClosedUnderNobody` (the store is never closed under
a request that was not told to stop), `CancelReaches` (a cancellation reaches the last request sent
under its id) and `GraceKept` (a drain that ends inside its grace cut nothing short). A listener that failed is
excepted from `ClosedUnderNobody` and from `Ends`: section 4.

Lakehouse: `LakeDurable`, `LakeVectors`, `LakeReads`, `LakeFeed`, `LakeBackup`. Postgres:
`PgOnce`, `PgVectors`, `PgConstraints`, `PgFeed`. Their statements are beside them.

## 4. Findings

1. **A drop can wait for a subscriber that waits for the drop** (run pool_drop).
   `Listen` behind the head calls `liveAuthz` inside its write transaction;
   that resolves `TableState`, which takes `Store.mu`. `DropNamespace` holds
   `Store.mu` and waits in `evict` until that transaction's connection is closed.
   Both wait, and with them every caller of the store, until the subscriber's own
   context ends.
2. **A foreign record can be queued** (run subscribe_foreign). The live authorization
   reads twice; a table drop between the reads makes the second answer "no scope",
   and an own-rows subscriber's batch is admitted unfiltered. The design says
   "Foreign records therefore never enter the handoff queue at all".
3. **A failed write can delete a file another row names** (run files_discard).
   `Request.Pin` counts an attach only if the hash has an entry already, and may find the
   blob after another request's `Put` and before that request's entry exists.
   `Discard` of the placing request then sees one attach, its own.
4. **A report can miss a namespace** (run secret_report). On PostgreSQL a table dropped
   during `rotate_secret_key` answers an error the operation takes for a namespace that
   is gone; its other tables are skipped and the report shows no value under the old key.
5. **A query can see half a batch** (run lake_batch). The lakehouse drops the error of
   materializing a batch's last write; a query prepared before the batch reads files that
   have the first writes and not the last.
6. **Two replicas can revoke each other's last administrator** (run registry_replicas). `Revoke` and
   `RevokeKey` count who remains and write in separate autocommit statements under a mutex of their own
   process, while replicas share the registry (`docs/deployment.md:125`). The design
   (`docs/design/identity-and-engines.md:486-495`) says that two such calls "cannot each observe the other key
   still active and both commit".

Where a finding's steps belong to a scene of a passing run, the passing run leaves those steps
out, and says so: `Backlogs` is `{FALSE}` in live (1); the uncapped local store has no
copy_from in sqlite (3); no table is dropped in long_calls' PostgreSQL scenes (4); no
fault meets a batch with a query in engines (5); one process serves all clients in access (6).

Met while modelling, without a run of their own:

- PostgreSQL's `importRows` calls `s.write` without `s.constrained` (`postgres/import.go:76`): neither unique nor
  foreign constraints are checked, where `docs/design/relational-constraints.md:97-98` lists import among the
  enforced write paths and the other engines' imports check. No scene of engines has an import beside a
  constraint; with `{"unique", "import"}` or `{"refs", "import"}` among the scenes `PgConstraints` fails.
- A local `Put` that fails in `syncDir` has stored the blob (`files/blob.go:60-68`) and the cached total of a capped
  namespace is not raised, so later files may pass the cap, where `docs/design/object-storage.md:416-418` counts
  "every file the namespace stores". The next sweep corrects it. `BooksBalance` says exactly this.
- A graph traversal takes its snapshot before it asks for the grants (`store/graph.go:63-95`,
  `api/neighbors.go:88`). When the table is dropped, created again and granted in between, the caller reads
  rows of the old table with the grants of the new one. Traversals carry no incarnation and are
  not in `GuardedOps`, so `DecidedWhereRun` does not speak of them.
- When the listener fails (`cmd/dolmen/main.go:149`), `run` returns and its defers close the registry and the store
  under the requests that run, with neither a drain nor the bound of `shutdownCleanup`: a close that hangs keeps
  the process.

- A vector-cache rebuild or catch-up that fails half-way keeps the old fingerprint beside
  torn rows; the entry's lock is released before `c.drop`
  (`store/vector_cache.go:176-198`), and a search that already holds the entry passes the
  re-check at line 232. The scene with a failing read therefore has one search.
- A retired signing key goes on verifying until a request refreshes the ring
  (`auth/oidc_flow.go:458`); the top-level README (797-800) reads as if at once.
  `RetiredDropped` states what the code gives.
- `drop_namespace` deletes files after the engine's drop (`api/ops.go:596-600`); a write that
  creates the namespace again in between can lose its blob. `EarlyUse` is FALSE in the passing run;
  with TRUE, `KeepsPromise` fails.
- A request whose table is missing when its scope is resolved carries no incarnation and is
  not guarded. `Insert` and `ChangesSince` compare the incarnation before their
  transaction. A grant made between `dropTableGrants` and `DropTable` survives the table.
- PostgreSQL's listen session starts its poller at once, where the design
  (`docs/design/postgresql.md:813-818`) lets it wait for the replay; `PgFeed` holds either way.
- The lakehouse planner accepts `set_vectorize b true` followed by `set_vectorize a false`,
  which the other two refuse; hence `PlanAgree` asks agreement in one direction only.

- On stdio the main goroutine answers a malformed line itself (`mcp/stdio.go:102`); when the client
  has stopped reading stdout this write waits, and a signal does not reach the drain: only a second
  one ends the process. `Ends` excepts this state. A request that was read before a signal and not
  yet started is dropped without an answer.
- The fill pump does not verify that what follows `liveRead` is still there
  (`store/listen_live.go:243`), as the replay does (`verifyRetained`): a pump that is held up for two
  retentions would skip changes silently. With a retention of an hour or more that is out of reach,
  and ListenRetention's assumption of time excludes it.

## 5. Proofs

| Module | Theorems | Properties of the runs they state |
|---|---|---|
| ChangeLogProofs | `TypeCorrect`, `CursorsNeverLoseChanges`, `PagesAreComplete`, `BacklogStaysBounded`, `BeginReachesTheWindow`, `ValidCursorsAreKept` | `TypeOK`, `TokensCovered`, `PageComplete`, `BacklogBounded`, `BeginReachesWindow`, `TokenKeptWhileValid` |
| RequestsProofs | `RegistryTypeCorrect`, `RootAdministratorKept`, `RequestsRunWhereDecided`, `RequestsKeepRoot` | `RootKept`, `DecidedWhereRun` |
| ServerProofs | `RingStaysCurrent`, `SignInsStaySafe`, `ShutdownIsSafe` | `RingCurrent`, `SignInSafe`, `ShutdownSafe` |
| NamespacePoolProofs | `PoolStaysSafe` | `PoolSafe` |
| RecordsProofs | `KeyedInsertsHappenOnce`, `VectorsMatchTheirTexts`, `RecordsStaySafe` | `ExactlyOnce`, `VectorsMatch`, `RecordsSafe` |
| FileStoreProofs | `BooksAlwaysBalance`, `FilesKeepPromise` | `BooksBalance`, `KeepsPromise` |
| VectorCacheProofs | `CacheCountsWhatItHolds`, `SearchScoresItsSnapshot`, `SearchScoresItsSnapshotUndisturbed` | `VecSound` |
| PostgresProofs | `DatabaseSound`, `VectorsFollowTexts`, `KeyedCallsApplyOnce`, `ConstraintsHold` | `PgVectors`, `PgOnce`, `PgConstraints` |

Each theorem holds for every value of the constants that the module's named assumptions admit: any
sets of callers, keys, rows or files, any scene, any bound. The assumptions say what the constants
are (finite sets where something is counted, special values outside of the sets they are added to,
positive limits), and TLC evaluates them in the runs.

`ChangeLogProofs` proves, for every set of tables and owners, every retention and
page size and every bound (`RetentionAssumption`, `BoundsAssumption`,
`NamesAssumption`): `TypeCorrect`, `CursorsNeverLoseChanges`, `PagesAreComplete`,
`BacklogStaysBounded`, `BeginReachesTheWindow` and `ValidCursorsAreKept`.

None of the invariants is inductive by itself. That pruning spares what a cursor
needs rests on the cursor's chain: the prune compares with `origin`, the reader reads
from `position`. The inductive invariant `Inv` therefore says of every token
(`GoodToken`) that origin, position and base are ordered, that nothing retained lies
between position and base, that everything after the base is retained, and that the
chain reaches back at most one retention before its start; and of the log that commit
stamps are ordered along it (`StampsOrdered`), that pruning only took a prefix
(`RetainedIsSuffix`: by age and by `origin`, both downward closed along the log)
and only what was older than two retentions (`PrunedAreOld`, which `changeBegin`
needs: the window it starts from was never pruned, even by a call whose `now` was
newer). `AnswerKeepsInv` is the core: the common tail of the three reads preserves
`Inv` for any good position and chain; each read then only shows that its start is
good. `ValidCursorsAreKept` is an action property from `Inv` and
`PrunedTokenExpired`.

The bounds the runs need (`MaxTime`, `MaxSeq`, `MaxTokens`) are arbitrary in the
theorems, so they hold for a log of any length.

`RequestsProofs` proves of the registry, for every set of subjects, objects, keys and groups
(`RegistryAssumption`), `RegistryTypeCorrect` and `RootAdministratorKept`, the action property
`RootKept`. `MoreReachMore` and `NothingTaken` say that who can administer only grows with the grants and the
keys, which settles grants, new keys and the removal of a dropped table's grants. A revocation counts in one
statement and writes in a later one, so `RegistryInv` says of the call that holds the lock what its counts
are still worth (`CallFits`): the administrators it saw are those that remain, since nobody else of the
process writes, and the keys it counted are live or have expired since. `StoreGrantKeepsRoot` and
`StoreRevokedKeepsRoot` take it from there. Both theorems have the hypothesis `OneProcess`: with replicas they are false (finding 6).

Of the requests it proves (`RegistryAssumption`, `RequestsAssumption`) what rests on incarnations never coming back:
generation of the namespace, drop generation and version only grow, in lexical order, while a namespace
that was dropped has none. `RequestsInv` says of the incarnation that a request resolved, and of the one
its last dry run planned for, that it is the table's while the table has not changed and that it has
`Passed` afterwards, so that no table to come has it; and that a client with an unchanged
incarnation and a scope of all rows was allowed all of them (`wide`). Every step of a request is then shown to be
one of four (it goes on, begins, resolves or is done, `Turn`) with one of six changes to the table
(`Evolves`), and these preserve the invariant whatever the operation. `RequestsKeepRoot` shows that what requests do to the
registry are RegistryNext's steps (`RegistryOfRequests`) and takes the rest from `RootAdministratorKept`.

`ServerProofs`, of the signing keys (`LimitAssumption`). That the ring is the registry's outside of a rotation says
nothing of the callback that loaded a ring before the rotation and installs it after. `RingInv` adds
why it cannot: a callback's generation is never ahead of `ringGen`, and if it equals it while
nothing is between a commit and its install, what the callback holds is the registry's ring; a
rotation that has loaded holds it too, since `rotateMu` keeps other rotations out. `KeysSuffice`
counts the keys that are left for the rotations to come. `SignInInv` says that a sign-in is in one
place: waiting in the table, with one callback, or minted once; and that the waiting rows are within
both limits, which is about cardinalities before and after `putPending` evicts.

`ServerProofs`, of the shutdown (`ShutdownAssumption`). `ShutdownInv` has one part for each front. On stdio the wait
group is the number of workers whose last defer has not run (`Counted`), so that a drain that ended has
none; `byKey` leads to the last request of a key while that one holds its slot (`Keyed`), which is what
`CancelReaches` needs when an id comes back in another spelling; and while the main goroutine
waits for the second time every running request is cancelled. Behind HTTP nothing is cancelled before the
`http` closer runs, and after it everything that still runs is.

`NamespacePoolProofs` (`PoolAssumption`). `PoolInv` ties the handles to the calls: a connection in use
belongs to a transaction in progress on that handle, and the converse (`Connected`); an open handle is
the cached one of its namespace and its file, unless a drop is closing it (`Cached`); a pin belongs to a
call that holds it, counted (`PinsBalanced`). An evicted handle has no pin and no connection, hence no transaction or session;
a drop holds `Store.mu` and leaves only when the connections are back. The one way to lose the
cached handle in a transaction is the close of the store, which ends the sessions first
(`TxCached`, `SessionCached`).

`RecordsProofs` (`RecordsAssumption`, `SceneAssumption`). `RecordsInv` says of every writer what it may
hold: before its transaction a vector that is of its own text and fits the schema it read (`VectorDue`), and
after an answer a keyed insert that fits it. A transaction re-reads the schema and gives up when the
schema moved, so what was due then is due now. Staged vectors are one per lifetime, row and provider,
of that provider (`StageFits`); that they are of the row's present text is
compared in the transaction that stamps them (`Stampable`), so no invariant speaks of it. The records of the present lifetime are in
correspondence with the keyed inserts of that lifetime (`RecordsFit`): with the look-up inside the
write transaction, a second insert finds the record of the first.

`FileStoreProofs` (`FilesAssumption`) proves the books and the refinement of FilePromise. `FilesInv` has
two halves. The books (`Pins`, `Reserved`, `Total`) are sums over requests, so each step is first shown to
change one request and its server's memory by the same amount (`Moves`, `Books`). The promise rests
on who may remove a blob. A sweep spares what is pinned and what is referenced, and its
references are read under the writer that every commit takes (`Exclusive`). A discard spares what
is pinned, too; that no row has the blob follows from the attach count: while it is 1 only
the blob's maker has been counted (`MakerAlone`), which in turn needs that a blob is placed by one request
at a time and that nobody has it while it is new (`LocksHeld`, `NewAlone`). A drop may come under a request that
holds files: `Aged` says that a request received before it has an older generation and never gets a
transaction again. With a shared store nothing is discarded.

Both theorems assume `Covered`, a predicate of the constants: no configured store combines
copy_from with a local store without a cap, and `EarlyUse` is FALSE. The two cases it leaves out are real
and described in section 4: the first is the `files_discard` finding, where `MakerAlone` fails since a copy may
find a blob before its maker is counted; the second is a namespace used again before its
drop has answered. The stores of the passing run satisfy it.

`VectorCacheProofs` (`VecAssumption`). `VecSound` has two parts. `VecBooks`, the account of memory, is a
sum over the cached columns: sums of natural numbers are counted as sets of units (`Units`), which gives
the lemmas on sums (`SumCounts`, `SumSplit`) by a least counterexample, and each step changes the entry of at most one column
(an entry belongs to one column, `VecShape`). It holds without conditions: `CacheCountsWhatItHolds`.
`VecExact`, that a search scores exactly its own snapshot, is not inductive: an entry is brought from
one snapshot to another by the log of the later one. The invariant `VecInv` therefore relates every two
snapshots of a column's life, those of running searches, of entries and the committed one: they
`Agrees` on every row that the later one's log does not name between them (`VecPast`, `VecRuns`); an
entry that is neither torn nor too big is one of these snapshots (`VecEntries`), one remembered as too big is too
big for its own position (`VecTooBig`), and the entry a search holds has the rows of its snapshot (`VecHeld`).
`SearchScoresItsSnapshot` assumes `Unshared`: between the read that tears an entry and its removal
from the cache nobody else has that entry. This is the case of section 4 where the code does
return torn rows, so `VecSound` cannot be proved without it; `SearchScoresItsSnapshotUndisturbed` replaces it by a
condition on the bounds that the scenes of the run satisfy: where a read may fail, one search runs at
a time.

`PostgresProofs` (`PgAssumption`: any texts, scenes and bounds). A transaction works on a copy of the database until it commits, so the core of the invariant `PgInv` is a
predicate of a database, `PgSound`, that holds of what is committed and of every open transaction's copy;
`PgTxOK` says that at most one transaction is open (the namespace's row is locked `FOR NO KEY UPDATE`) and that its
log extends the committed one, which is what a commit needs. A write is
described once by what it does to a database (`Wrote`: the log grows by records of one tag and commit id, one table changes),
whatever its body, and these descriptions compose, so that a batch is like one write. For the vectors, what a client prepared outside
of the transaction fits the schema it read, and the schema is compared again inside; a migration commits only
where every row has a staged vector of its present text. `PgOnce` is not inductive: a second application is
prevented by a record, records go with their tables, and a table may be created again. `PgSound` therefore also says that a tag
in the log belongs to a lifetime of `t` up to the present one, that a tag of the present lifetime has its record (`DbTags`) and
that a record has its entry in the log (`DbRecords`); a call that finds no record was then not applied in these lifetimes. That an
acknowledged insert is in the log is about the generation of the namespace, which a drop ends: `PgLeftOK` bounds
the generations of acknowledgements by the one a next namespace would get, so none of them comes back.

`ConstraintsHold` has the hypothesis `UnconstrainedImports`, a predicate of the scenes: none imports into a
table with a unique or foreign constraint. It leaves out exactly the imports of section 4, which are not checked; every
scene of the passing run satisfies it. The rest is that each write is checked against
the whole transaction before it commits, and that a delete or a drop is checked with the tables that refer to it.

Only model-checked, and why:

- everything under fairness (`Ends`, `CallsReturn`, `RetiredDropped` and the other temporal properties of
  the live run): the prover has no rules for it;
- `PlanExact` and `PlanAgree`: they compare recursive functions over lists of changes. The library's
  induction rules cannot be used and each step of such a proof would go through a least
  counterexample (as the sums of VectorCacheProofs do), which is out of proportion for
  definitions of this size;
- `StreamExact`, `ClosedIsLast`, `SubscribeSafe`, `RideSafe`, `SecOpen`, `PgFeed` and the invariants of Lakehouse:
  their inductive invariants have not been written.

## 6. Not modelled

- ChangeLog: a wall clock that steps back, and the encoding of cursors.
- Subscribe: a pump that panics, heartbeats, frame encoding. ListenRetention: filters, overflow and the
  closes, which are Subscribe's; a pump held up for half a retention.
- Records: row scopes and bound incarnations, updates that leave the vectorized
  field alone, several rows per call, the UNIQUE-conflict fallback of
  `insert.go:257`, which `BEGIN IMMEDIATE` makes unreachable, full-text rows,
  constraints and files. A SQLite batch is one transaction of the one writer, so nothing runs
  between its writes; its retry is left out.
- MigrationPlan: scoped counts, the identity of the embedding space, and the check of new constraints against
  the stored rows at plan time (`store/migrate.go:828-834`).
- FileStore: the bytes and their types; the S3 protocol.
- SecretKeys: reveal, masking and the fingerprints of idempotency; several servers. SQLite counts
  each field in a query of its own, so three renames that swap two fields between the queries could
  hide a column; with two renames, the bound, they cannot.
- Requests: decoding, paging and the shape of answers; what search, query, filter and graph
  traversal compute. The filter grammar and the rendering of SQL are string processing without
  state.
- SigningKeys: the exchange with the provider is one step that may fail.
- Lakehouse: Iceberg's own commit and `ExpireSnapshots` are external; retention and the admission
  of memory are left out. A crash between the journal's rename and its republication leaves
  `dolmen-current` stale until `freshenCurrentMetadata`.
- Postgres: retention, the live authorization of a feed, the close of the store in a session,
  confirmation of files. Vacuum on another server may delete the stages of a running
  migration, which costs a retry.
- Shutdown: the MCP server behind HTTP and the decoding of its tool calls; reading the configuration,
  the flush of telemetry.
- Telemetry, the Go facade, embedding providers beyond their answer: see the components in
  `PROJECT.json`.

## 7. Plan

Done: every module of section 2, with the proofs of section 5. Left, in this order:

1. Proofs: ListenRetention's `RideSafe`, over the lemmas of ChangeLogProofs; Postgres' `PgFeed`;
   Subscribe's `ClosedIsLast`.
2. The retry of a SQLite batch with its idempotency record.
