# Formal models of Routier

Routier is a local-first data toolkit in TypeScript: an application works on
typed collections, a *plugin* stores them (memory, files, browser storage, SQL,
MongoDB, PouchDB, …), and *wrapper plugins* add batching, caching, optimistic
concurrency or replication around any of them. This directory holds TLA+ models
of the parts of it where the order of events decides what is stored: TLC checks
them on small instances, TLAPS proves theorems about most of them, with their main
safety properties, for all values of the constants.

Paths below are relative to `src/`. `PROJECT.json` has, for every definition,
the source lines it stands for (`map`), for every property the run that checks
it and a plausible bug of the code that the run would find (`mutants`), and the
list of what is hard to test, each at its line (`hazards`).

    tlc -workers 4 -config swr_paced.cfg MCHttpSwrWrites.tla
    tlapm ViewsProofs.tla

## 1. The system

### How the parts interact

    application
      │  add / assign / update() / remove, saveChanges(), queries
    DataStore + collections ── ChangeTracker        what is unsaved
      │  bulkPersist(event, done), query(event, done)
    wrapper plugins: Batching, Cache, Concurrency, Retry, Telemetry,
      │              OptimisticUpdates, PluginSyncEngine, HttpSwr
      │  the same two calls and destroy(event, done)
    storage plugin: EphemeralDataPlugin over memory, files, browser storage;
                    SQL; MongoDB; Dexie; PouchDB; HTTP

Everything runs in one JavaScript thread. What interleaves are callbacks,
promise reactions, timers and answers of the file system or the network: a step
of a model is what runs without giving control back. Every plugin call has a
`done` callback, which may run inside the call or much later. Two things go
wrong in such code: state read before a wait and used after it, and a `done`
that is called twice, or never.

### Components

For each: the state it keeps, its operations, what is hard about it, and what
makes it correct. Where there is a model, its module is named.

**BatchingDbPlugin** (`core/src/plugins/BatchingDbPlugin.ts`) → `BatchingDbPlugin`.
State: the queue, the `isWriting` latch, the continuation of a deferred destroy.
`bulkPersist` queues; a drain takes up to `maxBatchSize` writes, merges
neighbours on disjoint schemas into one event, re-runs a failed event item by
item, answers each caller, and goes back to the queue. Hard: writes and a
destroy arrive during any of this, and the inner plugin may fail, throw or
answer partially. Correct when no caller is dropped or answered twice, the latch
never sticks, arrival order is kept, and merging loses nothing.

**HttpSwrDbPlugin** (`plugins/replication/src/HttpSwrDbPlugin.ts`, with
`UnsyncedQueue.ts`, `httpUtils.ts`): a local store in front of an HTTP server.
It is three machines, which share the queue:

- *Write path* → `UnsyncedRows`, `HttpSwrWrites`. State: the local store, a
  durable queue of obligations (one row per entity and kind of operation, merged
  as edits come), the saves, POSTs and flush in progress. A save is stored,
  recorded and acknowledged, then posted (`postOnPersist`), or left to the
  flush, which sends pending rows, isolates those the server rejects and marks
  them dead. Hard: POST and flush race, answers get lost, the process ends
  between any two of these steps, edits arrive while their predecessors are out.
  Correct when no acknowledged edit is lost and both sides end up equal.
- *Local store* → `HttpSwrStore`. State: the store, the GETs out, the lock
  `storeMutex`. Stale queries answer from the store and revalidate; a miss
  fetches; the server's echo of a POST is written back. Hard: an answer older
  than the store, and unsynced changes it must not overwrite. Correct when
  unsynced changes are authoritative and every query becomes fresh.
- *Flush scheduling* → `FlushScheduler`. State: `flushInFlight`, `flushQueued`,
  and the microtasks that clear one and start the other. Correct when flushes do
  not overlap and whoever asks is answered by a flush that began afterwards.

**ChangeTracker and saveChanges** (`datastore/src/change-tracking/`,
`datastore/src/DataStore.ts`) → `ChangeTracker`. State: attached rows and what
their proxies recorded, pending additions by content or key, removals, patches.
`prepare` collects, the plugin stores or refuses, `mergeChanges` takes the
generated identities over, `clearChanges` forgets. Hard: additions have no
identity until they are stored; calls, queries and a second save happen while
one is out. Correct when every change is sent until it is stored, and once.

**DataStore and the full-text index** (`datastore/src/DataStore.ts`,
`collection-builder/fullTextSearch.ts`, `search/FullTextSearchIndexer.ts`) →
`DataStore`, which EXTENDS `ChangeTracker`. State: the rows of the index in the
database, `indexedAdds` of the registry, a rebuild in progress. A save carries
the index rows of its documents; those of documents whose key the database
assigns are written after it. Hard: the rows that leave are computed from what
the collection believes is stored; the second write fails, or the process ends
before it; a rebuild runs beside saves. Correct when the index describes the
documents, and the next save is one that the unique keys of a database let in.

**EphemeralDataPlugin over files** (`core/src/plugins/EphemeralDataPlugin.ts`,
`plugins/file-system/src/FileSystemDbCollection.ts`) → `FileSystemPlugin`.
State: a map per file in memory, the number its identity keys are counted from,
its load state and waiters, the files. `bulkPersist` loads, validates, applies with an undo for each change, and saves
one file after the other; a failed save reverts memory and saves those already
written once more. Hard: loads are shared, saves interleave, an undo may fail,
errors after a wait leave the pipeline by another way, adds are numbered before
their file was read. Correct when a failed persist did nothing, an answered one is
on disk, and a stored row is dropped only by an add numbered over it that way.

**CacheDbPlugin, ConcurrencyDbPlugin, RetryDbPlugin** (`core/src/plugins/`) →
`PluginStack`. State: per store an LRU of query results and the versions last
seen of each row. A query is answered by the cache or goes through; a save
empties the cache before and after, stamps what was observed, and the database
checks it. Hard: several stores, answers that come late, conflicts, saves that
failed but may have been applied in part, both orders of nesting. Correct when a
cache serves what its own store replaced only by a known race, every row that
was read is updated with a check, and a checked update replaces what was seen.

**PluginSyncEngine, OptimisticUpdatesDbPlugin** (the files of these names in
`plugins/replication/src/`) → the modules of these names. State: the calls out to the source and its mirrors,
and which have answered; the hydration of the memory plugin that answers reads.
Hard: plugins that hang, answer twice, after their timeout or after they applied
half; a hydration under way while its collection is written. Correct when the
source decides, everyone is answered, and reads show the caller's own changes.

**Change notification, DataBridge, views** (`core/src/schema/communication/`,
`datastore/src/data-access/`, `datastore/src/queryable/`,
`datastore/src/views/View.ts`) → `LiveQueries`, `Views`. State: reference-counted
channels, messages in delivery, the ids each subscriber was last shown, the
snapshots a view has queued, and the chain of its writes. Hard: messages are
stamped by clocks and asked about later, answers overtake each other, disposal
comes at any moment. Correct when what is shown is stale only by a known race,
channels live while they are heard, and a view's table holds what it was handed.

**Expressions and queries** (`core/src/expressions/`, `core/src/plugins/query/`,
`core/src/plugins/translators/`, `datastore/src/queryable/`, the SQLite builder
of `plugins/sql-core`) → `FilterExpressions`, `Queries`. Pure: a filter is parsed
to a tree, which memory evaluates and a database selects by; options run in the
database or in memory; a condition after a join is split between the sides; a
semi-join narrows the inner read. Hard: negation, nulls, the third answer of a
tree that names what a row lacks, and options that do not commute. Correct when
every route gives what the caller's closures say.

**Storage plugins** (`plugins/sqlite`, `d1.ts` there, `postgresql`, `mysql`,
`mongodb`, `dexie`, `pouchdb`) → `StoragePlugins`, `StoragePromise`. State: the
chain or queue of a plugin, the connections out, the transaction of each call.
`bulkPersist` turns a save into statements, in a transaction where there is one,
and creates missing tables on the way; so do queries. Hard: several processes
use one database, which locks, aborts and deadlocks; two create one table; a
COMMIT fails after it was carried out; PouchDB stores document by document; a
builder throws on an operand or a value it has no statement for, outside what
PostgreSQL's plugin catches. Correct when an answer says what became of all of the save, no checked change
lands on a row its caller had not seen, and everyone is answered whom section 4
does not name.

**Not modelled yet, planned** (section 6): the rest of *DataStore* (PARTIAL
answers, audit rows, soft delete, several collections), *WorkPipeline* and
*TrampolinePipeline* alone.

**Left out for good**: *telemetry* (forwards), *HttpDbPlugin* and the *wire
handler* outside the SWR plugin (one request, one answer, no state), *memory* and
*browser storage* plugins (the code of `FileSystemPlugin` with synchronous load
and save: nothing interleaves), *blob plugins*, *schema and code generation*,
*transforms* (pure functions on data whose correctness is a matter of syntax or
cryptography), the *text* of filters (tokens, precedence, templates),
*sync-server* beyond its write rule, which is in `HttpSwrWrites`, *React
bindings*, examples, benchmarks and documentation tooling.

## 2. The modules

| Module | Models | State ↔ code |
|---|---|---|
| `SerialWriter` | what a batching wrapper promises, abstractly | accepted writes in order, what is closed, who was told what |
| `BatchingDbPlugin` | `BatchingDbPlugin.ts` | `queue`, `isWriting`, `onSettled` are its fields; `batch`, `retry`, `inFlight`, `continuing` are what the closures of a drain hold |
| `UnsyncedRows` | the row arithmetic of `UnsyncedQueue.ts`, as operators | a row is [id, kind, entity, fields, rev, seq, dead …] |
| `HttpSwrWrites` | `HttpSwrDbPlugin.ts` write path over `UnsyncedQueue.ts` | `local` the swr store, `rows` the queue's store, `mutex` its queued writes, `saves`/`flush` the async functions in progress |
| `HttpSwrStore` | revalidation, misses, echoes | `local`, `posts` the POSTs of saves, `gets` the shared GETs, `mutex` the holders of `storeMutex`, `waiting` who awaits a GET |
| `FlushScheduler` | `requestFlush`, `startFlush` | `inFlight`, `followUp` are `flushInFlight`, `flushQueued`; `jobs` the microtask queue, `reactions` those a promise will queue |
| `ChangeTracker` | `ChangeTracker.ts` and saveChanges | `row` what a handle and its `__tracking__` hold, `additions`, `removals` the pending maps, `saves` the packages out, `stored` the database |
| `DataStore` | index maintenance in and after a save, rebuild; EXTENDS `ChangeTracker`, whose actions its own ones take | `index` the rows, `indexedAdds` the registry's set, `rebuild` the promise's locals |
| `FileSystemPlugin` | `EphemeralDataPlugin.ts`, `FileSystemDbCollection.ts` | `memory`, `nextIds` and `loadState` the collections, `waiters` the callbacks of a shared load, `persists` the pipelines, `disk` the files, `turn` the callbacks still to run in this turn |
| `PluginStack` | the cache, concurrency and retry wrappers of several stores over one database | `entries` the LRU, `observed` the tokens, `reads`/`saves` the calls in progress, `db` the rows |
| `PluginSyncEngine` | `PluginSyncEngine.ts` | `tables` what each plugin holds, `saves` the calls of a save and what `guardedCall` made of each |
| `OptimisticUpdatesDbPlugin` | the same with a memory source and hydration; EXTENDS it | `written`, `hydration` are `writtenCollections`, `hydrationPromises` |
| `LiveQueries` | `broadcast.ts`, `DataBridge.ts`, the executor's deliveries | `channel` and `mail` the registry, `subs` each subscriber with its queries out and what it shows |
| `Views` | `View.ts`; EXTENDS `LiveQueries` | `views` a view's queue, step and table, `chain` is `viewWrites` |
| `FilterExpressions` | parser, `evaluate`, SQL conditions, as operators | a closure is a condition; `Parse` gives its tree |
| `Queries` | the query builder, translators, joins, executor, SQLite builder | `options` the calls so far, over every small table |
| `StoragePromise` | what any storage plugin promises of a save, abstractly | the rows, and of each save what landed and what was answered |
| `StoragePlugins` | `bulkPersist` and `query` of the seven plugins | `calls` the async functions and callback chains in progress with their connection (`held`) and transaction (`view`); `owner`, `creator` the database's locks |
| `MC…` | instances for TLC | the SYMMETRY set and the named constants |
| `DataStoreProofs`, `FileSystemPluginProofs`, `HttpSwrStoreProofs`, `HttpSwrWritesProofs`, `OptimisticUpdatesProofs`, `PluginStackProofs`, `StorageProofs`, `ViewsProofs` | inductive invariants and theorems about the module named; `DataStoreProofs` covers `ChangeTracker` and `BatchingDbPlugin` too, `HttpSwrStoreProofs` covers `FlushScheduler` too, `OptimisticUpdatesProofs` covers `PluginSyncEngine`, `StorageProofs` covers `StoragePlugins` and `StoragePromise`, `ViewsProofs` covers `LiveQueries` | section 5 |

Actions have the names of the functions they model, or of what happens to
them (`PostUnheard`: the server applied a POST whose answer was lost). An
operator marked *(variant)* is a plausible mistake: a run with it in place of
the operator below it must fail.

### What is abstracted

- Values are numbers. In the replication models a change *is* its number, and
  an entity is the set of changes in it (each writes a field of its own) or, in
  `HttpSwrStore`, the number of the last one. So "lost edit" and "stale row" are
  statements about sets.
- `BatchingDbPlugin`: reads and telemetry pass through and are left out. An
  inner plugin that is atomic applies all of an event or nothing; with
  `IsAtomic = FALSE` it may apply some of a failed one. It answers each call once.
  The `try` around that call (`BatchingDbPlugin.ts:331`, 391) also encloses the
  callback of an inner plugin that answers at once, so a caller's `done` that
  throws makes the wrapper answer the event again, with the error: callbacks that
  throw are left out.
- `HttpSwrWrites`: one collection, one change per save. A POST and its answer
  are one step, as the client reads nothing in between; a POST whose answer is
  lost is an action of its own. Attempts that change nothing are not steps.
- `HttpSwrStore`: one collection, one change per save; the flush is one batch,
  which is read when it lands. A save may settle its POST any time after it
  landed, as it waits for those of its other collections (`Promise.allSettled`).
  POSTs merged by the write batcher are in `HttpSwrWrites` only. `skip`/`take`
  windows, the arithmetic of `maxAgeMs` and notifications are left out.
- `FlushScheduler`: what a flush does is `HttpSwrWrites`; here it has an
  interval to wait out, begins to read, and settles.
- `ChangeTracker`: no attach/detach by hand, `markDirty`, soft delete, tags,
  nested properties, transforms or audit rows. Two backends: memory and its
  family add, update and remove, over whatever is there; SQL removes, updates
  what is there and inserts, and refuses a key that is there.
- `DataStore`: a document has one field with one term, so an index row changes
  or not and has no frequency; one collection, one index; no search.
- `FileSystemPlugin`: one change per file and persist. No destroy, files that do
  not parse or callers that throw. A missing file loads like an empty one. An
  added row of a file with identity keys gets its number when the batch is
  applied; that a caller adds it again after a failure, with the number it then
  has, is left out.
- `PluginStack`: one collection. A query's answer is the whole table: filters
  would only hide what a stale entry holds. Versions and change numbers stand
  for rows.
- `PluginSyncEngine`: a save changes one row of one collection; a plugin that
  hangs is one that never takes a step. Queries, which change no state, and the
  full-row payload modes are left out.
- `LiveQueries`, `Views`: one collection. A row is the number of the change that
  wrote it and whether it matches *the* filter; a message names one row. Other
  tabs are one thread with one clock.
- `FilterExpressions`, `Queries`: conditions are trees of the forms a closure may
  have, not text. Properties are a key, a join key, a number, a boolean, one that
  is computed and one that the schema does not know. Groups, aggregates, search
  and the other SQL dialects are left out.

- `StoragePlugins`: one database, chosen once (`backend`; `loose` is MongoDB
  without transactions), and several plugins on it. A table has one row: what a
  statement does to several is what it does to each, and a save that touches two
  tables has two statements. The work of a save is a set of operations, each with
  a rank; the first by rank is done next, and PouchDB's bulk write is all of the
  first rank. `StoragePromise` lets the row of a "replace" be seen vacated where
  nothing is atomic: it is removed and added in two steps there. The database is the environment (row locks, aborted
  transactions, snapshots and write conflicts of MongoDB, locks of IndexedDB):
  its definitions are marked external. A BEGIN that waits for SQLite's lock and
  one that gives up are both there. D1 refuses whole schemas that have a token;
  here it refuses the saves that carry one. PouchDB's deleted revisions are not
  kept: to remove a row twice succeeds, where PouchDB may report a conflict. Its
  read-back of stored additions is part of the write. `Malformed` names the saves
  and the reads that a builder throws for: a null operand, two properties compared
  by `includes` (`sql-core/src/sql.ts:514`, 545), a value JSON does not take. MySQL
  builds a save after it has created its tables, in the transaction that it then
  rolls back; here it is refused before. SQLite throws to the caller of `query`,
  which counts as an answer. What decoding or translating the rows may throw, after
  they came, is left out, and so are joins, which all four catch.

`TypeOK` is defined in every module with variables. It is proved for the nine
systems of section 5; in the others it holds on every instance below and may be
added to any configuration.

## 3. The runs

`Races`, `During` and the like name orders of events: a run admits those it
lists. They are there because with some of them the code does not keep a
property, which section 4 lists: the run then says what holds *without* that
order, and the table says which order breaks it.

| Run | Instance | Asks |
|---|---|---|
| `batching_atomic` | 4 writes on overlapping and disjoint schemas, groups of up to 3, 2 destroys | is each write held in one place or answered once; does a failure apply nothing; does it implement `SerialWriter`; is every write answered and a destroy forwarded |
| `swr_paced` | 2 entities, 4 changes of all kinds with and without a tracked delta, 1 fault, 1 change the server rejects, flush only | is every acknowledged intent queued until applied; is every edit on the server or in a row; does an opId describe its bytes; does an empty queue mean equal sides; does the server never go back |
| `swr_live` | 2 entities, 3 changes, 1 fault, poison, retried dead letters, rows written back late | does the queue drain again and again |
| `store_shared` | 1 entity, 2 changes made here or elsewhere, delivered by the POST of their save and by the flush, a filtered and an unfiltered query, echoes in any order, lost answers, one refused change, a failing queue read | do merges leave unsynced changes alone; do confirmed ones stay; does every query become fresh |
| `flush_scheduling` | timer, online event and application; 5 flushes; destroy | can flushes overlap, and how; is everyone answered, by a late enough flush |
| `tracker` | 2 rows, none or 1 in the database; twelve collections: proxied, diffed, immutable, with known and generated keys, on memory and SQL, half of them indexed; 2 saves that may overlap, 1 refused, 1 query, 1 index write refused, 1 rebuild, the end of the process | is every change tracked until stored, once; is the next save one the database lets in; is a clean row what the database holds; what may make the index wrong, and does a rebuild mend it |
| `files` | 2 files of 2 rows, one of them with identity keys, 1 row named by persists, 2 persists that may overlap, 2 failures of a read, a write or the process, a query | are stored rows kept; does a failed save do nothing; is an answered one on disk; does each persist end |
| `stack` | 2 stores, one with the cache outside the concurrency plugin and one with it inside, 2 queries, 1 cache entry, 2 calls at once, 2 saves refused, failed or half applied | what may a cache hold that is stale; is every row that was read checked; what does a checked update replace |
| `optimistic` | five engines: the optimistic one, after-source and after-all, swallowing and surfacing, 1 or 2 mirrors; 2 saves of one row, timeouts, destroy | which plugins have which saves; what does success mean; do reads show the caller's changes; is everyone answered |
| `views` | a mirror of a filtered query or a history with 3 changes, or both with one, here and in a thread whose clock is behind, failures, disposal of both | when is a subscriber stale; does a view's table hold what it was handed; do views come to rest |
| `queries` | 2 tables with nulls, 2 inner tables, 11 conditions after and before joins, 4 calls in any order | do tree, halves, splits and statements answer what the closures say |
| `storage` | 8 databases, 2 plugins with one connection each, 2 tables, one of them with identity keys, each there or not; 2 of three saves and a read, or of a save and a read no statement can be built for; 1 fault or lost commit; a store with a schema of several keys or none | does each plugin implement `StoragePromise`; why may a save fail; is everyone answered |

### Why the bounds are enough

- *Batching*: four writes give a group, an item it cannot take, and one left in
  the queue while a failed group is re-run; two destroys give the second one
  during the first. Two schemas make writes disjoint, equal and overlapping.
- *Replication*: an add, two edits and a removal of one entity pass through
  every merge rule of the queue; the second entity is the batchmate of a poison
  change. One fault is a crash, a failed queue write or a retry of dead letters,
  at any step: each starts over from the two durable stores, which are the whole
  state a second one would find. Instances with two faults were not checked.
- *Store*: two changes are the one on its way and the one made meanwhile, and
  their POSTs and the flush are three echoes that may come in any order. One
  merge at a time meets saves, echoes and the other query's answers; a merge that
  waits while another holds the lock was checked without the saves' POSTs
  (`Direct = FALSE`, `MaxMerges = 2`, 314k states) and, for the safety properties,
  with them and one query (782k). Three changes (`MaxMerges = 1`, one query,
  8.6M states) were checked for the safety properties too.
- *Scheduling*: each caller can be in one of three places: it runs, it waits
  for the flush in flight, or for the follow-up. Five flushes let a follow-up be
  followed twice.
- *Tracker*: two rows collide in content and in identity, and from an empty store
  both are pending at once and share a bucket; two saves overlap or
  follow a refused one, and one refused index write is the one that matters.
  Adds and edits while a save is out (6.0M states) were checked too. Each
  backend meets each way of tracking and each kind of key, one of them indexed.
- *Files*: two files are the smallest batch of which one is written when the
  other fails; two faults are a failure and a failure of its undo. The stored row
  that no persist names has the number the first add gets after a restart, and
  there is room for every number given. Three persists (1.9M states, safety
  properties) were checked without overlaps, three files (4.1M) without overlaps
  and identity keys.
- *Stack*: two stores are the one that reads and the one that writes; a cache of
  one entry evicts on its second query. One row, as wrappers treat rows alike.
- *Optimistic*: two saves of one row are what two mirrors can hold in different
  orders; a save, its timeout and its late application are three steps of one.
- *Views*: three changes of a row let it enter, change and leave a filter, or
  be written while two answers are out; two views that follow one change share
  the channel, the chain and the store that is disposed.
- *Queries*: four calls hold a filter, a join, a condition after it and a window
  in any order; a table of three rows with equal and missing keys tells apart
  sorts, windows and join kinds.

- *Storage*: two calls are the creator and the one that collides, the holder of
  a lock and the one that waits, a cycle of two. The saves name the tables in
  opposite orders, for a deadlock, and one misses what the other adds. Four
  saves and two tables to read (382k states) were checked too.

### Fairness

No model assumes that a failure stops happening unless the code relies on it.

- `BatchingDbPlugin`: weak fairness of the drain's continuation, which runs in
  the inner plugin's callback, and of that callback: a plugin answers each call.
- `HttpSwrWrites`: weak fairness of promises that settle (a save's POST, a
  flush) and of the flush, which the background timer starts
  (`HttpSwrDbPlugin.ts:443`). Strong fairness of a
  flush's success and of the burial of a poison row: a server asked again and
  again answers now and then. It is not assumed of any given POST.
- `HttpSwrStore`: weak fairness of the client's own steps and of `storeMutex`
  being handed on. Strong fairness of answers heard, and of the application
  asking its queries again: nothing refreshes a query that nobody asks. Nothing
  is assumed of the POSTs of saves: the flush delivers what they do not.
- `FlushScheduler`: microtasks run, timers fire, and a flush settles (each
  request has a timeout, and its retries are counted).
- `FileSystemPlugin`: a turn runs to its end; every file-system call is
  answered, well or badly.
- `OptimisticUpdatesDbPlugin`: weak fairness of a call's answer or its timeout,
  whichever comes, as `guardedCall` arms a timer for each; and of the hydration's
  query, which has no timeout: that the wrapped plugin answers it is assumed.
- `Views`: weak fairness of a view's own steps: its reads and writes are
  answered, well or badly. Nothing is assumed of changes, messages or queries.
- `StoragePlugins`: weak fairness of some step of some call. The database
  answers or fails, breaks its deadlocks, and lets locks go; the rest is the
  plugin's own. Nothing is assumed of faults.
- `ChangeTracker` with `DataStore`, `PluginStack`, `Queries`: none; they have safety properties
  only.

`CHECK_DEADLOCK FALSE` is in the runs whose system may rightly stop: every
write answered, every bound used up, everything disposed.

## 4. What the runs show

### Reproducible by constants

Where the code, as modelled, does not do what a reader may expect or a comment
says. These are not kept as runs: change the constants of a configuration, and the
invariant or property in it, as below, and TLC gives a trace.

`HttpSwrWrites`, from `swr_paced` or `swr_live`. With one entity, 3 changes,
`Trims = {FALSE}`, `Direct`, no poison and `Races = {"reuse"}`, `EditsKept` and
`SettledMeansEqual` hold: the two dequeue rules (by row on flush, by revision on
POST) keep both sides equal as long as whole entities are sent.

| Constants | Violated | Why |
|---|---|---|
| `Direct`, `Trims = {TRUE}`, 1 entity, 3 changes, `Races = {}` | `EditsKept` | a save's trimmed POST retires the row, which also carried the fields of an earlier edit whose POST had failed (`HttpSwrDbPlugin.ts:1616`) |
| `Direct`, `Trims = {FALSE}`, `Races = {"late"}` | `ServerNeverRegresses` | a retry of a save's POST waits outside the pacer and lands after newer data (`HttpSwrDbPlugin.ts:1428`, `httpUtils.ts:168`) |
| `Direct`, `Trims = {TRUE}`, `Races = {}` | `OpIdDescribesBytes` | the row keeps the newest change's opId while its payload grows (`UnsyncedQueue.ts:240`) |
| `Races = {"overlap"}` | `NewestIntentKept` | removals are by row id, what they compared was read outside the mutex (`UnsyncedQueue.ts:273`, `301`) |
| `Races = {"writeBack"}` | `NewestIntentKept` | failed attempts and dead letters are written back whole (`UnsyncedQueue.ts:475`, `521`) |
| `Races = {"unread"}`, `Trims = {TRUE}` | `EditsKept` | a failed read counts as an empty queue (`UnsyncedQueue.ts:541`) |
| `Races = {"reuse"}`, 1 entity, `Trims = {TRUE, FALSE}` | `SettledMeansEqual` | the queued edit of an entity that was removed and added again still has what was edited before the removal (`UnsyncedQueue.ts:240`) |
| `Races = {"retry"}`, `Poison = {1, 2}`, 1 entity, 3 changes, 2 faults; or `{"late","retry"}`, `Poison = {1}`, 2 changes | `SettledMeansEqual` | a revived dead row is not superseded by a later removal (`UnsyncedQueue.ts:451`, `279`) |
| `Direct`, `Batches`, `Trims = {FALSE}`, `Races = {"reuse"}`, 2 changes | `SettledMeansEqual` | merged bodies lose the order of kinds (`httpUtils.ts:259`, `371`) |
| `ServerUpserts`, `UpdateReplaces`, `Trims = {TRUE}` | `ServerNeverRegresses` | a server that replaces rows gets trimmed ones (`sync-server/src/server.ts:364`, `HttpSwrDbPlugin.ts:1450`) |

`HttpSwrStore`: `InsertOnly = TRUE`, `Queries = {"some"}`, `Matching = {2}`
→ `EventuallyFresh`: a cache miss takes the store for empty when only its filter
matched nothing, so it adds rows that are there, and a store that refuses the
add answers no such query any more (`HttpSwrDbPlugin.ts:1096`,
`dexie/src/DexiePlugin.ts:220`). If an unfiltered query is asked too it holds.
With 2 entities, one unfiltered query, `Poison = {}` and `Races = {}`,
`UnsyncedStaysLocal` fails: the server's echo of an older change is written over
an edit made while the POST was out, although that edit is in the queue
(`HttpSwrDbPlugin.ts:1705`). The queue still sends it, so the store is wrong
until the next revalidation. With `Direct` the same happens to a change that is
confirmed and in no queue: a save settles its POSTs when all its collections are
answered (`HttpSwrDbPlugin.ts:1599`), so while it waits for a slow one, a later save
of the same entity may be delivered, dequeued and echoed; the older echo is written
over it (`HttpSwrDbPlugin.ts:1608`), although the server has the newer row. Without
the second disjunct of `Dequeue`, which sets such a change aside, `store_shared`
refutes `ConfirmedStaysLocal` in ten steps; with it the run and the proof say that
there is no other way but a GET that was out.

`FlushScheduler`: with 4 flushes `FlushesNeverOverlap` fails
(`HttpSwrDbPlugin.ts:474`, against the comment at 460): a caller that is
answered between the clearing of `flushInFlight` and the start of the follow-up,
and asks again at once, starts a flush beside it. The run shows that this is the
only way (`OverlapOnlyByJumping`).

`BatchingDbPlugin`: `EveryDestroyForwarded` fails: a second destroy during one
write replaces the first, whose `done` never runs (`BatchingDbPlugin.ts:169`).
With `IsAtomic = FALSE`, `EachWriteHeldOrAnsweredOnce` and
`AppliedInArrivalOrder` (which `SerialSpec` implies otherwise) still hold.

`ChangeTracker` and `DataStore` (`StoreSpec`, the definitions of `MCDataStore`;
`MaxReads`, `MaxIndexFailures` and `MaxRebuilds` 0, `Crashes = FALSE`,
`Careless = {}` and `During = {}` unless given):

| Constants | Violated | Why |
|---|---|---|
| `During` any one call but `read`, `Plain` | `TrackedUntilSaved` | `clearChanges` forgets also what was asked while the save was out (`ChangeTracker.ts:1018`) |
| `During = {"save"}` or `{"edit"}`, `Plain` | `NoSaveRejected` | the answer meets an addition that is gone or filed elsewhere, and throws after the database stored it (`ChangeTracker.ts:338`) |
| `Proxied`, `Starts = {{}}` | `TrackedUntilSaved` | a row that is added, edited and saved keeps what was recorded before the save; set back to what it was added with, it is clean and the edit is never sent (`ChangeTracker.ts:360`) |
| `Proxied` | `NothingSentTwice` | for the same reason a row edited before its first save is sent again |
| `Proxied` | `NothingElseDrifts` | for the same reason the removal of such a row names a content that is not stored: its term stays in the index, and with SQL later saves meet the unique key (`fullTextSearch.ts:377`) |
| `Careless = {"reread"}`, `Starts = {{1, 2}}`, `MaxReads = 1`, `Proxied` | `TrackedUntilSaved` | a query merges into a row with unsaved edits (`ChangeTracker.ts:787`) |
| `During = {"read"}`, `MaxReads = 1`, `Plain` | `TrackedUntilSaved` | an answer read before a save and delivered after it puts the row back; set to the stored value again it counts as edited back |
| `Careless = {"editRemoved"}`, `OnMemory` | `TrackedBetweenSaves` | a backend that inserts what an update does not find brings an edited removed row back |
| `Careless = {"editRemoved"}`, `OnSQL` | `IndexDescribesDocuments` | the update of a row that is removed finds nothing, but its index row is inserted |
| `Careless = {"removeUnsaved"}`, `OnSQL` | `SavedAsAsked` | SQL removes before it inserts, so a row added and removed before one save stays |
| `Careless = {"removeUnsaved"}`, `OnMemory` | `SavedAsAsked` | the removal of an unsaved row with an identity key names no key (`ChangeTracker.ts:873`): it removes nothing, and the addition still goes out |
| `Careless = {"removeEdited"}`, `OnSQL` | `IndexDescribesDocuments` | a row edited and removed in one save: SQL removes its new term before it inserts it, and the term stays (`fullTextSearch.ts:377`, `sqlite/src/plugin.ts:290`) |
| `Careless = {"removeEdited"}`, immutable, `OnMemory` | `IndexDescribesDocuments` | the removal names the pending generation, of which nothing is in the index |
| `MaxIndexFailures = 1`, `Indexed` | `TrackedUntilSaved` | a stored save answered with its index's error is not merged, so the next one stores the same additions again (`DataStore.ts:312`, against the comment at 294 that it is a failed save) |
| `MaxRebuilds = 1`, `Indexed` | `NothingElseDrifts` | a rebuild that read documents before a save and the index after it takes the save's terms out (`FullTextSearchIndexer.ts:154`, against the comment at 19) |

`FileSystemPlugin`: without faults `SnapshotsLandInOrder` fails: two overlapping
saves of one file may rename the older snapshot over the newer one
(`FileSystemDbCollection.ts:183`). The code drops a stored row: a batch of adds is
applied without loading its file, because "an add needs no prior state"
(`EphemeralDataPlugin.ts:119`), but an identity key is counted from what the
collection has met (`MemoryDataCollection.ts:33-44`), which after a restart is
nothing. The added row gets the number of a stored one, the hydration before the
save keeps the row in memory (`addIfAbsent`, 141-148), and the file is written
without the stored row. TLC shows it in 8 steps when `StoredRowsKept` does not
except the rows of `Unread`; the property says that there is no other way, and
`FailedSavesDoNothing` and `AnsweredIsStored` leave out the rows an add was
numbered over. `EveryPersistAnswered` fails: an error after an asynchronous
wait is thrown out of the pipeline (`TrampolinePipeline.ts:228`) instead of being
given to `done`, and the other waiters of that load are not called. With
`Readds = TRUE`, `FailedSavesDoNothing` fails: the undo of an add that replaced
a row deletes it (`EphemeralDataPlugin.ts:199`).

`PluginStack`: `OwnSavesSeen` fails: a miss asked before a save is answered after
the save's second invalidation and stored (`CacheDbPlugin.ts:152`, against the
promise at 16). `stack` shows that there is no other way. A save that is not
checked (after a conflict, or by a store that did not read the row) starts the
row's version at 1 again, so a checked update may find its number at another
row's version: `CheckedReplacesObserved` compares from there on only. With
`UpsertMissing`, an update of a row that another store removed adds it again,
which `EphemeralDataPlugin.ts:163` calls a no-op.

`OptimisticUpdatesDbPlugin`: with `Ids = {e1, e2}`, `ServedIsHydrated` fails: a write before the first
query makes a memory plugin that holds one row authoritative for its collection
(`OptimisticUpdatesDbPlugin.ts:98`, against
`docs/guides/local-first-apps.md:101`). `MirrorsAgree` fails without `crossed`: of two
saves of a row that are under way at once a mirror may apply the later one first
(`PluginSyncEngine.ts:191`). It and `OwnChangesShown` fail without `overtaken`: a
hydration adds what it read over what was changed since
(`OptimisticUpdatesDbPlugin.ts:141`).

`LiveQueries`: `LiveUnlessLost` fails: a message is compared with the ids of the
last answer, and when it finds itself of no concern while a later answer is out,
nothing asks again (`DataBridge.ts:54`, against `docs/guides/live-queries.md:7`).
The same happens when an older answer comes after a newer. Messages are lost when
another tab's clock, whose origin is its own, stamps them before the subscription
was made, when a save is answered PARTIAL (`DataStore.ts:251`), or when the last
subscriber leaves; a store that sends after its disposal makes a channel that
nobody retains. In `Views`, `StopsOnceDisposed` fails: a write handed to the
chain before `dispose` is carried out after it (`View.ts:73`).

`StoragePlugins`: `EveryCallAnswered` exempts three kinds of call, and fails
without each. PostgreSQL builds the statement of a query inside
`resolveVectorSupport().then` (`PostgresDbPlugin.ts:170`) and those of a save in
the callback of `pool.connect` (308, by way of 279), and catches neither, though
the join beside them does (207-260) and "an exception thrown past them becomes an
unhandled rejection" is said of these callers (96): when the builder throws,
`At(n, "thrown")`, `done` never runs. A save that throws keeps its connection too,
and when the pool has lost all of them every later call waits (`Leaked`); this is
what happens to a process that outlives the exception. And PouchDB's
`_validateSchemas` throws inside the queue's unit of work, which then never calls
back (`PouchDbPlugin.ts:779`): every later call of that plugin waits for ever
(`composite`).

`QueriesFailByFaultsOnly` fails too. A query that finds its table
missing creates it; in PostgreSQL it answers an error when another call is
creating it (`PostgresDbPlugin.ts:584`, where the write path retries, 493), and
in SQLite when a save holds the lock (`sqlite/src/plugin.ts:153`).
What holds may surprise too: an update of a row that is gone answers success
without a token; Dexie has no use for tokens, and puts such a row back
(`DexiePlugin.ts:206`); so does PouchDB when the entity carries no revision,
although `PouchDbPlugin.ts:190` says that it must fail.

`Queries`, by other constants or reading beside the model:

- `Kinds = {"inner"}`, `MaxCalls = 2`, invariant `ConditionsDecideThePairs`: a
  condition after a join is cut at every `&&` that no bracket encloses
  (`datastore/src/queryable/conjuncts.ts:86`). Of
  `m.id === 7 || m.id === 8 && p.v < 2` the second piece is then lifted into the
  outer read, and pairs that the first disjunct admits are lost, although "the
  whole condition still decides the pairs" (`docs/concepts/queries/joins.md:131`).
- `Kinds = {"left"}`: a conjunct on the inner side narrows the read of a left
  join, whose unmatched rows then appear (`QueryableExecutor.ts:134`); and a
  filter after a window after a join is applied before the window.
- A flag used as a condition on a property that is not a boolean,
  `Truthy("outer", "v", FALSE)`: `TreesMeanTheirClosures` fails, as the tree
  compares with `true` (`parser.ts:937`).
- `isRename` has its result inverted (`QueryBuilderBase.ts:52`): a shape that
  renames is taken for one that does not.
- In SQL (`sql-core`): filters and sorts are hoisted over `skip` and `take`, of
  several of which the last wins; two sorts make one invalid clause; a `?` to the
  left of a LIKE parameter shifts it (`sql.ts:524`); aggregates after `skip`
  count everything (`utils.ts:484`); and a row with NULL is excluded where a
  negated closure keeps it. `StatementsMeanTheOptions` states when none of these
  applies.

## 5. What is proved

TLC checks a small instance; the theorems hold for every value of the constants,
and use only the assumptions named in the modules.

Every invariant that is proved here was first checked by TLC, on the instance of
the component's run and, where modes differ, on others. What a theorem assumes beyond
the ASSUMEs of its module is in its statement, and said below.

| Component | Theorems (the property they state) |
|---|---|
| ChangeTracker, DataStore | if `Careful`: `SavesAsAsked` (`SavedAsAsked`), `CleanIsStored` (`CleanMeansStored`), `IndexDescribes` (`IndexDescribesDocuments`) |
| Batching | `TypeCorrect`, `LatchCorrect`, `HeldOrAnsweredOnce` (`EachWriteHeldOrAnsweredOnce`), `ToldWhatHappened` (`AnswersMatchEffects`), `ImplementsSerialWriter` |
| SWR write path | `TypeCorrect`; if `Calm`: `NewestIntentStays` (`NewestIntentKept`); if `PacedQueue`: `EditsStay` (`EditsKept`), `OpIdsDescribeBytes` (`OpIdDescribesBytes`), `SettledIsSame` (`SettledMeansEqual`), `ServerKeepsEdits` (`ServerNeverRegresses`) |
| SWR local store | `TypeCorrect`, `UnsyncedIsShielded` (`UnsyncedShielded`), `ConfirmedStays` (`ConfirmedStaysLocal`) |
| SWR flush scheduling | `SchedulerTypeCorrect`, `OverlapsOnlyByJumping` (`OverlapOnlyByJumping`), `AnsweredLater` (`AnsweredByALaterFlush`) |
| Cache, concurrency, retry | `TypeCorrect`, `ReadsAreChecked` (`ReadRowsAreChecked`), `OnlyLateAnswersAreStale` (`StaleOnlyByLateAnswer`), `UpdatesReplaceWhatWasObserved` (`CheckedReplacesObserved`) |
| Sync engine, optimistic updates | `TypeCorrect`, `TheSourceDecides` (`SourceDecides`), `MemoryShowsOwnChanges` (`OwnChangesShown`), `MirrorsEndUpAgreeing` (`MirrorsAgree`) |
| Live queries, views | `TypeCorrect`, `QuietMeansCurrent` (`StaleOnlyByRace`), `MirrorsFollow` (`MirrorFollowsSource`), `HistoriesKeepAll` (`HistoryKeepsEveryVersion`) |
| Files | `TypeCorrect`, `StoredRowsStay` (`StoredRowsKept`); if `~Readds`: `FailuresLeaveNoTrace` (`FailedSavesDoNothing`), `AnswersAreStored` (`AnsweredIsStored`) |
| Storage plugins | `TypeCorrect`, `FailuresCaused` (`FailuresHaveACause`), `PromiseRefined` (`PromiseKept`: the refinement of `StoragePromise`) |

**`DataStoreProofs`** — any rows, kinds of collection, bounds and calls made while
a save is out. `Careful` says that callers do none of `editRemoved`,
`removeUnsaved` and `removeEdited`, each of which breaks a property (section 4);
the run `tracker` satisfies it, and `reread` is admitted. The properties speak of
quiet collections: what has to be carried through a save is `Tracked`, which holds
while no call was made with a save out. Before the save has landed, the database
holds of each row what the collection recorded of it, so that what is tracked is
exactly what the caller changed (`Before`); the save was prepared from the rows as
they are (`Underway`), though a query's answer may have been merged since; once
landed, the database holds what was asked (`AfterLanding`), and the merge finds for
the n-th addition the n-th row of its key and leads back to `Before`. Rows a
query or an edit before the first save has excused are left out throughout
(`Exempt`), but keep their shape. For the index no quiet is assumed: `IndexKept`
says that it has no row of a document that is not stored and lacks only rows
still to be written (`Awaited`), unless it may have drifted. That a save keeps this
is shown id by id (`WrittenIs`): what a removal, an update and an addition of one id
say of each other (`Agrees`) is what makes SQL's order (remove, update, insert) and memory's
(insert, update, remove) come to the same, and index and documents with them.

**The write queue, last part of `DataStoreProofs`** — any sets of writes, schemas and destroys, any
batch size, atomic inner plugin or not. `ImplementsSerialWriter`: every step of
the plugin is a step of `SerialWriter` or leaves its variables alone.

Argument: let `Unanswered == inFlight \o retry \o batch \o queue`. Whatever an
action does with groups and retries, it appends one write to `Unanswered`, cuts a
prefix or a suffix off it and answers exactly that, or leaves it alone. The
property that each write is held or answered once says nothing of which of the
four sequences may be empty, and is not inductive: a group answered while another
is re-run would put the items in another order, and a latch that is down with
items left would start a second drain. `IInv == Shape /\ Ledger` adds `TypeOK`,
the latch, and `GroupsOnlyBetweenRetries` (an event of several items is out only
when none is being re-run); `Ledger` adds that what is unanswered has arrived.
What callers are told needs `Effects`: no two items of an event claim one schema,
so that its success is the success of each; what an atomic plugin applied is
acknowledged; and the inner plugin is destroyed at rest.

**`HttpSwrWritesProofs`** — any entities, any number of changes and faults,
whatever the server refuses, merged bodies or not. Three invariants, each under
what it needs:

- `Typed`, always: rows, units and items keep the change they were made of, and no
  two rows share a key.
- `Keeps`, under `Calm` (queue operations take turns, and no snapshot of a row is
  written back after an edit of it): direct POSTs, late answers, re-added entities,
  failed reads of the queue and revived rows are all admitted. Changes are stamped
  in the order they were made (`Ordered`); the mutex holds one write, which knows
  the rows as they are; a unit's opId is that of its newest row, and after its
  answer the server has it. So what is dropped is superseded, or seen by the
  server.
- `Paced`, under `PacedQueue` (also: no direct POST, no failed read taken for an
  empty queue, no revived row, no entity added again, and trimmed updates only for
  a server that patches). `Past` is the history of an entity: its add first, its
  removal last, each change knowing what came before. No pending row lies behind
  what the server has seen (`NeverBehind`, `UnitPaced`), one unit stands for an
  entity, a row leaves when what it carries has arrived (`Clears`, `Arrived`), the
  row that replaces another carries all the other did (`PutPaced`), and what will
  go out under an applied opId is what the server applied under it (`Recalled`).
  `EditsKept` and `OpIdDescribesBytes` are conjuncts; `SettledMeansEqual` and the
  action property follow.

Each clause of the two hypotheses is needed: section 4 has, for each order or mode it
excludes, constants with which TLC violates one of the properties. `swr_paced`
satisfies `PacedQueue`, `swr_live` is outside `Calm`. `Paced` was checked with TLC
for a server that patches, one that upserts and one that replaces, with 3 faults
and 3 changes, and with two poison changes and 4 (1.6M states).

**`HttpSwrStoreProofs`** — any entities, queries, filters and bounds, echoes or
none, POSTs of saves or none, every race of the module. Whoever holds the lock knows the unsynced changes
it could see in the queue (`Held`), and an entity's newest change is unsynced as
long as any of its changes is (`Ours`): so a merge leaves it alone, or the change
is one it could not see. For confirmed changes, `Showing`, `Posted`, `Delivered`
and `Echoed` follow the rows on their way to the store: those of GETs, at the lock,
and to be echoed by the flush and by any number of POSTs, in any order.

**The scheduler, last part of `HttpSwrStoreProofs`** — any callers, any number of
flushes. There is one of each. What a job awaits (a caller) or starts (the follow-up) is a token, and
`Exclusion` says that no token is held twice, in the microtasks queued, the
reactions that wait or the follow-up. So when a caller goes on, no job is left
that awaits it, and the history of the flushes begun when it asks again is that of
one place only; and when the job of the follow-up runs, no second one is under
way. `OneUnsettled` (unless a caller jumped, only the flush in flight is
unsettled) is then kept, because that job is of the flush in flight, or of one
that was cleared, and runs when it has settled.

**`PluginStackProofs`** — any finite set of stores, any rows, queries, cache size
and attempts, either order of the wrappers, an inner database that upserts or not,
is atomic or not. Every copy of a row, observed, cached, read or expected, was the
stored row once (`Dated`). A stored row gets a higher version or a new birth, so a
copy with its birth has no higher version and, with the same version, is the row:
this is what a checked update relies on. A cached row was observed when it was
cached, what forgets an observation empties the cache, and the answer to a save
marks the reads under way.

**`OptimisticUpdatesProofs`** — any plugins, rows, options and number of saves;
`WrappedAssumption`: the optimistic plugin has one mirror, the wrapped plugin.
`SourceDecides` follows from the order of the calls of one save (`Orderly`). The
others rest on the latest save of a row: of two that did not cross, the earlier is
over (`OneAtATime`), so whoever carries out a save of the row carries out the
latest, and holds it after (`LatestStored`). Memory answers within the save, and no
hydration is under way that did not begin before the first (`OnlyInMemory`).

**`ViewsProofs`** — any rows, filters, finite sets of stores and subscriptions, any
number of changes. That a quiet subscriber shows what matches now says nothing
while changes, messages and answers are under way. `Tracked` does: as long as
nothing made it stale, a subscriber has a query still to be read; or the newest
answer it was or will be shown says of every row what the collection says, or a
change of that row that concerns it is still to be heard. A message is not lost
because the channel counts who retains it (`Retained`). A view carries that to its
table: `Mirrored` says where the last answer of a mirror is, `Kept` where what a
history was handed is, and `ChainOK` that a write in the chain is what its waiting
view made of its table.

**`FileSystemPluginProofs`** — any files and rows, any number of persists and
faults. That a file keeps a row nobody names is not inductive, as a rename replaces
the file by a snapshot taken earlier. `IInv` adds that snapshots under way have it
(`RecordsOK`), that the memory of a loaded file has it and that of a file not
loaded has it or nothing (`MemoryKept`): this is why a save after a load that
failed would be fatal, and why the code must not reach one. The numbers a loaded
collection gives are above those of such rows (`NumbersMet`), so none is numbered
over; one numbered over before is among those the property excepts, and stays so
(`SafeShrinks`). The rest types what
steps read from a running persist, and says that a file is awaited exactly while
it is read. What a persist is told is what it did as long as none overlapped:
`Quiet` says for each phase of the one that runs which of its rows memory and files
hold already, and that all others are what the history says. `~Readds` is needed:
the undo of an add removes whatever row has the key, and TLC violates both
properties otherwise (section 4). Overlap is in the properties themselves.

**`StorageProofs`** — any backend, composite and malformed calls, tables, saves and
faults. `PromiseRefined` is the refinement of `StoragePromise`, every step of
every plugin being a step of the promise or none; `FailuresCaused` says why a save
may fail. A save is promised to have landed when its call answers, but the rows
it lands on were found earlier, by statements that came one after the other. So `IInv`
says for each call under way what is left of its work and which step it may be at
(`EachFits`), what has landed (`EachLands`), and what its transaction holds of each
row, by what its statements found (`EachWorks`). That what they found is still
there needs the locks (`Ownership`), for MongoDB that a row changed under a
snapshot aborts the call that writes it, and for SQLite that no other call of the
same plugin is under way (`EachTurn`: the chain). That a failure has a cause needs
who changed the rows a call has not seen (`EachBlamed`). The two dozen actions are
reduced to fourteen kinds of step, of which each part of `IInv` survives each; the
last section maps the kinds to `Ask`, `Miss`, `Land`, `Vacate`, `Answer` or a
stutter.

Two errors of the model came out of it. PouchDB writes an update and a replaced
row's removal in one batch, so the row is vacated in the step in which another
lands: the promise did not admit that, TLC showed it for a store of single-key
schemas and a save that updates one table and replaces in the other, and
`KeptOrVacated` is the correction. And `SUBSET S \ {{}}` reads as
`SUBSET (S \ {{}})`, so `Land` admitted a landing of nothing, which no proof of
its steps could exclude.

**Only model-checked**: liveness and everything with fairness (the prover does not
do ENABLED), refinement as a temporal property (`SerialSpec` with its
fairness); the three properties of `Queries`, whose modules have
RECURSIVE operators that the prover does not read (conditions are trees); and the
modes of `HttpSwrWrites` outside `Calm` and `PacedQueue`. The types of
`ChangeTracker` and `DataStore` are proved as far as a collection is not disturbed
(`Typed`, in `Tracked`).

## 6. What comes next

In this order, as each rests on the ones before.

1. *Proofs*: `EditsKept` with direct POSTs of whole
   entities, for which `Past` and `Recalled` have to say what a POST under way
   carries.
2. *WorkPipeline and TrampolinePipeline*: done called once or the error thrown.
3. *DataStore*: partial answers, audit rows and soft delete, several collections.

The runs are kept few: a new module takes the place of a configuration whose
question a theorem has come to answer, or of one that section 4 can describe.
