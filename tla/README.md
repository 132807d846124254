# Tellurion: a TLA+ verification project

Tellurion is a multi-tenant geospatial server: OGC API Features, Tiles, Records,
STAC, Styles and Processes over PostGIS, GeoPackage and read-only formats. Most
of its 27 crates parse requests, encode answers or read files. The code that is
hard to get right moves *state between actors*: a write and the obligation it
leaves in an outbox, the consumers that drain the outbox in several processes,
the caches keyed by what was drained, the leases and ledgers that let several
replicas share work, and the gate that lets requests in. This project models
that code.

Paths below are relative to `src/crates/`; `PROJECT.json` maps every definition
to the lines it translates.

## 1. The system and its parts

### How the parts interact

```
 HTTP handlers ── AdmissionGate ──> write lane (GeoPackage | PostGIS)
                                        │ one transaction: rows + obligations
                                        v
                                     outbox  <── retention prunes ──┐
                 read_after(cursor)  │   │   │                      │ cursors
          ┌───────────────┬──────────┘   │   └────────┐             │
   index applier     generation store    │      webhook delivery ───┤
   (one leader)      (every process) ────┼──────────────────────────┤
          │               │              │            │
   search index      tile cache key ── L1 / shared L2 └─> dead letters
          │
   freshness gate of a routed search

 HTTP handlers ──> job ledger <── runner loop of every replica
 HTTP handlers ──> asset records (database) + objects (fs | S3)

 control API ──> control store (revisions, versions, audit, keys)
                       │ poll
                       v
 configuration file ──> activation of a configuration in each process
        ^  reload loop          │ ContextState: readers, router, authorizer
        └── PUT /config, hand   v
                        readiness probe, drain, shutdown
```

Shared state is of four kinds: database tables (rows, outbox, index, jobs, asset
records, the control store, advisory locks), each accessed by statements of
concurrent transactions; in-memory state of one process behind atomics or a mutex
(admission gate, generation store, L1, the GeoPackage writer connection, webhook
cursors and dead letters, S3 uploads in progress, readiness); files and objects
(configuration, staging files, the object store); and L2 (Valkey), shared without
coordination.

### Inventory

| Component (source) | State | Operations | What is hard | What makes it correct |
|---|---|---|---|---|
| Outbox contract (`tellurion-core/src/outbox.rs`) | rows, obligations, sequence | apply, create, apply_batch, read_after, primary_high_water, prune_before | resuming from a cursor while writers commit and retention prunes | data and obligation commit together; sequences only grow; newest obligation = stored row; prior/current chain unbroken |
| GeoPackage lane (`tellurion-geopackage`) | SQLite file, one writer connection | single write, batch with savepoints, prune | refused items, panics with a transaction open, AUTOINCREMENT after a prune | implements the contract |
| PostGIS lane and optimistic locking (`tellurion-postgis/src/driver.rs`, `tellurion-features/src/write_handlers.rs`) | rows with xmin, outbox with bigserial, one transaction per request | PUT, PATCH, DELETE, POST, batch, with If-Match / If-Unmodified-Since | READ COMMITTED statement interleavings, row locks, deadlocks, savepoints | a guarded write replaces what it was compared with; nothing changes without an obligation; every request ends |
| Index applier (`tellurion-core/src/applier.rs`, `lease.rs`; `tellurion-postgis/src/index_sql.rs`, `lease_sql.rs`) | index table, advisory lock, each replica's pass | acquire, drain pass, apply, crash, lost session | two leaders at once, redelivery, dying in the middle of a batch | MAX(version) is a safe cursor; never backwards; converges |
| Freshness gate (`tellurion-core/src/router.rs`) | none of its own | resolve_search | three reads at three times | a served search is within its bound |
| Tile invalidation and caches (`invalidation.rs`, `cache.rs`, `context.rs`) | generation store, L1, L2 | drain, build key, look up, render, fill | a write during a render, late L2 puts, restarts, replicas draining differently | no answer older than what was drained |
| Outbox retention (`retention.rs`, `retention_consumer.rs`) | the consumers' cursors of one process | compute floor, prune | pruning what somebody has not drained | orphans no running consumer |
| Webhook delivery (`webhooks.rs`, `webhook_consumer.rs`, `webhook_admin.rs`) | a cursor, an attempt budget and a ring of dead letters per subscription, all in memory; the manager's binding | drain a batch, attempt, dead-letter, advance, rebind, restart; page through dead letters | retention reads cursors while a rebind replaces them; aborted batches; a ring that drops letters between two pages | nothing owed is pruned or skipped, all of it is delivered or dead-lettered; a page misses nothing that stayed |
| Admission gate (`tellurion-core/src/admission.rs`) | atomics `active`, `queue_depth`; a tokio Notify | admit, release, expire, disconnect, reconfigure | lost wakeups, counters on every path | slots counted, queue bounded, never stalls |
| Job ledger and process lane (`job.rs`, `job_sql.rs`, `process_lane.rs`) | jobs table, runner loops | enqueue, claim, finish, dismiss | windows that lapse under a live runner, key conflicts | one job per key, verdicts final, every job ends |
| Control store (`control_model.rs`, `control_admin_policy.rs`, `tellurion-control-postgres/src/store.rs`, `control_api.rs`) | revisions, entity versions, audit, idempotency keys, one locked row | bootstrap, GET, guarded edits, create, delete, grants, replay | a GET in three statements, authorization before the lock, lost answers and retries, versions over delete and create | every commit is authorized, legal and expected where it is applied; a key commits once; an edit replaces what was seen |
| Control consumer (`control_consumer.rs`, `runtime_activation.rs`, `control_runtime.rs`) | per replica: revision served, settings wired at boot, reported status | boot, poll, read events, load, activate, refuse, report | revision, events and snapshot read at three times; activations that fail | only forward, never to other boot-lifetime settings; reported = served; arrives |
| Configuration file (`config_store.rs`, `config_mutation.rs`, `reload.rs`, `main.rs`) | the file, its backup, write_lock, the document in force with its version | GET and PUT with a version, hand edits, trigger, reload, boot | every read is a step; an edit in the middle of a write or a reload | a PUT never overwrites another client's; an edit becomes visible |
| Readiness, drain, shutdown (`readiness.rs`, `shutdown.rs`, `main.rs`) | status, generation, the context in force, probe, supervised tasks | activate, probe, record, signal, drain, abort, exit | a probe overtaken by an activation or the drain; tasks and requests that hang | the verdict is of the context in force; a signal ends the process, unless a call keeps its thread for ever |
| Managed assets and uploads (`asset.rs`, `objectstore.rs`, `asset_sql.rs`) | a record and an object per id, uploads with their offset and hold | register, PUT, create / append / complete / abandon, presign, finalize, delete | two stores without a transaction, dropped handlers, a staging area that restarts lose | bytes are those declared; broken only by half a delete; holds are released |
| Rate limiting (`rate_limit.rs`) | one counter per key under a mutex | check | a window boundary | well covered by its tests |
| Routing, resolution, hints; authorization and policy; protocol crates; read-only drivers; rendering; bulk ingestion client | immutable snapshots or none | pure functions, file reads | data, not interleaving | not modelled: there is no state change for a model checker to order |

Every hazard we know of, with its source line and the properties that watch it,
is in `PROJECT.json` under `hazards`.

## 2. Modules

| Module | Models | Extends / uses |
|---|---|---|
| `OutboxLog` | the abstract contract of WriteSink / OutboxSource | |
| `GeopackageWrites` | the SQLite write lane; implements `LogSpec` | `OutboxLog` |
| `ConcurrentOutbox` | the abstract contract of an outbox with concurrent writers | |
| `PostgisWrites` | the HTTP item handlers down to each SQL statement; implements `ConcurrentOutbox` | |
| `IndexApplier` | applier, lease, index, freshness gate | `OutboxLog` |
| `TileGenerations` | generation store, tile cache key, L1/L2, retention | `OutboxLog` |
| `WebhookDelivery` | delivery tasks, the rebinding manager, the cursors' part in retention | `OutboxLog` |
| `DeadLetterRing` | the dead letters of a subscription and a paging operator | |
| `AdmissionGate` | one tenant's gate | |
| `AssetUploads` | one asset key over both kinds of object store | |
| `JobLedger` | ledger, submissions, runners | |
| `ControlModel` | the data of the control plane: snapshots, operations, what applying one does | |
| `ControlLedger` | the abstract contract of the control store: one ledger of commits | `ControlModel` |
| `ControlStore` | control API handlers over the store's tables; implements `ControlLedger` | `ControlModel` |
| `ServedRevisions` | the abstract contract of the replicas that follow a control store | |
| `ControlConsumer` | polling replicas; implements `ServedRevisions` | |
| `ConfigFile` | the configuration file, its API, hand edits, the reload loop, boots | |
| `Readiness` | probes, activations, the drain and the exit of one process | |
| `OutboxLogProofs`, `GeopackageProofs`, `PostgisProofs`, `IndexApplierProofs`, `TileProofs` | theorems and proofs about the module of that name | that module; all but `PostgisProofs` also `OutboxLogProofs` |
| `ServingProofs` | theorems and proofs: jobs, admission, webhooks, dead letters | `JobLedger`, `AdmissionGate`, `WebhookDelivery`, `DeadLetterRing`, `OutboxLogProofs` |
| `ControlPlaneProofs` | theorems and proofs: control store and consumer | `ControlStore`, `ControlConsumer` |
| `ProcessProofs` | theorems and proofs: configuration file, readiness, assets | `ConfigFile`, `Readiness`, `AssetUploads` |
| `MC*` | instances for TLC | the modules in section 3 |

Four modules are abstract specifications. `OutboxLog` is the hinge of the data
plane: a driver is shown to implement it, and a consumer is modelled on top of it,
so a consumer's properties hold for any driver that keeps the contract. GeoPackage
keeps it (`geopackage`, property `LogSpec`, and the theorem
`GeopackageImplementsOutbox`). PostGIS does not keep the order in which sequences become
visible, see `postgis_sequence_order` in section 5, nor the recorded prior extent of an
unguarded write; what it does keep is `ConcurrentOutbox`: data and obligations in one
step, every change announced by an obligation that describes it, no sequence used
twice, and one feature's obligations in the order of its changes (`postgis`, property
`ContractSpec`, and the theorem `ImplementsConcurrentOutbox`). `ControlLedger`
and `ServedRevisions` are the two halves of the control plane, what the store and
what its replicas promise: `ControlStore` and `ControlConsumer` implement them under
the refinement mappings `Ledger` and `Served`, in run `control` and by proof.

Operators under a comment "Faulty variant" are deliberately wrong alternatives of
the operator that follows them: a dropped guard, an off-by-one, a swapped order.
No specification uses them. Putting one in place of the real operator breaks the
property listed with it under `mutants`, which shows that the property depends on
that piece of code.

### State and actions against the code

**OutboxLog.** `rows` is what any reader sees, `outbox` the obligations table,
`lastSeq` the highest sequence committed. `Commit(ms, rec, gap)` is one
transaction: the chunk `ms` in order, each obligation with its prior and current
state and whether its extent was recorded; `gap` are sequences burnt by
transactions that rolled back. `Prune` is `prune_before(floor, batch_size)`, which
deletes the lowest sequences first. Payload and extent are one value `current`
(and `prior`): a feature in another place is another content.

**GeopackageWrites.** `tx` is the writer connection. `BeginTx` opens the
transaction under the mutex, `ApplyItem` is one mutation (read the stored feature,
data statement, outbox INSERT), `RefuseItem` a savepoint rolled back, `CommitTx`
and `RollbackTx` its ends; a panic in the closure poisons the mutex, the next
closure recovers it and the dropped transaction rolls back, so it is a
`RollbackTx`. The file takes the transaction in one step, which is what SQLite's
journal gives and what the refinement `LogSpec` checks. Items of a batch take
AUTOINCREMENT values that a rollback gives back (the counter is a table of the same
file): unlike a bigserial it never leaves a gap.

**PostgisWrites.** `req[w].pc` is where a handler is: `witness` (read xmin), `check`
(compare the validator), `rebase` (PATCH reads its target again), then inside the
transaction `prior` (SELECT of the extent), `stmt`, `outbox`, `commit`. A statement
sees committed rows plus its own writes; `writes[f]` other than `Untouched` is
also the row lock. A statement that has to wait for a lock is not enabled until
the lock is free, and then looks at the row as committed by then, which is what
READ COMMITTED re-evaluates. `xmin` is the number of the commit that wrote the row,
unique per commit like a transaction id. `nextSeq` moves at the INSERT and is never
given back. `RefuseItem` is the savepoint of the batch lane, `BreakDeadlock`
PostgreSQL's detector. The transaction runs in a spawned task, so a client that
goes away does not stop it.

**IndexApplier.** One `pass` per replica: `cursor` (applied_high_water), `read`
(read_after), `apply` (one obligation per step, in order). `guard` is what the
replica believes of its lease, `holder` what PostgreSQL knows; `LoseSession`
separates them until `NoticeClosed`. `ApplyToIndex` is the version-guarded upsert;
a delete stores a tombstone. `gate` is one search going through the freshness gate:
the primary's mark, the index's mark, the answer, at three times. `latest` is a
history variable. Writers commit one mutation at a time: a chunk only hides states
in between.

**TileGenerations.** `store[r]` is a CollectionGen (cursor, floor, buckets),
`Advance` is `apply_batch` (one step: the cursor is stored last and a reader that
sees the buckets without the cursor only sees newer generations than `drained`
says). A tile is `asOf`, the highest sequence committed when its source was read.
Requests: `BuildKey`, `LookupL1`, `LookupL2`, `Render`, `FillL1`, `PutL2`.
`GatherCursors` and `PruneBefore` are the two halves of a retention pass.

**WebhookDelivery.** A subscription has a `runtime` (what it is declared as, the
place its collection is delivered under, its cursor), a place in the `registry` that
retention reads, and a delivery `task`. `StopTasks`, `TakeConfig`, `TakeRuntime`,
`RegisterCursor` and `FinishRebind` are the awaits and lock sections of `rebind`, with
retention's `GatherCursors` and `PruneBefore` free to fall between any two of them.
`ReadBatch` to `AdvanceCursor` are one `drain_once`; `FailAttempt` and `DeadLetter` are
the bounded retry. `owed` is history: what a registered subscription was there for
and has yet to handle. `Restart` boots on any configuration with everything in memory
gone; `Reload` only to what `reject_restart_required_changes` admits.

**DeadLetterRing.** `entries` are the ordinals the ring holds. `ReadPage` answers a
page and a token of generation and last ordinal; `Push` may drop letters between two
pages and `Replace` the whole ring. The reader's `seen` and `stayed` are history.

**AdmissionGate.** Every access to an atomic or to the Notify is a step. tokio's
Notify is modelled as the code uses it: `notify_one` hands its permit to the first
registered waiter or stores at most one; a future is registered when first polled;
`notify_waiters` reaches every future that exists (`epoch`); dropping a future that
was handed a permit passes it on. One tenant: gates share nothing but the
configuration.

**JobLedger.** One action per SQL statement. SKIP LOCKED is a claim ordered after
the statement it skipped. `Lapse` lets `locked_until` pass at any time, also under a
claimant that is still at work, up to `MaxOverruns`. `overruns` is history.

**AssetUploads.** A `slot` is one request and its fields the locals the handler holds
over its awaits: read the record, call the object store, write the record, release
the hold. An id has at most one object and one upload; `upload[i]` with `hold` is the
S3 store's Verifying entry, which a second completion's `Take` removes like any other.
`Fault` is a failed call, done or not done; `Cancel` drops a handler where it waits, with
its call left undone or landing later (`Lands`, at any time and without a lock).
An append to a filesystem is three steps: `AppendChunk` compares the length under
the store's lock (`FilesFree`) and hands its write to a blocking thread (`writing`),
`WriteLands` is that thread, whether or not the handler is still there, and `Flush` the
handler's return, which frees the lock; so does a `Cancel` in between. A write is one
chunk, whole. `Reboot` forgets what S3 kept in memory and the writes under way. `HeadObject` may or may not report a digest.
`setting` never changes: the kind of store, the operations clients send, whether they
wait for one another (`alone`) and whether they go away (`cancels`), the chunks of a
content and the bounds. Conditions of the properties are named by it: `OneAtATime`;
`ComparedFirst`, where all bytes are compared before they are stored (a filesystem, or
an S3 store without resumable completion and presigned URLs); `ThroughTheServer`;
`WritesAreAwaited`, S3 or clients that stay.

**ControlModel, ControlLedger, ControlStore.** A snapshot is one value per resource,
the tombstones and the administrators; `Applied`, `IntentHolds` and `ValidSnapshot`
are shared by the contract and the store, so that the refinement is about order and
not about data. `ReadState` and `ReadVersions` are an editor's GET, whose statements
have database snapshots of their own (`torn` remembers that a commit fell between);
`LoadState` and `LoadVersions` are the same reads by the handler of a change, on which
it authorizes. `LockState` is SELECT ... FOR UPDATE on `control_state`; the statements
that follow hold that row, so the whole transaction is one step, `CommitChange`, which
may lose its answer (`answered`), or `AnswerRecorded`, `Refuse`, `RollBack`. A retry is
the same change set, with the entity version its first attempt named.

**ServedRevisions, ControlConsumer.** The store is a `ledger` that grows. A replica
boots (`OpenStore`, `Serve`), and its loop is `Poll`, `ReadEvents` page by page,
`LoadSnapshot` (newest revision by then), `Activate` or `RefuseCandidate`, `Report`.
`Missing` are revisions whose events are gone, `RefreshFails` any call that fails. `wired`
is what the boot resolved.

**ConfigFile.** A version is a digest of a document, so here the document. `GetVersion`
and `GetDocument` are the two reads of `load_versioned`, `LockFile` to `RenameFile` one
compare-and-swap under write_lock with its second comparison, `StageFile` the backup
and the temporary file, which trigger the watcher. `StartBurst` takes the first trigger
and opens a debounce window, `ExtendBurst` one that comes within it and begins the
window again, and `StartReload` a window that was quiet; `LoadDocument` reads again, and
the document is declined, refused or activated. `Crash` to `StartWatching` is a restart.

**Readiness.** `SwapContext` and `Invalidate` are the two halves of an activation under
the readiness mutex, which the probe's reads of the context do not take; `StartProbe` to
`RecordVerdict` are the probe's reads in order. `BeginDraining`, `NotifyServer`,
`ServingCompletes`, `DrainDeadline`, `TasksCompleted`, `TaskDeadline`, `TaskAborts`,
`TasksAborted`, `BodyEnds` and `Exit` are the way out of `main`: the supervisor awaits each
task it aborts, and behind main's body its runtime is dropped, which starts nothing any
more. `call` is what occupies a thread: the poll of a request or task, which an abort waits
for, or a blocking call, which outlives its owner; the drop waits for both. `succeeded` and `failed` are history.

## 3. Runs

Run with `tlc -config X.cfg M`. Every run but the violations passes.

| Run | Question | Bounds |
|---|---|---|
| `geopackage` | does the SQLite lane implement the contract | 2 features, 2 contents, batches of 2, 3 sequences |
| `postgis` | optimistic locking, the outbox with concurrent writers, deadlocks | 2 writers, 2 features, 3 requests of 14 kinds |
| `index` | is the high-water mark a safe cursor, is search fresh enough, does the index converge | 2 replicas, 2 features, 2 sequences, batches of 2, 2 faults |
| `tiles_caches` | is an answer ever older than what its replica had drained, with L2 and restarts | 2 replicas, 1 request at a time, 2 sequences, 1 restart |
| `tiles_retention` | the same with concurrent requests on L1, unrecorded extents, retention and a restart; do stores catch up | 1 replica, 2 requests, 2 sequences, drained one by one |
| `jobs` | keys, verdicts, overlaps, termination | 3 submissions (2 share a key), 2 runners, 1 overrun per job, 1 fault |
| `serving` | does the gate stall; are an asset's bytes, chunks, holds and records consistent | gate: 4 requests, shares 1-2, queue 1-2, 1 reload, 1 disconnect. Assets: 2 contents; one request at a time with every operation of either store, 2 faults; two at a time with clients that go away, 1 fault; two at a time on a filesystem with clients that stay |
| `webhooks` | is anything owed pruned, skipped or left; does a page of dead letters miss any | 2 subscriptions, 2 sequences, 2 attempts, 1 reload among 5 configurations, 1 restart. Ring of 3, pages of 1, 5 letters, 1 replacement |
| `control` | does the store implement its ledger, do edits replace what was seen, is everything answered; do the replicas implement theirs, does the newest revision arrive | store: two plans of 3 requests, one of them with a retry, 1 lost connection, 2 replicas. Consumers: 2 replicas, 4 revisions (one without events), 3 settings, 2 boots, 1 fault |
| `process` | do PUTs overwrite each other, do edits arrive; is the verdict that of the context, does a signal end the process | file: 4 documents, 2 clients, 2 changes, 1 restart, 1 fault. Readiness: 3 contexts, 1 outage, 1 request, 1 task. The way out: a call of each of the two, 2 contexts |
| `postgis_sequence_order`, `admission_disconnect` | statements of the documentation that the code does not keep, section 5 | smallest that shows it |

`MCServing`, `MCWebhooks`, `MCControlPlane` and `MCProcess` check two modules beside each
other in one run. The two share no state (in the code, either: the gate does not look
at assets, nor the reload loop at the probe; what the control consumer sees of the
store is that revisions are appended). The variable `part` names the one that moves,
the other stays as it began, so each property is checked in all the behaviours of its
own module and the run costs the sum of the two, not the product. `MCProcess` splits
readiness once more, into activations and outages ("probing") and calls that occupy threads
("leaving", with one activation). An asset key has
six settings (`AssetSettings`), of which a behaviour has one: one request at a time on a
filesystem, on S3, and on S3 with presigned URLs; two at a time with clients that go
away on either store; and two on a filesystem whose clients stay, where the places of
chunks are a promise. A property is stated of the settings where the code keeps it, and
section 5 says what it does in the others. Fairness of a part is conditioned on its moving.

Every module has a type invariant, and the proofs establish it.

Why the bounds are enough to be interesting. An outbox hazard needs two
obligations in the wrong order, or one obligation with another pruned or crashed
in between: two sequences and two features give both, three sequences add a commit
after a prune. A locking hazard needs a writer, an interferer and a row to meet on:
two writers, three requests (one creates the row). A lease hazard needs a leader that
does not know and one that took over: two replicas, two faults. A lost wakeup needs
two waiters and two slots; four requests give two of each. A key conflict needs two
submissions, an overlap two runners; a third job gives the claim something else to
pick. A webhook hazard needs an obligation below and one above the cursor that a
rebind moves, and one more subscription that holds or frees the floor. An entity
version comes back only over a delete and a create between a GET and its edit: the plan
`Lifecycle` has exactly these with a retry; `Edits` has two rivals and a revoked grant.
A replica is overtaken by one revision between its poll and its load and by one more
before it reports; a refused revision in the middle makes four. A probe is overtaken
by two activations. An upload hazard needs two requests on one key, a second
registration of it (two `records`) and one fault.

`CHECK_DEADLOCK FALSE` is set because every model stops once its bounded inputs
(`MaxSeq`, `MaxRequests`, submissions, requests) are used up. Real deadlocks are
progress properties here: `EveryRequestEnds`, `GateNeverStalls`, `EveryJobEnds`,
`EveryRequestIsAnswered`, `SignalEndsTheProcess`.

Bounds, all named: `MaxSeq`, `MaxBatch`, `MaxGap` (OutboxLog), `MaxRequests`
(PostGIS), `MaxFaults` (index, jobs, consumer, file), `MaxLost` (control store),
`MaxRestarts` (tiles, webhooks), `MaxReloads`, `MaxDisconnects` (admission), `MaxRebinds` (webhooks),
`MaxOverruns` (jobs), a setting's `records`, `failures` and `size` (assets), `MaxOrdinal`, `MaxReplaced` (dead letters),
`MaxRevision`, `MaxBoots` (consumer), `MaxEdits`, `MaxBoots` (file), `MaxContexts`,
`MaxFlips` (readiness). `SYMMETRY` is used in runs that check invariants only.

### Fairness

Weak fairness on steps that the code's own scheduling takes: a PostGIS transaction is
a spawned task and PostgreSQL grants free locks and breaks deadlocks; the applier and
the generation consumer tick every poll interval and survive failed passes; a runner
loop ends only with its process, an execution ends and a visibility window lapses; the
webhook manager looks at the configuration every 100 ms, a delivery task polls and each
attempt has a timeout; a control handler that was started goes on, and a row lock that
stays free is given to it; the refresh loop sleeps, polls and comes back; the reload
loop is a task, whose window may be begun again for ever, and a boot goes through; the
readiness mutex is released, the probe has a deadline, the deadlines of the drain and of
the task supervisor pass, and an aborted task yields unless its poll goes on.
`EditsArrive` and `SignalEndsTheProcess` say of the two cases that this leaves open
what they are: triggers that never pause (`Starved`), a call that never returns
(`NeverReturns`); without these disjuncts TLC finds them violated. Nothing is
assumed of clients, editors, writers, retention, dismissals, receivers, tasks that are
asked to stop, of a pause between triggers of the reload, of the return of a call that
occupies a thread, or of faults; faults, restarts and overruns are finite by their bounds,
which is what "once faults stop" means in the liveness properties. The admission gate
needs none: its progress is stated as an invariant, because a deadline ends every wait
anyway. The assets have no liveness property: nothing retries for a client.

## 4. What is proved

`tlapm X.tla` for each of the eight `*Proofs` modules checks the proofs, for every
value of the constants: any number of features, replicas, clients, faults, any batch
size and bound. They use the named assumptions of the modules: `Absent` (and the lock
marker `Untouched`) is no content, `Recordings` are Booleans, the bounds are numbers
(`MaxBatch`, `BatchSize`, `PruneBatch`, `MaxAttempts`, the ring's `Capacity` and the
page's `Limit` positive, a concurrency limit at least 1), `Nobody` is no replica,
`Nothing` is no job, jobs and runners are finitely many, a PostGIS request is one item
or a batch of upserts and deletes without a precondition, no content is in no bucket,
a setting of an asset key has at least one chunk to a content.
Two theorems are about the deployments in which the code keeps what they state:
`SafeDeployment` of the tile theorems and `CollectionStays` of the webhook theorems,
both explained below. The assumptions of the control store, the file and readiness are
definitions (`LedgerAssumption`, `RequestsAssumption`, `FileAssumption`,
`ReadinessAssumption`) which the theorems assume and the MC module asserts of its
constants, so that TLC evaluates them. `FoldsAreRecordings`, assumed of the
GeoPackage lane, says that the contract's `Recordings` cover what the lane folds.

**The outbox contract** (`OutboxLogProofs`). `LogInvariance` proves the inductive
invariant of `LogSpec`: types, distinct sequences, `LatestAgreesWithRows` and
`ExtentsChain`. None of the last two is inductive alone. A commit appends several
obligations of the same feature at once; that the first of them chains to the
newest old one needs `LatestAgreesWithRows`; that there is one newest needs
distinct sequences; that the new ones are above all the old ones needs
`o.seq <= lastSeq` from the types. A prune only helps: it removes a lower set, so a newest obligation
stays newest and two neighbours that are left were neighbours. The lemmas about
`After` (what a chunk leaves of a feature) carry the induction-free part: the last
mutation that touches a feature is the maximum of a finite set of positions.
`LogTypeCorrect`, `NewestObligationDescribesRow`, `ExtentsChainUnbroken` follow;
`CommitsAppend` is an action property from the same invariant.

**The index applier** (`IndexApplierProofs`). `HighWaterIsSound` is not inductive:
a pass in flight may raise the high-water mark past an obligation it has not
applied. `IndexInvariance` strengthens it:

- `SequencesDistinct`, and `LatestIsLatest`: `latest[f]` bounds every obligation and
  index version of f, and whatever carries it describes the stored row;
- `NothingIsLost`: a feature whose newest commit is above the high-water mark still
  has its obligation in the outbox (retention prunes at or below the mark only), and
  one at or below the mark is in the index;
- `PassesAreComplete`: a pass about to read has its cursor at or below the mark, and a
  newest change below an obligation the pass still holds is in the index or held too.

Applying the lowest obligation of a pass then keeps the mark sound even if another
replica has moved it meanwhile. `HighWaterMarkIsSound`, `IndexTypeCorrect` and
`RedeliveryNeverRegresses` follow, for overlapping leaders, crashes, failed passes,
redelivery and pruning.

`SearchesAreFreshEnough` adds a second invariant for the search in flight
(`GateInv`). The gate reads the primary's mark, then the index's, and serves; between
the two reads passes apply, writers commit and retention prunes. What it owed at its
first read therefore keeps, until its second, the relation to the index that the
newest commits have in `IInv`: an owed change is in the outbox or indexed
(`OwedIsThere`), no pass steps over one (`OwedIsHeld`), and its sequence names one
feature (`OwedIsNamed`). It is stated of `gate.owed` and not of `latest`, so that later
commits of the same features do not disturb it. When retention has pruned the last
commit the primary's mark is too low, but then everything owed was indexed already
(`GateKnows`).

**The GeoPackage lane** (`GeopackageProofs`). `GeopackageImplementsOutbox` is the
refinement `Spec => LogSpec`. The whole transaction has to become one `Commit`, so the
invariant says what an open one amounts to (`TxFollows`): its rows are the committed
rows after the mutations done so far, its outbox the committed one with their
obligations appended, its counter the committed one plus their number. Applying one
more mutation keeps that by the lemmas on chunks (`AfterOneMore`), a refused item
changes nothing, and at the commit it is the definition of `Commit` with no gap.
`NewestGeopackageObligation` then takes `LatestAgreesWithRows` over from the contract.

**The PostGIS lane** (`PostgisProofs`). A handler decides on one statement and acts on a
later one, with other transactions committing in between; the invariant says what it may
still rely on (`PostgisInvariance`):

- `LocksExclude`: no two open transactions hold the same row, and `rows[f].xmin` only takes
  numbers of commits, so a row that has the witnessed xmin was not replaced since;
- `Guarded`, `Known`: of a request whose precondition is enforced, *if* the row still has the
  witnessed xmin, its content meets the precondition, the PATCH was merged into it and
  the recorded prior is its own. Once the conditional statement has found that xmin the
  lock keeps it, so at the commit the hypothesis holds;
- `Owes`: for every row a transaction holds, the newest obligation it is about to commit
  describes what it wrote, above all committed obligations of that row. The row of the
  item in progress is the exception between the data statement and the INSERT into the
  outbox, and nowhere else, savepoints included.

`OptimisticLocking`, `PatchKeepsTheRest` and `PriorIsWhatWasReplaced` follow from the
second, `NoChangeGoesUnowed` and `NewestObligationDescribesTheRow` from the third. The
last is stated of obligations that wrote a row: a DELETE that found none holds no lock
and its sequence orders nothing (section 5).

`ImplementsConcurrentOutbox` is the refinement `Spec => ContractSpec`. It needs two more
conjuncts (`CInv`): no sequence is drawn twice, be it in one transaction or in two,
published or still owed (`DrawnOnce`), and an obligation that wrote nothing is a
tombstone. Every step but a commit publishes nothing (`StepKinds`: the outbox INSERT
draws a sequence, everything else owes nothing new). At the commit `Owes` gives the
order per feature and the description of the row, `DrawnOnce` the unused sequences,
and the row locks that no other feature moved. The rows, not the extents, are what the
contract speaks of: `PriorIsWhatWasReplaced` covers the extents of guarded writes.

**Tile invalidation** (`TileProofs`). `AnswersReflectDrainedCommits` relates a request's
key, two caches and the cursor of a store. `TilesInvariance` says that a commit behind a
replica's cursor has raised the generations of the buckets it touched (`NothingIsMissed`),
that a drain pass steps over nothing (`BatchesAreComplete`), that a request's generation
is no older than a drained commit to its area (`RequestsCover`), and that what is stored
under a key is no older than the key (`KeysAreOld`), so a late fill or put does no harm.
With retention each of the first three has a second disjunct: a restarted replica may
find an obligation gone that it had drained before, which is harmless when nothing older
is left for it to serve (`Outlived`). That is why `SafeDeployment` asks, if there is
retention, for one replica whose restarts find no shared cache; the two configurations
`MCTilesOrphans.cfg` and `MCTilesRestart.cfg` show the other cases failing. Without
retention the theorems hold for any number of replicas sharing an L2. `RetentionOrphansNobody`
is the action property that a prune never takes what a running store has still to drain.

**Webhook delivery** (`ServingProofs`). What is owed has to survive the cursor, the
rebind that replaces cursors and the prune that looks at them. `OwedIsSafe` says all of
it at once: what a subscription is owed is in the outbox, not sent, accepted, beyond its
cursor and beyond the floor of a prune in flight; and after the first rebind it is bound
and in the registry, so the next floor will see its cursor. It is inductive with
`RuntimesAreConfigured` (a bound runtime is what the configuration declares, so a rebind
finds it matching and leaves its cursor), `BoundIsConfigured` and `TasksAreBound` (no
task delivers while the manager touches its runtime), and `BatchIsTheOutbox` (a batch
is all of the outbox from the cursor to its last obligation, so a cursor that advances
past the whole batch skips nothing). `OwedIsNeverPruned` and `CursorsNeverSkip` follow.
`CollectionStays` excludes the one step that breaks it, a reload that declares the
collection otherwise: `MCWebhooksMoved.cfg`. Any other reload and every restart is
covered.

**Dead letters** (`ServingProofs`). The letters of the ring are consecutive ordinals that
end with the last one given out (`RingKeepsTheNewest`), and what stayed in the ring
since the first page has been read as far as the token reaches (`ReaderFollows`). A page
is the lowest positions beyond the token, so it has no hole; a token of a replaced ring
has nothing that stayed. `PagesSkipNothing` is what an operator may rely on.

**The admission gate** (`ServingProofs`). `GateNeverStalls` is about a request that nobody
will wake. The invariant names who will (`HelpIsLeft`): as long as all slots are free and
some request is parked, or bound to park at its next poll, somebody is in a step that
leads to a notification or to the request's own attempt, or a reload is under way. A
request that `notify_waiters` has called is *not* counted: its deadline may end it
without passing anything on. Beside it, `active` and `depth` are the numbers of
requests in the steps they stand for (dropped futures included, see
`admission_disconnect`), and the Notify has exactly the parked requests registered, each
once, so that `notify_one` with a registered waiter wakes a request that is there.
`NoRequestIsLeftParked` and `GateTypeCorrect` follow from `GateInvariance`.

**The job ledger** (`ServingProofs`). A verdict is final because every statement
that writes a row is guarded by its status; the proof goes through the statements one
by one. `OneJobPerKey` is inductive given `ClientsMatch` (a submission that was not
sent has no row) and the types. The two bounds on executions are not inductive: a
lapsed job may be handed out once more, which adds one attempt without adding an
overrun or a fault. `Accounted` therefore also asks that a job which is lapsed, or
running with nobody at work on it, is one execution below its bound (`HasRoom`):
whoever let it come to that, by overrunning or failing, has paid for the next claim.
`RunnersMatch` says that exactly the idle runners hold no job, so a claim adds one
holder and a finish or an abandonment removes one; the counting itself is by the
library's facts on finite sets. `KeysAreExclusive`, `OverlapsAreOverruns`,
`RerunsAreAccounted`, `VerdictsAreFinal` and `JobsTypeCorrect` follow from
`JobsInvariance`.

**The control store** (`ControlPlaneProofs`). A commit is checked against three tables
that say the same thing in different words, so the invariant relates them: entity
versions to the audit log (`VersionsAreTrue`: the last touch, or 0 if that was a delete),
idempotency keys to the commits they name (`KeysAreRecorded`), and what a handler has
authorized to the snapshot it did so on (`HandlerFollows`), which `StateIsCurrent` makes
the snapshot the commit is applied to. From it `StoreImplementsLedger` (the refinement
to `ControlLedger`), `HandlersAnswerForThemselves`, `VersionsFollowTheLedger` and
`StoreTypeCorrect`. `EditsReplaceWhatTheySaw` needs a second invariant (`EditInv`): an
editor whose GET saw one revision saw a version that has the value it saw for as long as
it is the version in force, or is 0 because the resource was deleted since. The last case
is harmless, since what is gone can be neither edited nor deleted, in a valid snapshot;
hence the assumption that the seed is one. The other assumption is that nothing is
imported; section 5 says why it is needed.

**The control consumer** (`ControlPlaneProofs`). `ServedRevisionsImplemented` and
`WhatIsReportedIsServed` do not follow from a replica's own state: the invariant
`LoopFollows` says that a refresh is under way only above the revision in force, so an
activation moves forward, and that the boot-lifetime settings compared at the last
activation are still those the process was wired with, however many revisions it was
carried along since.

**The configuration file** (`ProcessProofs`). Whoever is about to rename holds
write_lock, so between its second comparison and its rename only a hand edit can come,
and that is what the file then says of its author (`WritersFollow`).
`PutsNeverOverwriteEachOther` is the action property from that.

**Readiness** (`ProcessProofs`). The n-th context is of generation n - 1. Before a probe
compares, its context can only be older than its generation; once it has compared they
match; and if the generation is unchanged at the end, so is the context
(`ProbeFollows`). `VerdictsAreCurrent` follows.

**Assets** (`ProcessProofs`). `AssetsInvariance` holds for any set of settings, slots,
contents and chunks. None of the four properties is inductive: each is about what a
handler has put down, and what it puts down next is in its locals. The invariant relates
those to the stores, in three parts:

- `SupportedOnly`: a step of S3 is under way on S3 only, no hold is on a filesystem, and
  nothing lands late where no client goes away.
- `WritersCompared`: where bytes are compared first, who is about to write them
  (`store`), or goes on writing them after its client has left (`putting`), has the
  content its own id was declared with. This is where finish_upload's second reading of
  the record matters: the id a completion began with may not be the one it writes to.
  `NoForeignBytes`, whatever races.
- `AloneInv`, of requests one at a time: which record is pending and which object is
  stored at each step of a request (`ReliesOnRecord`, `ReliesOnObject`), and from it
  that a hold is of the request under way (`HoldsFollow`), that an available asset is
  whole unless its removal is under way (`AvailableAreIntact`), and that an object has a
  record (`ObjectsAreOwned`). `BrokenOnlySo` and `HoldsAreReleasable` follow, with
  calls that fail and processes that end anywhere.

`ChunksFollow` is a second invariant, over that one and only where `WritesAreAwaited`: also
the bytes a handler has taken out of an upload, and may put back, are in place; the chunk
of an append carries its offset; and every write under way is that of the one handler
which holds the lock, whose offset is still the upload's length (`WritesFollow`). So a write
lands at the place it was cut from, although the comparison was an earlier step:
`ChunksStayInPlace`. With a handler that is dropped the write has no lock any more, the
last part fails, and so does the code (section 5).

Two more results say what is left of two divergences of section 5 without races, and no
run states them: `VerdictsStand` (an action property: the UPDATE by key finds the record
its request read) and `NothingStaysBehind`. `MoveKeeps`, `StoresKeep` and `StepKeeps` are
the lemmas the steps share: what a step must say of its own slot, and of the one id whose
object and upload it changes, so that the whole invariant is kept.

**Only model-checked.** Liveness (`IndexConverges`, `StoresCatchUp`, `EveryRequestEnds`,
`EveryJobEnds`, `EverythingOwedIsHandled`, `EveryRequestIsAnswered`,
`NewestIsServedOrRefused`, `EditsArrive`, `SignalEndsTheProcess`,
`MovingReadinessBecomesTrue`) is outside the prover's reach, as is ENABLED. All the
safety properties the passing runs check are theorems. The tile properties of deployments outside
`SafeDeployment` are not theorems because they are false there.

## 5. Where the code and its documentation disagree

Two of these are runs whose counterexample shows them, with the quotation in
`PROJECT.json` under `findings`:

1. `postgis_sequence_order`: a bigserial is drawn at the INSERT, not at the commit.
   Two transactions on different features can commit in the other order and a cursor
   passes a sequence that appears later. For one feature the row lock keeps the order
   (`LatestWriteAgreesWithRows` passes).
2. `admission_disconnect`: `queue_depth` is not lowered when a request's future is
   dropped at the await.

The others can be reproduced with a configuration that stands in the directory and
belongs to no run (`tlc -config C M`; each violates the property it states), or by a
property that is quoted:

- Tile stores over a restart, `tellurion-core/src/invalidation.rs:15-19` ("It also makes
  a restart harmless"): replay does not relearn pruned generations, so a bucket comes
  back lower and an old L2 entry answers again. `MCTilesRestart.cfg`.
- Retention, `tellurion-core/src/retention.rs:7-8` ("never a quiet data loss"): the floor
  is the least cursor of its own process only (`retention_consumer.rs:119`), so another
  replica's generation store can lose what it has still to drain. `MCTilesOrphans.cfg`.
  And a subscription whose collection declaration changed in any member, a title
  included, is out of the registry between `webhook_consumer.rs:149` and `:168`; a
  retention pass that gathers in between prunes what it is owed. `MCWebhooksMoved.cfg`;
  run `webhooks` keeps the declaration.
- Admission, `tellurion-core/src/admission.rs:21-23` ("waits for a slot to free"): a permit
  freed twice between two waiters' attempt and first poll is stored once; one waiter
  parks beside a free slot until its deadline or the next release.
  `MCAdmissionWakeups.cfg`. `GateNeverStalls` says how far this goes: never with all
  slots free.
- Control edits, `docs/administration.md:30` ("detect intervening changes"): the three
  statements of `load_snapshot` (`tellurion-control-postgres/src/store.rs:355`) have
  database snapshots of their own; a commit in between hands the editor the settings of
  one revision with the versions of the next, and its edit replaces the other one's
  unseen. `MCControlTorn.cfg`; `UntornEditReplacesWhatItSaw` excepts exactly these GETs.
  An import changes every resource and moves the version of the platform only
  (`tellurion-core/src/control_model.rs:1488`, `:1431`), which fails the same way for an
  edit of another resource; the plans of run `control` hold no import and the theorem
  assumes there is none.
- Control retries, `docs/administration.md:31-33` ("retry the exact request"): the intent
  is resolved against the current snapshot before the key is looked up
  (`control_admin_policy.rs:777`), so the retry of a delete that did commit is refused.
  In `ControlStore` this is the "denied" of `LoadVersions`.
- Process lane, `README.md:155-156` of the repository: `reject_restart_required_changes`
  (`runtime_activation.rs:169`) does not compare `server.processes`, which
  `process_lane.rs:35-36` says needs a restart; such a revision activates live and is
  reported as applied. `checked` in `ControlConsumer` is what the code does compare.
- Reload, `tellurion-server/src/reload.rs:300` ("byte-for-byte identical"):
  `load_versioned` (`config_store.rs:220`) reads twice, so a document can be in force under
  another one's version and the reload declines its restoration. And an edit between the
  boot's read (`main.rs:378`) and its watch (`:763`) is served only after the next
  one. `EditsArrive` excepts the two by name (`Mislabelled`, `missed`); without either
  disjunct TLC finds it violated.
- Assets, all in `MCAssetDivergences.cfg`, in the settings with two requests at a time or
  clients that go away. `AssetVerdictIsFinal`: the finalizing UPDATE (`asset_sql.rs:182`)
  names neither id nor state, so of two completions the later one overwrites the verdict
  (`asset.rs:738-740`). `NothingIsOrphaned`: a completion stores its object between
  the two steps of `delete_asset` (`asset.rs:1060-1062`). `MismatchLeavesNothing`:
  `finish_upload` (`asset.rs:612`) answers Conflict before it looks at the digest, with
  unverified bytes already at the final S3 key (`:609`). `HoldCoversUnverifiedBytes`:
  between the multipart completion and the Verifying entry (`objectstore.rs:1774`) the key
  reports no upload (`:1884-1887`). `RacingHoldHasItsCompletion`: a handler dropped before
  its release (`asset.rs:1001`) leaves the key refused until the process restarts
  (`:1016-1018`). `EveryChunkIsInPlace`: on a filesystem the append whose handler is dropped
  leaves its lock and not its write (`objectstore.rs:718-722`), which lands after a retry has
  compared the old length, so the chunk is there twice, against `objectstore.rs:323-326`
  ("checked atomically against the upload's actual current length under this store's own
  lock", "never a silent interleave"); a dropped create, take or abandon truncates or removes
  a later upload's file the same way (`:678`, `:732`, `:745`).
- Assets, `objectstore.rs:1781`: `take_upload` removes the entry before it looks at what it
  is, so a second completion drops the Verifying entry of the first and answers that there
  was no upload, and the key reports none while its bytes are unverified, against
  `:1655-1661`. `HoldCoversUnverifiedBytes`, in the same configuration.
- Reload, `tellurion-server/src/reload.rs:31-40`: a directory that is written more often
  than once in 250 ms, or SIGHUPs that are sent so, begin the window of `:384-396` again each
  time and the reload never starts. `EditsArrive` without `Starved` fails.
- Shutdown, `tellurion-server/src/shutdown.rs:155-157` and `main.rs:873-875`: neither the await
  of an aborted task (`shutdown.rs:179-181`) nor the drop of the runtime has a deadline, and
  the latter waits for blocking calls that were started (`tellurion-geopackage/src/pool.rs:144`,
  `:162`, all of tokio::fs). One that never returns keeps the process. `SignalEndsTheProcess`
  without `NeverReturns` fails.

Met while modelling, with the property that fails:

- PostGIS, `tellurion-postgis/src/driver.rs:2022-2024`: the prior extent is read by a
  plain SELECT under READ COMMITTED, so another writer can commit between it and an
  *unguarded* upsert. `Commits(w) /\ ~req[w].batch => \A o \in req[w].owed : o.wrote
  => o.prior = rows[o.fid].content` fails; `GuardedPriorIsWhatWasReplaced` passes.
- PostGIS, `tellurion-core/src/outbox.rs:539-541`: an unguarded DELETE that finds no row
  takes no lock and leaves a tombstone whose sequence may be above that of a
  concurrent insert committed later. `LatestWriteAgreesWithRows` without `o.wrote`
  fails.
- Generations, `tellurion-core/src/invalidation.rs:8-13`: two replicas drained to the same
  sequence in different batches hold different bucket generations, since a batch
  raises every bucket it touches to its own highest sequence. `store[r].cursor =
  store[s].cursor => store[r].bucket = store[s].bucket` fails. Answers stay correct
  (`tiles_caches`); the shared L2 is only hit less often.
- Jobs, `tellurion-core/src/job.rs:257-259`: `finish` is guarded on `status = 'running'`
  only (`job_sql.rs:252`), so a claimant whose window lapsed still records its outcome
  after somebody else claimed the job. The verdict is final all the same
  (`VerdictIsFinal`).

## 6. Plan

1. Built: the outbox contract with its two drivers and its four consumers (index, tile
   stores, webhooks, retention); admission, assets, jobs; the control plane as two
   contracts and their implementations; configuration file, readiness and shutdown.
   Proved: what section 4 lists, every safety property of a passing run among it.
2. Models that come next: the PNG tile rendered over a cached vector tile, in
   `TileGenerations`; the relational registry's polling beside the file's reload, in
   `ConfigFile`; the rate limiter's window.

## 7. What is left out

Inside the modelled parts:

- request parsing, authorization, schema validation and CRS negotiation where they refuse
  a request before the first modelled step (the control store's authorization is
  modelled, because it is decided on a snapshot that may be overtaken);
- geometry (a content is where a feature is; the bucket grid is a function from contents
  to sets of buckets); wall-clock time (a deadline, a TTL, a poll interval or a window may
  end at any time); database failover;
- the split of the global concurrency ceiling into tenants' shares, which is arithmetic
  over the configuration;
- webhook signatures and the HTTP exchange; the pull change feed, which shares the outbox
  reads, is given its cursor by the client and keeps none;
- the control plane's HTTP pages over entities, the browser session of the console, and
  the audit summary;
- the relational registry's polling, and a build that fails for a reason outside the
  document and would succeed when tried again;
- the expiry of a presigned URL, S3's part buffering below one chunk, an append of which
  only a part of a chunk is written, multipart ids that a restart orphans at S3, the staging file of an upload that `delete_asset` leaves, and the
  reconciliation report, which only reads.

The remaining components are listed in section 1 with the reason.
