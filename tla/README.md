# TLA+ specification of the notes sync server

This directory specifies the concurrent parts of the server, model-checks them
with TLC and proves their safety properties with TLAPS. The reference is the code under
`src/`; every definition that models code names its lines in `PROJECT.json`
("map").

    tlc -workers 2 -config push.cfg MCNoteSync      # any run of PROJECT.json
    tlapm NoteSyncProofs.tla                        # the proofs of one module

## 1. The system

Clients keep notes offline and exchange *operations* with the server. A push
(`POST /v1/sync`) carries operations of one device; the server groups them by
note, applies each group (a *note batch*) atomically, bumps the note's version
once per batch and appends one `note_changes` row per operation. A pull
(`GET /v1/sync`) returns the changes of the user's other devices after a cursor,
which is a value of the global `note_changes.global_sequence` identity column.
After a commit the API process notifies the WebSocket process through PostgreSQL;
a worker process builds note snapshots from an outbox and cleans up uploads that
were never finished.

| Component (sources) | State | Operations | Talks to | What makes it correct | Module |
|---|---|---|---|---|---|
| Push sync (`internal/sync/services`) | per request: remaining operations, `noteBatchState`, response | device lock, idempotency lookup, ten operation types, batch flush, rejection snapshot, commit | store (one transaction, one savepoint per batch), event bus after commit | versions are a gapless chain; no lost update; an operation is applied once however often it is sent; a batch is all or nothing; state and log agree | `NoteSync` |
| Pull sync (`pull_service.go`) | none of its own | `Pull`, `UpdatesAvailable` | store | a cursor never passes a change the client did not get; available updates can be pulled | `NoteSync` |
| Request decoding (`internal/sync/models`, `operations`) | none | envelope and payload validation | push | exactly the malformed operations are refused | `NoteSync` |
| Persistence (`internal/store`, `db`) | PostgreSQL tables | queries, `WithTx`, `WithSavepoint` | everything | locks and unique keys give the services the atomicity they rely on | `NoteStore`, and with their users |
| Devices (`internal/devices`) | `sync_devices` | register, list, revoke | push and pull lock the device row | a revoked device commits nothing more | `NoteSync` |
| Readers (`full_note_service.go`, `internal/notes`) | none | document reads of three statements | store | the cursor of a document fits its content | `SnapshotWorker` |
| Snapshot worker (`internal/jobs/worker.go`, `snapshots.go`) | `outbox_jobs`, `note_snapshots` | claim, build, complete, fail, lock timeout | push enqueues its jobs | every job is completed, and only once its snapshot is there | `SnapshotWorker` |
| Uploads (`internal/uploads`, `internal/jobs/cleanup.go`, `internal/storage`) | `file_uploads`, the object store | initiate, complete, download, feed, delete, clean up | browser, object store | a COMPLETED upload has the object that was declared; answers stay true; every pending upload is reconciled | `Uploads` |
| Realtime (`internal/realtime`, `cmd/websocket`) | connection registry, send queues, LISTEN session | connect, replace, enqueue, write, reconnect, shut down | pushes publish hints | a live connection is found; hints are coalesced, not lost; shutdown ends | `RealtimeHub` |
| Authentication (`internal/auth`) | cached key set | verify, refresh | every request, the issuer | a retired key dies out; a kid is unknown only on fresh evidence | `JwksCache` |
| HTTP layer, configuration, wiring, development issuer | - | translation, start-up | - | not modelled (section 8) | - |

What is hard here: requests of one user run concurrently in several API
processes and meet only in PostgreSQL (READ COMMITTED, row locks, unique
indexes); `ROLLBACK TO SAVEPOINT` releases locks in the middle of a request;
sequences are handed out before commit; clients retry requests whose answer they
lost, possibly while the first is still running; a request may die at every
statement. Uploads and document reads hold no transaction at all. Workers
outlive their locks. The hub's registry, the write loops and the listener share
state under three mutexes and a WaitGroup, and connections replace each other
while the process stops. Two key refreshes may overlap. The hazards, each at its
line and with the properties aimed at it, are in `PROJECT.json`.

## 2. Modules

| Module | Contents |
|---|---|
| `TextDelta` | rune-indexed text edits |
| `NoteStore` | tables, transactions, savepoints, row locks, queries of the sync path |
| `NoteSync` | push, pull and device handlers over `NoteStore`; properties |
| `NoteReplay` | what replaying the change feed gives, compared with the stored rows |
| `NoteLog` | abstract specification: devices append batches to versioned notes; `NoteSync` implements it |
| `Uploads` | upload rows, API calls, cleaners, object store, browser |
| `RealtimeHub` | hub, connections, listener and shutdown of the WebSocket process |
| `SnapshotWorker` | outbox, workers, document reads, pushes that commit in between |
| `JwksCache` | token verification, key cache, issuer, clock |
| `MCNoteSync`, `MCUploads`, `MCRealtimeHub`, `MCSnapshotWorker`, `MCJwksCache` | instances |
| `NoteSyncProofs`, `NoteDeviceProofs`, `NoteBatchProofs`, `NoteReplayProofs` | theorems about `NoteSync` and `NoteReplay`, each module extending the one before (section 7) |
| `UploadsProofs`, `SnapshotWorkerProofs`, `RealtimeHubProofs`, `JwksCacheProofs` | theorems about the other components (section 7) |

The parts meet in data, not in control: a push puts a job into the outbox and a
notification onto the bus and never waits for either, so `SnapshotWorker` takes
a committed batch as one action (`Push`) and `RealtimeHub` a published hint as
one (`Publish`). That hints name committed cursors is `HintsCommitted` and that
due jobs are enqueued is `SnapshotScheduled`, both of `NoteSync`.

Every safety property the passing runs check is also proved; liveness is
model-checked only (section 7). The type invariants (`TypeOK` of each module) are
proved and not among the runs' invariants.

## 3. How the modules correspond to the code

### Sync: `NoteStore`, `NoteSync`, `NoteReplay`, `NoteLog`, `TextDelta`

**Keys and rows.** `rows` is one function over the primary keys of the tables
`sync_devices`, `notes`, `note_blocks` and `categories`; `Absent` is "no row".
`changes`, `outbox` and `snapshots` are the other tables of the sync path,
`seq` the last value of the identity column (never given back).

**Transactions.** `tx[p]` is the transaction of handler `p`: its uncommitted row
versions, change rows and jobs, and the rows it has locked. `save[p]` is the same
at the savepoint of the current batch. A statement sees `Visible(p, k)`: its own
write, else what is committed *when it runs* (READ COMMITTED). `Free(p, k)` is
the wait of `SELECT ... FOR UPDATE`, `UPDATE` or an `INSERT` of a key somebody
else has inserted and not committed. `RollbackToSavepoint` restores `save[p]`,
which also releases the locks taken since (PostgreSQL does).

**Handlers.** Each element of `Handlers` serves one request, wherever it runs.
A step is the stretch of code between two points where another handler can
interfere. `LockDevice` is the head of `Sync` and `Pull`; `FindProcessed` and
`RetryOp` are the idempotency lookup of `applyOperation`; one action per
operation type follows (`CreateNote` ... `ModifyCategory`), with the rejections
shared by several of them in `RejectMalformed` and `RejectExisting`;
`FlushBatch` and `RejectBatch` end `applyOperationBatch`; `Commit` and `Publish`
end `Sync`; `PullPage` and `Respond` are `Pull` and what its client does.
`UpdatesAvailable` runs its two statements without a transaction:
`UpdatesAvailableDevice` reads the stored cursor into `check[d]`, anything may
happen, and `UpdatesAvailableChanges` asks for changes after it; `UpdatesAvailable(d)`
is what the second statement answers if it runs now. `Checking` says which devices
ask at all. `deleteNote` has two actions, because its second lookup runs without a lock and
may see another state than its UPDATE did. `Abort` is a failed statement, a
cancelled context or a crash at any point before COMMIT takes effect, a COMMIT that
fails included. `CommitUnknown` is the other error `tx.Commit` can return: COMMIT
took effect and its answer was lost, so the request fails, publishes nothing and
returns no page although all it wrote is there (`Committed` tells the two apart).
A request that is refused before the store is read (protocol version, device id,
cursor, number of operations) fails in `Receive`; `Request.valid` stands for the
checks other than the number.

**Batch state.** `batch[p]` is `noteBatchState`. Edits of title, properties and
block contents live in the cached rows until `FlushBatch` writes them; creations
and deletions are written at once, as in the code.

**Abstractions.** Names, properties and runes are model values; a text is a
sequence of runes, since deltas index runes. A payload is decoded into fields
that are `None` where the client left them out. Timestamps, JSON layout and log
lines are left out. `CreateNote` inserts the note and its blocks in one step, once
none of the keys is in another transaction's hands: the code inserts them one after
the other while it holds the note, and what it has inserted shows to nobody before
COMMIT. `WaitsFor` lets a handler that creates a note wait for each of its blocks;
a request that would meanwhile wait for the new note's id could close a circle only
through a block id used in two notes, which `NoWaitCircle` excepts. Two ghost
fields, `Change.by` and `Rejected.id`, and the
ghost `raced` name things for the properties and are never read by an action.
External and marked so: PostgreSQL's visibility, locks and unique-index waits,
and the client (`Respond`, `NoteReplay`).

### Uploads: `Uploads`

`row` is `file_uploads`, `object` the object store, `signed` the upload URLs
clients hold. A call's `pc` names its next statement (`i_` Initiate, `c_`
Complete, `d_` DownloadURL, `l_` DownloadURLs, `x_` Delete), because the service
opens no transaction: between any two statements other calls, cleaners and the
browser act. Every status change is a conditional `UPDATE` (`Update`), and what
the code does when it returns no row is a step of its own (`CompleteReread`,
`DeleteReread`). `Abort` is a request that dies at any statement; `InitiateFail`
is the compensation after a failed signature; storage calls may fail and a failed
delete may have removed the object (`DeleteObjectFails`). The cleaner is
`Cleaner.RunOnce`, one per worker process, with its page, its skips
(`CleanerFails`, `CleanerDeleteFails`) and crashes. Time is the position of
"now" in the life of each upload: before `expires_at`, before the end of the
grace, after it. `expires_at` is computed before the row is inserted (`SetExpiry`,
a reading of `clock`), so rows may be inserted in another order than they expire
in, and the cleaner's page is ordered by it (`FirstDue`); `Tick` lets uploads
expire in that order. The token of an upload URL has a life of its own: the
configuration checks the upload's TTL and the grace each alone
(`config.go:173-179`), and the grace does not revoke a token
(`documentation.md:229`). So `BrowserUpload` may store an object at any time, but
never replaces one (the URL is signed without upsert). The ghost `stores` counts
the objects stored at a path, up to two. `ValidateUploadTarget`, a note lookup and
a block lookup, is one step (`InitiateTarget`): deletions are for good, so a target
that passes was live at the first lookup and one that is refused is gone at the
second.

### Realtime: `RealtimeHub`

One action per hold of a mutex or channel operation. `clients` and `hubClosed`
are the hub; `conn[c]` is the handler goroutine of a connection, the connection
it replaced and the flag `Close` sets; `writer[c]` is `writePump`, `queue[c]` the
`Send` channel. `enqueue` holds `queueMu` while it drains (`QueueLocked`), which
delays `Close` and does not delay the writer. `PublishSyncAvailable` is the only
producer of messages, so a queue never holds anything but hints: the branches of
`enqueue` for other types, and the drop when the channel is full after a drain,
cannot be reached, and a queue holds at most one hint. `listener` is the goroutine of
`Subscribe`: it handles one notification at a time and fans it out to the clients
it copied under the read lock, who may have left since. `session` and `inbox` are
its PostgreSQL connection; what is published while it is down is lost
(`SessionBreaks`, `Publish`). `stage` and `toClose` are the shutdown sequence of
`cmd/websocket`.

### Snapshots and readers: `SnapshotWorker`

`GetNoteDocument` is three statements, for a worker (`ReadNote`, `ReadBlocks`,
`ReadCursor`) and for the endpoints (`GetNote`, `GetBlocks`, `GetCursor`): in
READ COMMITTED a transaction does not change what each of them sees. A document
is named by the versions that wrote its parts. `jobs` is `outbox_jobs`;
`LockExpires` is the lock timeout, which passes whoever holds the lock, and
`CompleteOutboxJob`/`FailOutboxJob` act by job id alone, as the queries do.
`ProcessError`, `CommitUnknown` and `Crash` are a failed statement, a COMMIT
whose answer is lost and a dead process.

### Authentication: `JwksCache`

A request reads the cache, and on an unknown kid or an old map fetches the
document, stores it and looks again; each is one hold of the mutex. The clock may
advance while a request waits for the issuer, up to the HTTP client's timeout.
`log` records which documents were served when, so that the properties can say
how old the evidence behind an answer is.

## 4. Runs

| Run | Instance | Checks |
|---|---|---|
| `push` | three requests out of one of seven sets: conflicting edits (`ConflictRequests`), a race through three versions, block batches, two users, categories, opposite lock orders, one block id in two notes | `VersionChain`, `NoLostUpdate`, `SequenceFollowsVersion`, `AtMostOnce`, `RetryNotRejected`, `BatchAtomicity`, `RejectionSnapshotFresh`, `SnapshotScheduled`, `OwnerIsolation`, `ReplayMatchesState`, `CategoriesMatchLog`, `NoWaitCircle`, refinement `ImplementsNoteLog` |
| `pull` | 4 requests of 3 devices, 3 notes, pages of one change; one device registers on the way and may be revoked, the pulling one asks `UpdatesAvailable` | `SkippedOnlyInFlight`, `HintsCommitted`, `UpdatesArePullable`, `UpdatesHiddenOnlyByLoss`, `RevokedDeviceSilent` |
| `order` | 2 notes locked in opposite request orders, fairness | `RequestsComplete` |
| `uploads` | 1 upload, 2 calls, 2 cleaners, browsers of any age, every action | `CompletedHasObject`, `AnswersHold`, `LinksOnlyVerified`, `Lifecycle` |
| `uploads_live` | 3 uploads, 2 calls, a page of 1, objects the store cannot describe, fairness | `PendingOvershootBounded`, `Reconciled` |
| `hub` | 2 connections of one device, 3 devices of 2 users, 2 events | `LiveIsReachable`, `HintsNotLost`, `StoppedServesNobody`, `OnlyOthersHints` |
| `hub_live` | 2 connections, 2 events, fairness | `ShutdownCompletes`, `HintReachesClient` |
| `snapshots` | up to 3 workers or a reader, 2 versions, one fault | `DocumentsNotBehind`, `CompletedHasSnapshot`, `OverlapBounded`, `CompletedIsFinal`, `JobsComplete` |
| `jwks` | 2 requests and a later one, 3 documents, Ttl and timeout of one tick | `CacheIsOneDocument`, `MissingIsRecent`, `RetiredKeyDies` |
| `doc_pull`, `doc_batches`, `doc_full_note` | as small as the case needs | three statements of the documents that the code does not meet (section 6) |

In the sync runs any handler may receive any request of the set, so every
request may also arrive twice (a retry), also while its first copy runs.

*Bounds.* A lost update needs two writers, a torn retry two copies of a request,
a rejection snapshot that moved a third request that commits in between; three
handlers (four in `pull`) give each of these room. Versions go up to 3, sequences
as far as the requests take them. One request is over `MaxOperations`; the
snapshot thresholds are 2 changes and 3 bytes, so that a note is below, at and
above them. One upload with two calls and two cleaners has every race for a row
and its object; the limit and the page need three uploads, which `uploads_live`
has. Two connections of one device are enough to replace each other in either
order, and two events to coalesce. A job needs two workers to overlap and a
second version to be read in between; that a third worker does not get it needs
a third. In `jwks` a document can be superseded
while another request still waits for it; a third request then uses what a late
answer left in the cache, and the clock runs past `Ttl + FetchTimeout`.

*Parts.* Six runs explore less than the product of everything, by a next-state
relation of their MC module, and are sound for what they check:

- `push` (`PushNext`): a behaviour stays within one request set. Sets are
  scenarios, not a claim that other mixtures cannot matter.
- `pull` (`PullNext`): `UpdatesAvailable` is asked while at most three of the four
  requests have come, which is enough for two pushes in flight and a pull, or a push
  and two overlapping pulls, around its two statements.
- `uploads_live`: either several initiates compete for the limit before anything
  is signed, or one call at a time makes two uploads that become due; ids are
  taken in order, because they are interchangeable.
- `snapshots` (`PartsNext`): readers write nothing and read nothing that workers
  write, so a behaviour has the ones or the others. The third worker takes part
  while the note has one version, and no push commits while it is busy; fairness is
  assumed of the other two only.
- `jwks` (`PartsNext`): a third request comes when the two that may overlap have been
  answered, and only where the tokens were good and the issuer went from one key to
  the other.
- `hub`, `hub_live` (`HubNext`, `LiveNext`): only the connecting device is
  revoked; for liveness the events come from one device and shutdown starts after
  at most one of them.

*Symmetry.* Handlers, calls, cleaners, connections of one device and key requests
are interchangeable; no run that checks liveness uses symmetry.

*Deadlock* is checked where requests go on (`push`, `pull`, `order`, `uploads`);
the other systems may stop: every job is done, the process has shut down, the
clock has reached its bound.

## 5. Fairness

- `NoteSync!FairSpec`: weak fairness of each handler's own steps. A goroutine is
  scheduled, and PostgreSQL grants a row lock to its waiters in turn. Nothing
  says that requests arrive or that anything fails. `RequestsComplete` then says
  that locks taken in note order cannot form a circle: with `sortedOperations`
  replaced by the request's own order TLC finds the deadlock. The requests of
  `order` name no category and use every block id in one note. Without that,
  handlers can wait in a circle, which PostgreSQL's deadlock detector breaks by
  ending one of them (`Abort`): `NoWaitCircle` says that categories, which are
  locked in client order, and block ids used in two notes are the only causes.
- `Uploads!CleanerFairness`: a worker that is up starts a pass every five minutes
  and goes on with it (weak fairness), and a storage call that is repeated for
  ever succeeds again and again (strong fairness of its successful outcome);
  cleaners may still crash as often as they like.
- `RealtimeHub!Fairness`: handlers, write loops (their writes have deadlines),
  the listener and main run. Sessions, peers and publishers owe nothing.
- `SnapshotWorker!Fairness`: a worker process runs, a stopped one is restarted,
  and time passes. Faults are bounded by `MaxFaults`: with one failure after
  another no job is ever done.

## 6. Findings

- `doc_pull`: a change can be skipped for good. Request A gets sequence 1,
  request B gets 2 and commits, a device pulls and saves cursor 2, A commits.
  `codex_notes_sync_spec.md:1223` promises all changes after a cursor.
  `SkippedOnlyInFlight` shows that this is the *only* way to lose one.
- `doc_batches`: a category whose name is taken fails the whole request, although
  `push_service.go:46` says that batches are accepted or rejected independently.
- `doc_full_note`: a push that commits between the statements of a full-note read
  gives an answer whose `lastAppliedCursor` covers a change it lacks;
  `documentation.md:416` says a client can resume from that cursor.
  `DocumentsNotBehind` shows that the cursor is never too *low*.

Observations without a run of their own, where the model has the behaviour and
the properties say how far it goes:

- Count and insert of an upload are two statements, so the limit of pending
  uploads (`config.go:69`) can be exceeded by concurrent calls, by at most one
  less than there are calls (`PendingOvershootBounded`).
- Of two concurrent deletions of an upload one may be answered `ErrNotFound`
  (`service.go:294`), although a repeated deletion of a deleted upload succeeds
  (`service.go:280`). The upload is DELETED in either case (`AnswersHold`).
- Two cleaners find a mismatched object at a path; one removes it and loses the
  answer, the browser stores the declared file with a token that outlives the grace,
  the next pass completes the upload, and the other cleaner removes the object of
  the COMPLETED row. `cleanup.go:16` says that the grace avoids deleting an object
  while a late browser request may still be finishing; `documentation.md:229` says
  that it only reduces cleanup races, and that is what the code does.
  `CompletedHasObject` shows that it takes a second object at the path. In the same
  way an upload that Complete refused because its object did not match can become
  COMPLETED with a second object (`AnswersHold`).
- The cleaner takes the page of due uploads that expired first (`cleanup.go:34`).
  Uploads whose object the store cannot describe are skipped and stay first, so a
  page full of them keeps it from everything behind, although `documentation.md:226`
  says without exception that pending rows are reconciled. `Reconciled` shows that
  nothing else keeps an upload waiting.
- A FAILED row is never taken up again (`uploads.sql.go:227` lists PENDING rows),
  although `service.go:115` says that it is visible to cleanup. The object of a row
  whose verification failed stays until its owner deletes the upload.
- `UpdatesAvailable` may announce changes its device has just pulled, when the pull
  is saved between its two statements (`pull_service.go:61`, `:71`); then, and only
  then, the client is sent to an empty pull (`UpdatesArePullable`).
- A push whose COMMIT took effect and whose answer was lost publishes no hint
  (`push_service.go:66`): other devices learn of it by asking or pulling.
- A snapshot row is read like a full-note answer and can be torn in the same way
  (`store/notes.go:165`, `worker.go:135`).
- A retried batch is answered with sequence 0 and the note's present version
  (`operation_batch.go:151`; `documentation.md:398` says the stored result).
- Two pushes that insert one block id into two different notes can wait for each
  other (`block_operations.go:40`, `note_operations.go:43`): the second insert
  waits for the first transaction while it holds its own note's lock, and that
  transaction may ask for this note next. Ids are chosen by clients and unique
  over all notes (`note_blocks` primary key). PostgreSQL fails one of the
  requests, and its retry is rejected as "block already exists". No document says
  that pushes cannot deadlock.
- A revoked device keeps the WebSocket it has (`handler.go:67` checks on
  connecting only).

## 7. Proofs

All theorems are about the modules' `Spec` and hold for every value of the
constants that satisfies the modules' `ASSUME`s, which TLC evaluates in the runs.

### `NoteSyncProofs`

The first part proves `TypeCorrect == Spec => []TypeOK` for every value of the
constants. Assumptions: `KeysAssumption` (keys of different tables are disjoint,
note ids are numbers, `NilNote` is none of them), `AbsentAssumption`,
`NoneAssumption`, `ThresholdAssumption`, `RequestsAssumption`, `OwnerAssumption`,
`LimitsAssumption`; TLC evaluates them in every run.

`TypeOK` is not inductive. The invariant is `TypeInv /\ DeviceInv`, where
`TypeInv` adds to the types, per handler (`HandlerOK`):

- the operation a handler looks at exists and belongs to its batch (otherwise
  `Op(p)` is `Head` of an empty sequence);
- only a note batch caches a note, so what is flushed has a note id;
- a rejected batch has the id and the reason of its failed operation;
- no sequence in a table, a transaction, a batch or a reply exceeds `seq`: the
  maxima the code takes (`nextCursor`, `lastAppliedCursor`, `committedCursor`)
  are over sets that may be of any size, and exist because they are bounded;

and `DeviceInv` says that a device row is there while a page is read for it,
which rests on `RowsStay`: no step removes a row.

Lemmas worth knowing: `SortedOperationsIsSeq` (the sort has a witness for every
position, by counting the predecessors of a strict total order),
`ApplyTextDeltaType`, `AfterBatchType`, and the shape lemmas `AcceptOpOK`,
`RejectOpOK`, `FailRequestOK`, `NextBatchOK`, `QuietStepOK`, which reduce each
action to what it does to one handler (`StepOfHandler`).

The second part proves, from the same assumptions, `Spec => []VersionChain`,
`Spec => []NoLostUpdate` and `Spec => []SequenceFollowsVersion`. None of the
three is inductive: they speak of committed rows only, and whether a COMMIT keeps
them depends on what the transaction has gathered since it locked the note. The
invariant `ChainInv` says, besides the chain of the committed rows:

- `Exclusive`: no note is locked by two transactions;
- `TxLocks`: a transaction writes and logs only notes it has locked, so that the
  committed row and log of a note stand still while another handler holds it;
- `TxChain`: row and log of a note *as the transaction sees them* are a chain
  again, one version longer while a batch has logged operations and not yet
  written their version (`Extra`), and everything above the row's version was
  logged by this request (`TopOwned`), which is why one version may carry many
  changes and still belong to one request;
- inside a batch, the same of the savepoint, whose locks are among those of the
  transaction: a rejected batch goes back to a chain;
- the cached note (`batch.note`) exists, is locked and has the version of the row
  the transaction sees, so checking a base version against the cache is as good
  as checking it against the row (`existingNote`), and a batch that has accepted
  an operation has a cached note, so that its version is written at the end.

Each action is then one of a few shapes: an operation logged on top of the
visible version (`AcceptNoteChain`, by `GoodLogExtend`: a new sequence is above
all others), a step that leaves the notes alone (`OutsideBatch`, `WithinBatch`,
`AcceptCategoryChain`), a return to the savepoint or to the empty transaction
(`RejectOpChain`, `FailRequestChain`), the next savepoint (`NextBatchChain`), or a
COMMIT, which moves the transaction's chain into the tables and is invisible to
the others (`OthersCommit`).

### `NoteDeviceProofs`

Eight theorems about devices, retries and cursors: `AtMostOnceCorrect`,
`RetryNotRejectedCorrect`, `RevokedDeviceSilentCorrect`, `HintsCommittedCorrect`,
`OwnerIsolationCorrect`, `SkippedOnlyInFlightCorrect`, `UpdatesArePullableCorrect`
and `UpdatesHiddenOnlyByLossCorrect`.

Every action is first reduced to a shape (`StepShape`): one handler locks, retries,
accepts, rejects, flushes, commits, publishes, reads a page or responds, and the
others stand still (`Alone`). The parts of the invariant are proved over shapes,
not over actions. `SyncInv` is the conjunction of

- `DevicesInv`: from the device check to the COMMIT a handler holds its device's
  row, nobody else does, and the row was registered by the request's user and is
  not revoked. A revocation therefore waits for the push, and a push that begins
  later sees it (`RevokedDeviceSilent`);
- `IdsInv`: no two change rows, committed or still in a transaction, share a
  sequence or a pair (device, operation id), and the operation that is being
  applied has no row yet. The lookup stays true until the INSERT because the
  device row is locked: two retries of one push cannot overlap;
- `HintsInv`: the sequences a push answers with are those of its own change rows,
  below the savepoint, then in the transaction, then committed;
- `OwnersInv`: what a transaction reads, caches and writes are notes of its user,
  and every committed change of a note is its owner's;
- `CursorsInv`: a change of another device up to a cursor (the page's, the one the
  client saved, the one the server stored) was sent, or had its sequence in an
  uncommitted transaction when the page was read. Sequences are handed out before
  the COMMIT, so the second case is real (finding in section 6), and the invariant
  shows that it is the only way to miss a change;
- `CheckInv`: the cursor `UpdatesAvailable` has read is the stored one or an older
  one, since stored cursors only grow (`StoredGrow`). With `CursorsInv` a change it
  announces was not seen by the client unless the stored cursor has moved since, and
  when it announces none, everything up to the stored cursor was sent or in flight.

### `NoteBatchProofs`

`BatchAtomicityCorrect`, `RejectionSnapshotFreshCorrect`, `SnapshotScheduledCorrect`
and the refinement `ImplementsNoteLogCorrect == Spec => ImplementsNoteLog`.
A request has ended in this sense (`Ended`) once it has committed, whether its
handler goes on or fails with an unknown COMMIT. `LogInv` is the conjunction of

- `BatchesInv`: operations are sorted by note (`SortedPositions`), so a note has
  one batch: rows below the savepoint are of earlier notes, rows above it of the
  batch's own (`OrderOK`); an operation of the batch that is no longer to do is in
  the log (`ProgressOK`); a rejected note has no row of this request
  (`NotesAvoided`); and a transaction takes a note it has logged operations of
  exactly one version further, whatever their number (`OneVersion`, `ResultsOK`);
- `DocumentsInv`: the document returned with a rejection is between the version
  that refused the operation and the committed one, and splits the changes of the
  note the same way by sequence and by version. It holds when the document is read
  because the note is locked, so no change of it is uncommitted elsewhere, and it
  stays because later changes have both a higher sequence and a higher version;
- `JobsInv`: a note that is due for a snapshot has a job for its version, in the
  tables and as a transaction sees it, except between an operation and the flush
  of its batch.

For the refinement, a COMMIT is one `Append` of the abstract log with the notes the
transaction logged: `OneVersion` gives the versions, `DistinctLogs` that the
entries are new. Every other step leaves versions and committed changes alone.

### `NoteReplayProofs`

`ReplayMatchesStateCorrect`, `CategoriesMatchLogCorrect` and
`NoWaitCircleCorrect`, from the same assumptions.

*Replays.* `Replay(H, start)` is a recursive function over a set of changes. What
it gives for every set cannot be proved here, and is not needed: a log grows by
one change at a time, and that change is later than all others. `Determined(H,
start, v)` says that exactly one function satisfies the recursion and that it
ends in `v`; `ReplayIs` concludes `Replay(H, start) = v`, `ReplayNothing` and
`ReplayExtends` are the empty log and a log with one more, latest change. So the
induction runs over the steps of the system. `ReplayInv` says

- of the tables: the log of every note and category replays to its rows;
- of each transaction (`TxRows`): it holds what it writes and what it logs, and
  holds a block only together with the block's note, so a COMMIT of somebody else
  does not show in the documents it holds (`KeysExclusive`);
- of each document a transaction holds: the log it sees replays to the `Draft`,
  the rows it sees with the batch's cached note and blocks laid over them. This is
  where the code could go wrong: creations and deletions are written at once,
  other edits only at the end of the batch, and both are logged immediately. The
  draft agrees with the rows after `FlushBatch` because every cached block that
  differs from its row is dirty (`BlocksCached`) and a batch without an accepted
  operation has changed nothing in its cache (`CacheFresh`);
- of each savepoint: the same without a draft, so a rejected batch goes back to
  rows and a log that agree.

*Waits.* Notes are locked in the order of their ids, the batch's own last
(`RanksOK`). `NoBlockWait`: whoever holds a block holds its note, so a handler
that has a note waits for a block only in the case `BlockIdClash`. `NoteHolder`:
the holder of a note somebody waits for, when it waits too, waits for a note with
a higher id. A handler that waits for its device holds nothing. In a set of
handlers that all wait within the set, without a clash and with at most one at a
category operation, somebody then waits for a note, and among those that do one
waits for the highest; its holder contradicts that. The highest exists also for
infinitely many handlers because only finitely many of them have begun a batch
(`BoundedInv`).

### `SnapshotWorkerProofs`

`SnapshotTypeCorrect`, `DocumentsNotBehindCorrect`, `CompletedHasSnapshotCorrect`,
`OverlapBoundedCorrect` and `CompletedIsFinalCorrect`, for any number of notes,
readers, versions and faults and any finite set of workers. `SInv` adds to the
types: a note has exactly one change per version and no sequence exceeds the
number of changes (`ChangesOK`); what a worker or reader has read by the statement
it is at is of versions the note has had (`WorkerOK`, `ReaderOK`), and a worker
about to complete has left a snapshot. `NotBehind` of a document is stable,
because a push only adds higher versions and sequences (`SeqOfChange`), and it is
established by reading the cursor last (`LastCursor`, over a maximum that exists
because it is bounded). `OverlapInv` strengthens `OverlapBounded` by the lock: a
job whose lock is not held has one worker less in hand than it may, so a claim has
room, and a late worker that completes or fails a job gives up its own place.

### `UploadsProofs`

`UploadsTypeCorrect`, `UploadsLinksOnlyVerified`, `UploadsLifecycle`,
`UploadsPendingOvershootBounded`, `UploadsCompletedHasObject` and
`UploadsAnswersHold`, for any number of ids, calls, cleaners, devices and pages and
for upload tokens of any life.

- `StatusInv`: an id is in the hands of one insertion; a call that is past its
  insertion, and a cleaner, work on rows that exist; what a listing signs was
  verified. Each action then changes rows only as `RowsEvolve` allows, which is
  `Lifecycle`.
- `ObjectInv`: a completed row has the object it describes, where the browser has
  stored at most one at its path (`stores[u] < 2`). A completion that has compared
  the object with the row still finds it so at its UPDATE (`Matching`), and a delete
  is issued only for a row that no completion can reach any more (`Doomed`): what was
  stored does not match, and an object stored later would be the second. An object
  is never replaced, so nothing else can make a stale look at it wrong.
  `ObjectEvolve` says what a step may do to an object.
- `PendingOvershootBounded` counts: rows are admitted by a count that was true when
  it was read, and each call can be past that count with one insertion only.

### `RealtimeHubProofs`

`HubTypeCorrect`, `LiveIsReachableCorrect`, `HintsNotLostCorrect`,
`OnlyOthersHintsCorrect` and `StoppedServesNobodyCorrect`, for any number of
connections, devices, users and events and every queue capacity. `HInv` consists
of the types and four parts: a device is registered with a connection of its own
and the listener drops only connections that are closed (`RegistryOK`); a write
loop runs only for a connection that is being served, the hub is closed from
`HubClose` on, and before it nothing is waiting to be closed (`LoopsOK`); the
cursor enqueue holds while it drains is at least the event's (`HintsOK`), without
which the event that triggered the drain could vanish between the last receive
and the send; and an event in the inbox or in hand was published by its origin,
and its targets are connections of that user's other devices (`OriginsOK`).

### `JwksCacheProofs`

`JwksTypeCorrect`, `CacheIsOneDocumentCorrect`, `RetiredKeyDiesCorrect` and
`MissingIsRecentCorrect`, for all TTLs, timeouts and documents. `JInv` says where
each piece of data came from: an answer on its way was served since its fetch
began (`RequestBacked`), the cached keys were served at most `FetchTimeout`
before they were stored (`CacheBacked`). The bound `Ttl + FetchTimeout` of
`RetiredKeyDies` is the sum of the two ages and cannot be smaller: a slow answer
may overwrite a newer one and is then fresh for a whole `Ttl`.

### How the invariants were found

Each inductive invariant was an invariant of a TLC run before it was proved:
`SyncInv`, `LogInv` and `ReplayInv` on the instances of the `push` and `pull`
runs, `StatusInv` and `ObjectInv` on that of `uploads`. The proof of
`NoWaitCircle` began as the claim that only categories can deadlock, which the
`push` run confirmed until the proof asked who else can hold a block; the request
set with one block id in two notes comes from there. These checks are not runs of `PROJECT.json`:
what they found is subsumed by the proofs.

### Model-checked only

Liveness under fairness: `RequestsComplete`, `Reconciled`, `ShutdownCompletes`,
`HintReachesClient`, `JobsComplete`. `NoWaitCircle`, which is about the waits
themselves, is proved.

## 8. Not modelled

- The HTTP layer (routing, body limits, timeouts, error bodies): stateless
  translation between HTTP and the services. The rate limiter both servers install
  allows every request, and the gzip middleware of `cmd/api` is commented out.
- Configuration, wiring and the development token issuer (`cmd/devauth`):
  sequential start-up code. The shutdown of `cmd/websocket` and the loop of
  `cmd/worker` are modelled.
- The object storage client's URLs, headers and error bodies; its four calls are
  modelled by what they do to the object and how they fail.
- JSON decoding and row scanning: which operations are refused is modelled, not
  how their bytes are read.
- Read-only queries whose answer is one row or one statement (`List` of devices,
  `LatestSnapshot`, `Get` of an upload).
- PostgreSQL itself: visibility, locks and unique-index waits are marked external;
  its deadlock detector is the `Abort` of one request.
- Sequences wider than the bounds: identity columns are 64-bit and do not wrap
  within the life of the system.
