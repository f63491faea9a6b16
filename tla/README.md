# Mochi Table in TLA+

Mochi Table is a local-first table workspace: a Nest backend, or any Node program,
opens a *workspace database* (one SQLite file) through `packages/mochi-sqlite`, and a
grid in the browser edits it over HTTP. It is a fork of Teable. The code this
development models is the local stack that replaced Teable's server,
`packages/mochi-sqlite` and `apps/nestjs-backend/src/features/mochi-sqlite`, and, of the
Postgres stack that is still in the repository, its one distributed protocol: the queue
that keeps computed fields up to date
(`packages/v2/adapter-table-repository-postgres/src/record/computed`, called *v2 computed* below, and
`apps/nestjs-backend/src/features/v2/computed-outbox-trigger`). Line
numbers are those of `packages/mochi-sqlite/src/repository.mjs` unless another
file is named.

Everything in the directory is plain TLA+. `tlc -config X.cfg MCX.tla` runs a check,
`tlapm XProofs.tla` checks the proofs of a component.

## 1. The system

| Component | State | Operations | Talks to |
|---|---|---|---|
| **Repository: records** (`repository.mjs` 1100-1214, 1631-2209, 2555-2670) | `mochi_record`, `mochi_record_fts`, `mochi_op_batch`, `mochi_op`, `mochi_trash`, `mochi_comment`, `mochi_record_history` | create, update, delete, restore, rebuild index, resolve formulas / lookups, duplicate / purge table, undo, redo, comments | sqlite3 adapter |
| **Repository: fields and views** (1216-1629) | `mochi_field`, `mochi_view.column_meta`, cells of records, the same op log | create, update (with conversion and select cleanup), delete; views | sqlite3 adapter |
| **sqlite3 adapter** (`sqlite-cli.mjs`) | none of its own; one process per statement list | `run`, `transaction`, `all`, `get` | the `sqlite3` shell, the file |
| **Computed job queue** (2493-2553) | `mochi_computed_job` | enqueue, claim, complete, fail; purged with its table | clients of the API as workers |
| **Workspace watch** (`mochi-local-workspace-watch.service.ts`) | snapshots, debounce timer, retry count | poll the file, refresh, announce, shut down | `fs.watchFile`, repository, realtime |
| **Mochi Kit sync** (810-968) | collections of another program in the same file | copied over tables at every list call | every reader |
| **Imports** (2277-2491) | none | series of create calls | repository |
| **Queries** (search, filter, sort, groups) | none | pure functions of rows and index | repository |
| **Formula language** | none | tokenizer, parser, evaluator | resolveFormulas |
| **Attachments** | files and rows | upload, read | file system |
| **Service and REST controllers** | none | pass calls on, then publish an action trigger | repository, realtime |
| **Realtime** (ShareDB adapter, triggers, WebSocket gateway) | documents projected from rows | snapshots, ops, presence | browser |
| **Runtime launcher**, **frontend entry**, **verifier scripts** | a child process; none; none | start, route, check | backend |
| **Computed outbox and worker** (v2 computed: `outbox/ComputedUpdateOutbox.ts`, `worker/ComputedUpdateWorker.ts`, `ComputedUpdateLock.ts`) | `computed_update_outbox`, `computed_update_outbox_seed`, `computed_update_dead_letter`, leases, advisory locks | enqueue or merge, claim by id and in batches, heartbeat, split, commit, release, fail, replay | users' transactions, Postgres, wake-ups |
| **Wake-ups** (`computed-outbox-trigger`: publisher, handler, redrive) | BullMQ jobs, publications owed, the recovery probe, the redrive of a process and its retry, pauses | publish after commit, handle, retry, redrive at startup / on recovery / every five minutes | Redis (BullMQ), the outbox |
| **Legacy Teable**, rest of v2 | Postgres product | being removed (`docs/backend-legacy-cleanup.md`) | nothing here |

How they interact. The repository is synchronous: `SqliteCli` uses `spawnSync`, so within
one backend a repository call never interleaves with another one. Concurrency comes from
three places: *several programs on one file* (a second backend, an agent, a script: the
README invites agents to write the file), *several sqlite3 processes per repository call*
(reads and writes are separate processes, so another program can step in between), and
*timers and file events* in the watch service.

The computed pipeline is distributed by design. A user's transaction changes records, computes
what it can under advisory locks, and enqueues the rest in the same transaction. Workers, in
any number of processes, claim rows under a lease that a heartbeat renews, recompute in a
transaction that takes try-locks, enqueue the next stage and delete their row, all in that
transaction. A row is durable; that a worker hears of it is not: a wake-up is a BullMQ job published after the
commit, and what restores lost ones is the redrive. So `ComputedOutbox` relies on
`OutboxWakeups` for its one strong fairness assumption (a row that can be claimed again and again is
claimed), and `OutboxWakeups` treats what a worker does with a row as one step.

What is hard in it, and which property answers it (PROJECT.json lists every hazard with
its line):

* **One change, many tables.** Each record call has to keep row, index, log, trash,
  comments and history together by hand; calls do not test `deleted_time`
  consistently. -> `IndexCurrent`, `DeletedRecoverable`.
* **Undo and redo by images.** An op restores whole rows, a whole field and the
  `columnMeta` of all views; a new edit does not clear the redo list; batches outlive
  their ops. -> `WalksEditHistory`, `WalksFieldHistory`, `DeletedFieldRecoverable`,
  `PrimaryActive`.
* **Conversions** read rows twice before one write. -> `CellsFitType`,
  `ConversionKeepsChoices`.
* **Transactions through a pipe.** No `.bail`, no busy timeout: after a failed `BEGIN` the
  rest of the transaction runs outside one. -> `CallsAreAtomic`, `OwnCallsNeverContend`.
* **Claims in two processes**, answers nobody checks. -> `ExclusiveClaim`, `NoOvertaking`, `ReopenedByRaceOnly`.
* **Watching one's own file**, other programs writing during a refresh, retries that
  compete with events. -> `NoSilentRefresh`, `ChangesAreTold`, `Settles`.
* **Merging into a task while a worker claims, releases or finishes it**; seeds kept in the row or
  spilled to a table of their own. -> `HeldAsStored`, `OnlySpilledForgotten`, `SeedsKept`, `NoLostWork`.
* **Workers that lost their lease** (stalled, crashed, taken over) and commit all the same, with
  what they read before; small sets locked record by record, large ones shard by shard. -> `ImplementsCells`,
  `LeaseHonoured`, `NoLostWork`.
* **Splitting in several transactions**, retries, dead letters and their replay. -> `NoLostWork`,
  `EventuallyComputed`.
* **Wake-ups are hints**: process dead before publishing, broker away, publication that times out and arrives,
  attempts used up, redrive asked for during a redrive, rows under a pause. -> `Located`,
  `EventuallyRun`, `ParkedQuiet`.

## 2. Modules

```
AtomicCalls <--refines-- SqliteCli            SqliteCliProofs
EditHistory <--refines-- UndoableEditing  (EXTENDS RecordStore)   RecordStoreProofs  <-- EditLine
EditHistory <--refines-- FieldEditing     (EXTENDS FieldStore)    FieldStoreProofs   <-- EditLine
                         ComputedJobs         ComputedJobsProofs
                         WorkspaceWatch       WorkspaceWatchProofs
ComputedCells <--refines-- ComputedOutbox     ComputedOutboxProofs
                         OutboxWakeups        OutboxWakeupsProofs
```

The `MC*` modules give the constants values; every component's module can be proved about as it
stands (parameters are CONSTANTS with a named ASSUME, and there is no RECURSIVE operator).
Operators named as *mutant* in a comment stand before the operator they vary and are used
by no specification: each is a plausible bug in the code, and PROJECT.json pairs it with the property that
finds it.

**RecordStore.** One action per repository call, with all that its transaction writes.
`status` and `fields` are the row (`deleted_time` and `fields_json`), `fts` the indexed
content, `trash` the snapshots, `batches`/`undone` the log: a batch maps the records it
touched to the before and after image of their op. Formulas and lookups are constant
operators (`Resolve`, `LookUp`), so the module says what a run writes, whatever it
computes. A lookup run takes the table and, on request, the id of a record, which nothing compares: the index row of a record
of another table is `Astray` from then on, filed where no search of its own table finds it. Two liberties: the ops of a batch are a function from records, since no caller
writes two ops on one record in a batch; and `DuplicateTable` is one step though the code writes
the copies one after the other under one batch id, which concerns partial failure only (plan, item 3).
`purged` are the tables whose row is gone: they are neither deleted nor copied again, but records can still be
created in them, since the foreign keys of `schema.sql` are on only in the process that creates the schema.
Calls with an unknown id that change nothing are left out.

**EditHistory** is what an editor expects of undo and redo: versions on a line and a
cursor. **UndoableEditing** drives RecordStore as an editor who uses logged calls on live
records and does not redo past a newer edit, and refines it. Both habits are needed: trash
restore, formula runs and permanent delete write no op, an update of a deleted record
shows nothing but its undo revives the record, and redo after a newer edit writes
an old image over new cells. The backend enforces none of them. `versions`, `line` and
`cursor` are history variables: they constrain no step of the store.

**FieldStore.** Fields, the cells of live records, `columnMeta` of views, the log. A field op carries
the image `fieldSnapshot` takes: the field, the whole rows that have a cell of it, the
views' `columnMeta`. Kept field types are text and the two selects: conversions between
them wrap, join, clear or drop cells, which covers the ways a conversion can lose
data. Texts are told apart only as a choice, another text, and `''`; a list is the set of its
members. `LogFieldOp` may leave the op out: it is a second transaction (1298), so the process
may die in between. `unlogged`, a history variable, remembers those fields. **FieldEditing** is the editor's view of it.

**SqliteCli.** A call is a `sqlite3` process that reads its statements one by one:
`Begin`, `Execute`/`Fail` per statement, `Commit`, `Exit`; `Kill` at any moment. `Spawn`
has the `spawnSync` condition: a program with a running process makes no other call. The
database is one `writer` per cell, i.e. which call wrote it last, which is all that atomicity
asks. The shell itself is external code: how it treats errors is modelled from the way it is started.
**AtomicCalls**: a transaction that returns made all its changes in one step; a plain `run()` of several statements (`init`
sends some) made each statement's change in one step, in their order; a call that throws promises nothing.

**ComputedJobs.** A claim is `SelectOldest` and `UpdateClaimed`, as the two processes are.
`Free(b)` says that a backend serves no request between the two. `Finish` is as lenient as the code: whoever asks gives
any job an outcome, once or again, whether it is pending, running or answered. Workers, backends and
tables may go at any time. `taken` and `answeredAt` are history variables: which backends handed a job out, and which took its last answer.

**WorkspaceWatch.** A refresh is `TimerFires`, one `ReadTable` per listed table, then
`RefreshDone` or `RefreshFails`; between any two of them another program may write, but no
timer or file event of the backend is served (a refresh is one turn of its event loop).
Rows are fingerprints. `told` (what the grids of a table last heard) and `mishap` (a refresh
was given up, or failed after it announced something) are history variables.

**ComputedOutbox.** A base is a chain of stages; the cells of stage s are computed from those of
stage s - 1, the first from the source field. A value is abstracted to the *version of the source it shows*,
which is what "stale" means. `outbox` are the rows (their seeds, whether they are spilled, attempts, owner;
`fresh` stands for `locked_at` within `processingLeaseMs`), `dead` the dead letters, `hold` and `job` what an execution
of `runOnce` or `runTaskById` has claimed and how far it is. Actions follow the transactions of the code:

| Action | Code |
|---|---|
| `Change` | a user's transaction: records, stages recomputed under locks, `enqueueOrMerge` of the rest |
| `ClaimById`, `ClaimBatch`, `TakeOver` | `claimById` (with `getClaimDeferral`), `claimBatch`, `claimById` with `allowProcessingTakeover` |
| `Start`, `SkipLost` | `ensureTaskActive` finds the lease held, or lost |
| `EnqueueChunk`, `FinishSplit` | splitting: each chunk in its own transaction, then `markDone` |
| `TryLocks`, `Commit` | the worker's transaction: try-locks and reads when it opens; cells, next stage and `markDone` when it commits |
| `Release`, `Fail` | `releaseForRetry` (a lock was taken), `markFailed` (retry or dead letter) |
| `Heartbeat`, `LeaseExpires`, `Stall`, `Crash` | renewal, expiry, a live worker too slow for its lease, a dead process |
| `Replay` | a dead letter taken back |

Between `TryLocks` and `Commit` other transactions run: the reads are taken at the first
and written at the second. `Commit` writes its cells also when `markDone` finds the row gone or owned by another, as the code
does. A set of at most `RecordLockLimit` records is locked record by record, a larger one shard by shard (`LockKind`; the table lock of `batchShardCount` 0 is a single shard); the
keys of the two kinds never meet, so `LocksFree` lets them pass each other, as the code does.
`crossed` and `forgotten` are history variables: the records, with the input they then had, that two transactions
handled at once under locks of different kinds (`Crossing`), and those that a merge of a seed task dropped with the rows they
were spilled to (`Dropped`). No guard reads them. `NoLostWork` excepts a cell only while its
input is the one that `Slipped`: the next change of it counts in full again.
**ComputedCells** is what a reader of the table is promised: an edit makes a
new version, and apart from that a cell only moves forward, to a version its input has had; a record that was crossed may
show anything older, there and at the stages after.

**OutboxWakeups.** `row` is the life of an outbox row as far as a claim sees it; `queue` the
jobs in the broker, `owed` what `afterCommit` hooks are still to publish, `probe` the recovery probe of
the publisher (while it runs, publications of that process fail at once), `at` the handler, `run` the redrive and the request kept
for after it, `retry` what scans again for a redrive whose scan failed. `Publish` is the publisher with its outcomes: accepted,
refused, and *reported as failed yet accepted* (a command that timed out). `Republish` is the same for jobs named after the row, as
redrives and deferrals name them: one the broker still keeps is accepted and adds nothing. (A redrive whose page is older than the run
of its row meets a name that is kept during that run; the row is then held, done, or owed a publication, so this is left out.)
Broker and job attempts are external code, modelled from the options they are given. A redrive fails in two ways: at its lease
or target query it is forgotten (`Dropped`), in a scan it leaves the target to a retry (`ScanFails`), which waits and scans until a scan
succeeds and does not hear a full redrive that asks for it during that scan (`RetryEnds`).
`timer` is a history variable: the rows that the code leaves to its five-minute timer, because a scan left them out under a pause,
the broker lost their job, or a full redrive that was all they had was forgotten or not heard. `Located` would be trivial if
it included anything else; `EventuallyRun` is what the timer makes of them. `scheduleWakeup` also has a branch for transactions
without an `afterCommit` hook; the one transaction class there is, `PostgresUnitOfWorkTransaction`, has the hook, and
`NoopUnitOfWork` opens no transaction.

## 3. Runs

| Run | Shows | Instance and bounds |
|---|---|---|
| `record_store` | `IndexCurrent`, `DeletedRecoverable` under all record calls | 2 records, 1 copy, 1 field, 2 values, `MaxBatches` 3, `MaxCommented` 1; 1,030,420 states |
| `undoable_editing` | the log implements `EditHistory` (`WalksEditHistory`) | 2 records, 1 copy, `MaxBatches` 4, `MaxCommented` 1 |
| `field_store` | `DeletedFieldRecoverable`, `PrimaryActive`, with processes that die before the op | 2 fields, 1 record, 1 view, 2 types, `MaxBatches` 2, `MaxUnlogged` 1 |
| `field_editing` | `WalksFieldHistory`, `CellsFitType` | 2 fields, 1 record, 3 types, `MaxBatches` 4 |
| `sqlite_cli` | `CallsAreAtomic`, `OwnCallsNeverContend` | 2 programs, 3 transactions of 2-3 statements and a plain run of 2 on 3 cells; 282,759 states |
| `computed_jobs` | `ExclusiveClaim`, `NoOvertaking`, `ReopenedByRaceOnly` | 2 jobs, 2 workers behind one backend and 1 behind another, 3 instants; 61,369 states |
| `workspace_watch` | `NoSilentRefresh`, `ChangesAreTold`, `Settles` | 2 tables, 2 contents, 3 outside writes, 5 retries (the code's number) |
| `computed_outbox` | `NoLostWork`, `HeldAsStored`, `ImplementsCells`, `OnlySpilledForgotten`, `LeaseHonoured` | 2 records (one changes twice), 2 stages, seed tasks at the first, 2 workers, 4 rows, `MaxFaults` 1, 2 attempts, inline limit 1, `RecordLockLimit` 1, no splitting; 177,131 states |
| `outbox_retries` | `EventuallyComputed` under fairness, `NoLostWork` with splitting | 2 records, 1 stage, chunks of one record, 2 workers, 5 rows, `MaxFaults` 2, 2 attempts; 107,988 states |
| `outbox_wakeups` | `Located`, `EventuallyRun`, `ParkedQuiet` under fairness | 1 process; 2 rows and one fault, or 1 row, 2 faults and a pause at the start (`MCSpec`); 2 job attempts; 142,915 states |
| `field_conversion`, `outbox_seed_merge` | counterexamples, section 5 | as above, smaller |

Why the bounds are enough. `MaxBatches` counts rows ever written to the log, while undo, redo and
the unlogged calls go on without bound: three batches allow an edit, an edit of the same
record, and an edit after an undo, which is the least that separates the newest batch from the
newest undone one. `UndoableEditing` and `FieldEditing` get four for longer lines of versions. `MaxCommented` and
`MaxUnlogged` bound sets whose members do not interact. Two records are one that a call
names and one it must leave alone; the copy is for duplicating the table while one of them is live
(a batch of two copies would be two independent ops). The
formula and the lookup of the instance change some rows and leave others. One view and
one record suffice for `FieldStore` because the code treats each view and row by itself.
In `SqliteCli` the statement lists overlap in opposite orders, so that a torn transaction shows.
Three jobs at three instants have ties and a strict order. `MaxWrites` 3 allows
a change before, during and after a refresh. `MaxFaults` counts failures, crashes, stalls, takeovers and replays together (in `OutboxWakeups` crashes, outages, slow
publications, database errors, failed runs, failed scans, lost jobs and pauses; only a retry may fail without end); everything else, lease expiry, lock
conflicts, restarts, merges and the end of a pause among it, is unlimited. One fault at any moment of any
interleaving suffices for each hazard listed, since a crash or a stall already makes two workers meet on one item; `outbox_retries` has two, so that a
retry fails too and the attempts run out. `Changeable` and `TaskId` bound the users' changes and the rows at one time:
a step that finds no id waits for one. The inline limit of 1 makes a seed set of two records spill, and `RecordLockLimit` 1 makes it take a batch lock where one record takes a record lock. Two stages have a
stage that is input and one that is not; stages beyond repeat the second. In `OutboxWakeups` a page holds all
candidates, and equal jobs (same row, same attempts left) count once, since handling one twice only repeats it.
Also checked, and too slow to repeat each time: `computed_outbox` with both records changing twice (2.97 million states); of `OutboxWakeups`, one row with four faults and two rows with two (safety; 628,000 and 3.16 million
states), and two processes, where a redrive finds the lease busy, with one row and one fault (safety and liveness, 438,000 states)
or two faults (safety, 8.3 million).
Symmetry is used in `record_store`, `computed_jobs` and `computed_outbox`
only, for invariants and action properties, over model values the definitions treat alike
(records of a table, jobs, workers), never where liveness is checked.
`CHECK_DEADLOCK` is off because all these systems may really stop: the logs
fill up to their bounds, calls are all made, the queue runs empty, the service is shut down.

Fairness is assumed in three modules. `WorkspaceWatch`: `HandleFileChange`, as `fs.watchFile` polls
for ever. `TimerFires`: `setTimeout`. `RefreshStep`: a refresh is a synchronous function
that returns or throws. All are weak; that list calls succeed is *not* assumed, nor that
other programs write. `ChangesAreTold` therefore excepts a refresh that was given up, which
the code accepts (it waits for the next change of the file).
`ComputedOutbox`: an item that was started goes on, the heartbeat is a timer, a lease nobody renews expires (all weak),
and a row that is claimable again and again is claimed (strong: other rows may use up the concurrency limits in between;
`EventuallyRun` of `OutboxWakeups` is what justifies it). `OutboxWakeups`: handlers, redrives, hooks,
timers and restarts go on, the broker comes back, a pause with an end ends (weak); a job in the queue is delivered
though the broker goes away again and again, and a probe succeeds though it does (strong). That publications succeed, that processes
live, or that an operator resumes a base, is not assumed.

## 4. Proofs

All eight proof modules are checked by tlapm to the last leaf; they hold for every value of
the constants that meets the named ASSUMEs: any number of tables, records, values, calls,
programs, workers, retries, stages, faults. What some theorems assume beyond that is said with them.

* **EditLine** knows nothing of tables. `Walk(n, u, l, c)`: a log of n batches, those in u undone in that order, stands
  at cursor c of a line l of batches that ends with the newest one; what is applied is the line up to the cursor, and what redo
  reaches first is the line from the cursor on. `Leads(l, vs, D, T)`: each batch of the line leads from one version to the next, as
  the triples T of the log say. The lemmas: an edit, an undo of the newest applied batch and a redo of the last undone one (where
  nothing newer is applied) move along. Both editors' refinements take the argument from here.
* **RecordStoreProofs**: `TypeCorrect`, `IndexFollowsRows`, `DeletionIsRecoverable`, and of the editor `EditHistoryWalked`.
  Inductive invariant: the properties and `Kept` (rows hold
  cells, so a formula applies), `LogOfRows` (no op names a row that is gone,
  so undo finds what it restores; `permanentDeleteTable` keeps this by taking ops along), `UndoneOnce` (redoing
  a batch leaves no second mark of it). `DeletedRecoverable` is not inductive without
  the last two: undo of the newest batch puts it in redo's reach, and one has to know that the batch that deleted
  a record stays in the log and on one side. Every call is a `LoggedCall` or an `UnloggedCall` (lemmas), or treated by itself
  (undo, redo, permanent delete).
  `EditHistoryWalked` is the refinement of `EditHistory`. Its invariant `UInv` says that the log walks the line (`Walk`), that the version before
  a batch and the one after it differ as its images say (`Leads` with `StepsOf(batches)`), and that the grid is the version at the cursor. The
  refinement alone is not inductive: undo has to show the *previous* version, and nothing but the images in the log knows it. Each of the four
  kinds of edit is shown to write a batch that says what it does to the grid (`Makes`): where a before image is not what the grid showed
  (the before image of an update of a deleted record), this step fails, which is why the editor leaves such calls alone.
* **SqliteCliProofs**: `TypeCorrect`, `NoOwnContention`, and `Atomicity`, the refinement of
  `AtomicCalls`. Invariant: where a process is in its input (`Position`), the lock holder is
  a transaction between BEGIN and COMMIT (`Holder`), a transaction without an error holds the lock and all it has read is
  uncommitted (`Unbroken`), and a program has one process at a time (`OneAtATime`). Every step is shown to be
  a step of `AtomicCalls` or a stutter: COMMIT is `Apply`, as is a statement outside a transaction, an error is `GiveUp`, a write after it `Tear`.
* **ComputedJobsProofs**: `OldestFirst`, `JobsAreClaimedOnce` and `OutcomesReopenByRaceOnly`, all for any number of backends.
  `ChosenOldest` carries the order: a chosen job stays at least
  as old as what is pending, because new jobs are younger and nothing becomes pending
  again (`PendingUnclaimed`). The other two rest on what one event loop guarantees (`OneClaimPerBackend`): what a backend is about to hand
  out it has not handed out before (`ClaimIsNew`), and an answer that comes during a claim came to another backend
  (`AnsweredElsewhere`). Nothing is assumed of who answers.
* **WorkspaceWatchProofs**: `ChangesAreNeverSilent`. `SilentAtStart`: once there are
  snapshots, neither a timer nor a refresh is silent, which needs that a
  silent refresh is never scheduled once one has succeeded; `ReadIsTold` carries it through a refresh that others write into.
* **FieldStoreProofs**: `FieldsTyped`, `DeletedFieldsRecoverable`, `PrimaryNeverLost`, and of the editor `EditorInvariance`,
  `FieldHistoryWalked`, `CellsAlwaysFit`.
  Invariant: the images in the log fit the rows they restore; undo and redo of a batch write the same
  fields and delete no primary one (`Agrees`); `UndoneOnce`; a shown view has a `columnMeta` (`ViewsHaveMeta`), so a snapshot
  fits. Undo and redo share one lemma, `Restored`: it is enough that the batch moved to the other side is the
  witness for the fields it deletes, and no witness for the fields it does not write.
  `FieldHistoryWalked` follows the same line as `EditHistoryWalked`, with `EInv`. What is new: the image of a field op holds the rows that had a cell of
  the field and no others, so restoring it must leave the other rows right. That holds because every version has cells only where a field is shown
  and of its type (`Grid`), and a conversion or a cleanup leaves a row without a cell without one (`UpdatedFits`): a row missing in
  one image of an update is missing in both and unchanged. So `CellsAlwaysFit` is a part of the same induction and could not be had apart from it: an
  undo writes back cells that fit only if the versions it returns to were fit. Two conjuncts of `FieldStoreAssumption` serve this proof: a list is
  no text or null, and a row without a cell differs from one with a cell. Both are what `JSON.parse` and the `in` test on a row tell apart; a model
  value for either would otherwise be free to coincide.
* **ComputedOutboxProofs**: `OutboxTyped`, `HeldItemsAsStored`, `LeasesHonoured`, `SeedsNeverForgotten`.
  `BaseInv` ties workers to rows: who is at an item holds it (`AtHeldItem`), the chunks of a worker that splits are
  those of its item (`ChunksOfItem`), and what it holds and owns is what the row says. `SeedsNeverForgotten` is
  `OnlySpilledForgotten`.
  In its second part, `OutboxImplementsCells` is the refinement of `ComputedCells`, and there is `NoWorkLost`. Neither assumes
  anything of the lock limit, the shards or the stages with seed tasks: the code's own setting, tasks above and
  below `maxRecordLocks`, is among what they cover. Two transactions that handle one record at one stage either have a key
  in common, so the second waits, or are locked in two ways, so the record is crossed (`RunningApart`, `FreeOrCrossing`). Hence no other
  worker, and no user's transaction that recomputes the stage, writes the cells a running worker has read for, but
  for crossed ones; there the invariant keeps only that reads and cells are of versions the source has had. `NoLostWork` is not inductive: its
  strengthening `WorkInv` says who answers for a cell that is behind, *not counting* a row whose record its splitting worker has already handed on to a
  chunk or that a running worker is about to delete with a value it has read (`Free`), and that whatever came after
  the reads of a running worker is named by another row (`ReadsCovered`), so that its
  `markDone` takes away only what it has brought up to date; each of these may instead have slipped, and a record that slips is
  marked in the step that loses it (`DroppedSlips`, `MarkedCrossed`). `NothingSlips`: with one kind of lock and no seed tasks
  both sets stay empty, so nothing else hides behind the exceptions. `WorkInv` was model-checked on the instances of the runs
  before it was proved; without `Slipped` TLC refutes `NoLostWork`, and without `CrossedUpTo` the refinement.
* **OutboxWakeupsProofs**: `WakeupsTyped`, `RowsAreLocated`. The invariant says what each way to a row leads to, for instance
  that a request during a redrive outlives it, that a scan which fails puts every row ahead of the retry, and that only dead processes
lose what they owe, which their restart makes up for by a full redrive. A step that may take away a row's last way (`Dropped`, `RetryEnds`) hands
exactly these rows to the timer (`LeftBehindLocates`).

Model-checked only: `ChangesAreTold`, `Settles`, `EventuallyComputed`, `EventuallyRun`, `ParkedQuiet` (liveness under
fairness is out of the prover's reach); every invariant, action property and refinement of the passing runs has its theorem. `UInv` and `EInv`
were checked by TLC on the instances of `undoable_editing` and `field_editing` (with `MaxBatches` 3) before they were proved. Not provable here: ENABLED, induction
over data, and anything about RECURSIVE operators; none of the modules has one.

## 5. Where code and claims part

Two are runs that TLC ends with a counterexample.

* `field_conversion`: one `updateField` call that changes type and choices (what the convert route sends) loses
  the converted values: the cleanup of the select sanitizes the *old* value and writes last.
* `outbox_seed_merge`: `mergeSeedTask` (v2 computed, `ComputedUpdateOutbox.ts` 1780-1823) starts from the seeds in the
  outbox row alone. Where they were spilled to `computed_update_outbox_seed`, a small merge deletes them and writes
  only its own: the forgotten records stay behind with no task naming them. `mergeComputedTask` loads the stored ones.

The following was read in the code and is modelled as it is; no run is spent on it.

* History rows of deleted records, which docs and integrity script exclude: `deleteRecord` and undo of a create leave
  them, updates of deleted records add some.
* `resolveLookupRollup(tableId, {recordId})` does not check that the record is of the table (1880), as `resolveFormulas` does (1940): the
  record gets that table's lookups and its index row is filed under that table (1923), so its own table's search does not find it
  until it is indexed again. `IndexCurrent` excepts exactly this (`Astray`).
* Live comments without a live record, which the script excludes: `createComment` does not look the record up, and undo
  of a create leaves comments.
* `columnMeta` of deleted fields in active views, which docs and script exclude: undo of a field create leaves it
  in views made since.
* With Mochi Kit collections in the workspace every list call writes the watched file, so a refresh
  causes the next one for ever (`Settles` is checked without them).
* `markFailed` does not look for a pending task of its key (`releaseForRetry` does): the unique index refuses the update, the
  row stays in processing till its lease expires, and the attempt is not counted. With failures unbounded the task and its
  twin can go round for ever.
* Record locks and batch locks do not exclude each other: a task above `maxRecordLocks` and one below it
  compute the same cell at once, and the slower may write the older value after the newer one's row is done and gone. The
  cell stays so until its input changes again; `crossed` keeps exactly these.
* An answer about a computed job replaces an earlier answer, and a job may be answered before anyone claimed it:
  `completeComputedJob` and `failComputedJob` test nothing. Two backends may both hand a job out, each once.
* A takeover of an expired lease counts no attempt: a task that kills its worker never becomes a dead letter.
* A crash while splitting repeats the chunks already enqueued (they merge while pending), which costs work and
  loses none.

## 6. Plan

Done, in this order: RecordStore and its proofs; UndoableEditing; SqliteCli and its
refinement; ComputedJobs; WorkspaceWatch; FieldStore and FieldEditing; ComputedCells, ComputedOutbox and its proofs;
OutboxWakeups and its proofs; FieldStoreProofs; EditLine and the proofs of both editors. To come, the most important first:

1. **RecordWriters**: two programs on one file, each call split into its read processes and its
   write transaction (updateRecord 1751, `MAX(auto_number)` 1702, rebuildSearchIndex 2173, `assertUniqueValues`
   in the REST controller). Wanted: what a single writer keeps (`IndexCurrent`, images that fit) and what two can lose.
2. **MochiKitSync**: collections over tables at every list call; deleted records that come
   back, fields that go; idempotence of a sync without outside changes.
3. **Imports**: import and duplicateTable as series of `SqliteCli` calls, any of which fails: what is left, and
   what undo makes of it.
4. **Realtime**: snapshot versions from `last_modified_time`, projected ops, action triggers; does a grid end up with the rows.
5. **FormulaLanguage**: the evaluator's operators (recursive functions, in a module without theorems if they
   need RECURSIVE) against a reference over bounded expressions; filters, sorts and group points likewise.
6. **AttachmentFiles**: file before row on upload, row before file on delete.
7. ComputedOutbox with targets of several seeds (their locks and merges), and with `OutboxWakeups` composed in.
8. Proofs: what items 1 and 2 promise, when they are modelled; the safety facts the liveness properties rest on, where they can be
   stated without fairness.

## 7. Not modelled

View filters, sorts and groups, table names and icons: single columns that nothing else
depends on. `updateComment`: content only. Order cells (`order_json`) go with `fields_json` everywhere and are part of `fields`.
Field types other than text and selects. Reads, except where they write. The launcher, the
frontend entry and the verifier scripts hold no state worth a model; the scripts are a source of properties.
Of the computed pipeline: field backfill tasks, `seedAll` tables, targets with several seeds, tasks whose table is gone,
`MAX_STAGE_DEPTH` (deeper stages are dropped, a limit of the planner), several data databases, the monitor and the anomaly service (operator tools).
In `ComputedOutbox` pauses and `next_run_at` only delay a claim, which may come late anyhow; they are in `OutboxWakeups`.
The rest of the legacy Teable and v2 packages, by far most of the repository, is a product on another database that
`docs/backend-legacy-cleanup.md` takes out: CRUD commands, query builders, migrations between schemas, UI and generated code. Clock resolution: batches
of the log are in the order they were written, though the code sorts by `created_time` in milliseconds; within one backend every call
takes at least one process start, and the log of two backends belongs to item 1. For the same reason `ComputedJobs`
takes the clock never to go back (several jobs may share an instant).
