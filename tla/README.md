# Verification of the telemetry ledger

Devices upload signed, hash-chained events. API instances (Node.js) accept them in
any order, a worker compacts old ones into signed checkpoints, and administrators
rotate keys and decide conflicts. PostgreSQL is the only state the processes share.
This directory models that service in TLA+, checks the models with TLC on small
instances and proves the main invariants with TLAPS. Paths of the code below are
relative to the directory of the program code, `src/` in the repository, unless
they begin with `migrations/`.

## Inventory

| Part | State | Operations | Interacts with | What is hard |
|---|---|---|---|---|
| Device ledger (`services/devices.mjs`, `ingest.mjs`, `conflicts.mjs`, `migrations/0002_advance.sql`) | `devices`, `device_keys`, `event_records`, `conflicts` | register, ingest, rotate, list conflicts, adjudicate; inside them `reconcile_conflict` and `try_advance` | every transaction locks the `devices` row; ends in `pg_notify` | events out of order, diverging branches, decisions that become stale, key boundaries |
| Compaction (`services/compaction.mjs`) | `checkpoints`, deletes of `event_records`, `read_views` | policy pass, manual cutoff, purge of views | advisory lock, row lock, the floor of the read views | rows that other transactions read may be gone; checkpoint and deletion must agree |
| Admin commands (`services/idempotency.mjs`, `db/pool.mjs`) | `admin_commands`, connections | look up, execute, reserve, commit, replay | wraps rotate, adjudicate, compact on every instance | twins on two instances, lost answers, crashes, an exhausted pool |
| Ingest requests (`services/ingest.mjs`) | `ingest_requests` | look up under the row lock, insert, replay | ingest | one requestId on two devices, retries after a key changed |
| Fixed-view reads (`services/reads.mjs`, `crypto/checkpoint.mjs`) | `read_views`, signed cursors | open a view, read a page, recover | compaction's floor, expiry by the clock | a page is three queries without a transaction |
| Long-poll (`services/reads.mjs`) | a LISTENing connection, a timer | wait, wake up, time out, abort | `pg_notify` in `try_advance`, the pool | lost wakeups, waiters that hold the pool |
| HTTP server (`http/server.mjs`) | none | routes, bodies, replies | all services | nothing of its own |
| Processes (`bin/api.js`, `bin/worker.js`, `db/migrate.mjs`) | `schema_migrations`, a session lock, timers | start, migrate, work, shut down | pool, database, orchestrator | crashes between migrations, a lock that outlives a transaction, shutdown against work in flight, unref'd timers |
| Canonical JSON (`crypto/canonical.js`) | none | canonicalise | digests, signatures, request hashes, cursors | two values with the same bytes, one value with two encodings |
| Envelopes, keys, checkpoint signatures (`crypto/`) | none | digest, sign, verify | ingest, compaction, cursors | |
| Validation, errors, config, logging | none | | | |

What makes each part correct: the **ledger** keeps one gapless hash chain, reports every
divergence and never lets a candidate wait unreported; **compaction** never loses or
rewrites what it covers and never takes what an open view can read; an **admin command** and
an **ingest request** take effect once and answer all their callers alike; a
**page** never skips an event silently; a **waiter** never sleeps over an event that
committed; a **process** serves nothing before the schema is complete, always works again and
stops when told to; the **bytes** of two JSON values agree exactly when the values do.

## Modules

| Module | What it is |
|---|---|
| `DeviceLedger` | all tables of one device; one action per transaction; its properties |
| `PromotionLoop` | the transactions of `DeviceLedger` that promote, with the loop of `try_advance` one turn at a time; implements `DeviceLedger` |
| `ConflictReview` | `DeviceLedger` with an administrator who lists a conflict in two queries before deciding it |
| `AuditLog` | the abstract log a reader of one device relies on: extended at its end, cut at an anchor |
| `PinnedLog` | an `AuditLog` with checkpoints and the pins of fixed views, above which it is never cut |
| `AdminCommands` | the idempotent command wrapper, one action per SQL statement, on several instances; implements `Idempotency` |
| `Idempotency` | the abstract promise to a client that sends a request under an id of its choice, to any instance, any number of times |
| `IngestRequests` | `ingestBatch`, one action per statement, on several devices and instances; implements `Idempotency` |
| `PageReader` | `readPage`, one action per query, over a `PinnedLog` |
| `WaitNotify` | `waitForEvents`, notifications, the pool and uploads, over an `AuditLog` |
| `Lifecycle` | processes and the database: boot, migrations, work, signals, crashes |
| `Canonical` | the canonical bytes of a JSON value, and their use to recognise one |
| `DeviceLedgerClaims`, `PageReaderClaims`, `WaitNotifyClaims` | statements of comments that the code does not satisfy |
| `DeviceLedgerProofs`, `ConflictProofs`, `AdminCommandsProofs`, `IngestRequestsProofs`, `AuditLogProofs`, `PageReaderProofs`, `WaitNotifyProofs`, `LifecycleProofs` | theorems, checked by TLAPS |
| `MCDeviceLedger`, `MCPromotionLoop`, `MCConflictReview` with `MCEnvelopes`; `MCAdminCommands`; `MCIngestRequests`; `MCPageReader`, `MCWaitNotify` with `MCReaders`; `MCLifecycle`; `MCCanonical` | their small instances for TLC |

The modules are joined by refinements, each checked and proved:

    PromotionLoop => DeviceLedger => PinnedLog => AuditLog
                                        |            |
                                    PageReader   WaitNotify

    AdminCommands  => Idempotency
    IngestRequests => Idempotency

`PageReader` and `WaitNotify` take the abstract log by INSTANCE, with its variables as theirs: their device grows and is compacted by the
actions of `PinnedLog` and of `AuditLog`, so what they show of readers holds over anything that implements these, and `DeviceLedger` does. A compaction
in `PinnedLog` needs that nothing above the start of an unexpired view is cut; in `DeviceLedger` that is what the view floor achieves. A call
of `Idempotency` may be refused although its id is bound if its lookup (`Miss`) came before: admin commands look up before they take a lock, and need
that; batches look up under the device's lock, and `IngestRequests` maps `missed` to the empty set.

Each property is preceded, where it is stated, by what it says and the lines it is about.
A definition whose comment begins with "Mutant of" is a deliberately wrong variant
of the definition it precedes. No specification uses it; replacing the right definition by it
shows that a property notices.

### DeviceLedger and the code

*Atomicity.* Ingest, rotation, adjudication and compaction begin with `SELECT ... FOR UPDATE`
on the device's row and keep the lock until the commit; opening a view takes it `FOR SHARE`.
Under READ COMMITTED each later statement sees what was committed before it, and nobody else
can write rows of this device, so a transaction is one step. Every query filters on
`device_id`: one device is the whole system of this module. A rejected call rolls back and is no
step. `AdminCommands` and `IngestRequests` are where the same transactions are split into statements.

| Variable | Table |
|---|---|
| `deviceKeys`, `controlRevision`, `highWatermark` | `device_keys`, `devices` |
| `status` | `event_records.status`, by digest (`absent`: no row) |
| `conflicts` | `conflicts`, by sequence (`status = "none"`: no row) |
| `checkpoints` | `checkpoints`; the hash of the previous checkpoint is the previous row's sequence |
| `readViews` | `read_views`; the clock decides when a view expires. `high_watermark` is only read by pages: `PageReader` has it |
| `audit` | not in the code: the digest promoted at each sequence, a history for the properties |

`TryAdvance` states the loop of `try_advance` at once: it picks the `h` where the loop
stops, promotes every sequence up to it and leaves the conflict the loop leaves at `h + 1`.
It is called with the rows its transaction has written so far, as the code calls it.
An envelope is a model value; `Fields` gives what the code reads from it (sequence,
keyVersion, prevDigest and the key that signed it). SHA-256 collisions are excluded.
`decided_command_id`, timestamps, signatures of checkpoints and the payload are left out.
A rotation's key is drawn from `PublicKey`; the code lets two generations share a key.

`PromotionLoop` opens that step up. Each of the four handlers that promote begins a `transaction` with what it writes before it calls `try_advance`
(`CanIngest`, `IngestedRows` and their like, which `DeviceLedger` uses too); `Promote` is a turn of the loop that promotes, reading the rows as the
transaction has left them; `Commit` is the turn that leaves the loop, and COMMIT; `Rollback` is a crash or an error before it. Registration, compaction and
the opening of a view wait for the row lock; expired views are purged without it.

`ConflictReview` adds one variable: what `listConflicts` returned for one sequence. Its two queries are two steps
(`ListRows`, `ListCandidates`) and the decision is a third; `ListLimit` is the LIMIT of the first query.

### AdminCommands, IngestRequests and the code

A call is at one statement (`pc`). An admin command waits for a connection, begins and looks the command up, takes the
compaction's advisory lock, takes the device row, executes, inserts the reservation, commits. A batch takes the device row
first and looks its requestId up under it. Locks and the primary keys are as in PostgreSQL: `FOR UPDATE` and an insert over an
uncommitted key wait, `pg_try_advisory_xact_lock` does not; the loser of a key race rolls back and re-reads on
a new connection. `Crash` ends all transactions of one instance, `CommitLost` loses the answer of a COMMIT that
happened, `ConnectTimeout` is `connectionTimeoutMillis`, `Resend` is the client trying again after either.

In `AdminCommands` what `execute` does is reduced to the columns its guards compare (control revision, conflict
revision, newest checkpoint). `Refuse` covers the revision and the watermark guards; the others only add refusals.
The views are not modelled here: opening one waits for the row, but they expire by the clock, so `Compact` takes any sequence up to the watermark as
their floor and puts the checkpoint at `SafeCutoff`, which may lie below the cutoff asked for. The watermark is held fixed.
A compaction's argument is its `cutoffSequence`, or `Null` where the request leaves it to the policy; one with `NoCommand`, the worker's or
a manual one sent without a commandId, bypasses the wrapper: it is neither looked up nor reserved. `Workload` lists which calls are made together.
In `IngestRequests` the writes are reduced to the rows they add, and `acceptable` to which events the keys of a device
verify; `Revoke` stands for a rotation under which a candidate that was refused by an administrator would not verify any more.

### PageReader, WaitNotify and the code

Opening a view is one transaction and one step; every other query of a page, and every comparison made on its
result, is a step of its own. `checkpointSeq` and `request` are the local variables of `readPage`. A cursor is what was
signed; a forged one is excluded. `ExpireView` is `expires_at` passing. `traversal` is a history of what the client was given.

A waiter walks through the statements of `waitForEvents`. `inbox` holds the notifications PostgreSQL has sent to its
connection; `Deliver` hands one to node-postgres, which drops it unless the waiter is blocked and its listener is there.
`Block` is the turn of the event loop that adds both listeners and starts the timer. `Disconnect` sets the abort
signal, which ends the wait only if its listener is there. A client that was answered goes on from the last event it was given.
Uploads of this instance need a connection of the same pool (`idle`); those of other instances are `PromoteElsewhere`.

### Lifecycle and the code

`pc` is where `main` of a process is; `next` is the file its migration loop looks at, `lock` the session that holds
`MIGRATION_LOCK_KEY`. The work of a process is one `job`: a request of an API (`parsing` its body, `querying` with a
connection, `between` two transactions, `replying`) or a pass of a worker. `warm` are the workers whose connection of the boot is still open and
keeps the event loop alive until the first pass; afterwards `IdleExit` may come before the next timer. A failing migration
(`MigrationError`), a signal, a crash and a database restart are faults, at most `MaxFaults` of them. A database restart
ends every session: migrations fail, and a query in flight either fails or, as nothing listens to the errors of a
checked-out connection, kills its process.

### Canonical and the code

A value is what `JSON.parse` returns, its members in the order of the text, its strings as UTF-16 code units and a number
as sign, digits and exponent; which digits a double has is ECMAScript's. `Canonicalize` is `quoteString`, `serializeNumber`,
`writeValue` and the UTF-8 encoding. Its state machine is the use the service makes of the bytes: a value is on file, another is submitted,
and the bytes decide whether it is the same.

## Runs

| Run | States | What it asks |
|---|---|---|
| `Fork` | 212988 | two branches from sequence 1 and an event of a second key, every rotation and decision, one administrator who lists first: one chain, owners keep their events, each divergence open, no silent stall, decisions stand, a revision pins its candidates, a decision on an open conflict is made on the candidates shown |
| `Compaction` | 98560 | `PromotionLoop`: runs promoted one turn at a time and rolled back after any turn, both compactions, a view, a contradicting upload: the loop implements `DeviceLedger`; the prefix and the checkpoints agree, views keep their history; the ledger implements `PinnedLog`; liveness: the retained history comes down to the policy |
| `Commands` | 45438 | five workloads: twin rotations with another rotation, or with decisions that reuse the commandId on another device; two compactions under one commandId with different cutoffs, in one workload past the watermark, and the worker's; one with a cutoff and one left to the policy under one commandId, and one without a commandId; any view floor, uploads, a crash, retries: `Idempotency` is implemented, effects and rows agree; liveness: every call is answered |
| `Requests` | 206745 | twin batches on two instances, their requestId on another device, another batch, revoked events, crashes, retries: `Idempotency` is implemented, rows and records agree; liveness: every call is answered |
| `Pages` | 209755 | a client that pages while views expire and are purged and the log is compacted: an unexpired view is read exactly, a recovery point links to what follows; liveness: paging ends |
| `Waiting` | 319472 | two waiters and an upload share one connection: nothing is skipped, a later commit wakes, connections come back; liveness: everyone is answered |
| `Processes` | 14597 | two instances, a worker, three files, three faults: migrations serialized, nothing served before them; liveness: everyone works again, a shutdown ends; no deadlock |
| `Bytes` | 189224 | all pairs of 435 values: equal bytes exactly for equal values |
| `StaleDecision`, `LostPredecessor`, `SilentGap`, `LostWakeup` | | each ends in the counterexample described below |

*Bounds.* Sequences 1..3 (`Fork`: 1..2) with four or five envelopes are enough for a gap, a run of
two promotions by one call, a fork with a child on each branch, a boundary in the middle, and a checkpoint
that has a predecessor and a successor. `MaxRevision` 2 in `Fork` lets a conflict be opened, decided,
reopened and decided again; a transaction that would pass it is not committed. `Compaction` has 1, as each of its statements about the rows of a device is also
proved for every bound. `ListLimit` 1 leaves the second conflict out of a list.
`RetentionEvents = 1` and `MinEvents = 2` make policy and manual
cutoffs differ. One view is enough for the floor, which is a minimum, and may be purged and opened again; `Pages` has two, so that a
traversal may begin while the view of an older one still pins the log. Pages and batches hold one event, so each has a successor.
Two devices, four calls, two API instances, and one or two crashes cover a race
between executions of one id; `PoolSize = 1` makes the pool run out. A watermark of 2 leaves room for a floor between
the newest checkpoint and a cutoff. `MaxQueued = 1` puts one notification of another device
before or behind one's own. Three migration files have a first, a middle and a last; `MaxFaults = 3` lets a boot fail, its retry fail, and the
next be signalled. Deadlock checking is off where the bounds stop a system or its calls end; that no call gets stuck is
`EveryCallAnswered`. `Processes` checks it.

*Fairness.* `RetentionReached` assumes that a transaction ends, and strong fairness of `CompactByPolicy`, which waits for the row lock: PostgreSQL grants a
row lock to those who wait in their turn, the worker re-arms its timer after every pass, failed or not (`worker.js:37-44`), a pass visits every device above `minEvents`
and survives a device that fails (`compaction.mjs:191-207`), and `EveryProcessWorks` shows that passes go on. Its hypothesis is that
readers stop holding views. `EveryCallAnswered` assumes weak fairness of the statements of a call: PostgreSQL
and the event loop keep going. In `WaitNotify` it also assumes that timers fire and strong fairness of `Connect`: pg-pool serves its queue in
order, so a call that waits cannot be passed over for ever; neither notifications nor `connectionTimeoutMillis` are counted on. `PagingEnds` assumes
that queries are executed and that a client holding a cursor uses it; a view may never expire. `Lifecycle` assumes
`restart: unless-stopped` (`docker-compose.yml:60, 77, 91`) for processes and database, strong fairness of `Lock` because PostgreSQL grants a lock in its
turn, and that boot steps, timers and transactions come to an end; a request need not arrive, and its body may be read for ever.
Nothing is assumed of clients' retries or of crashes, except that faults are finitely many.

## What does not hold

* **A decision can be replaced at the same revision** (`StaleDecision`). `adjudicate` never compares the
  conflict's status and resolving does not move the revision (`conflicts.mjs:121-132, 182-188`), so a second
  command that quotes the same revision overwrites the first, against `conflicts.mjs:2-4`.
  `DecisionsAreInformed` is therefore about open conflicts.
* **The true successor of a compacted event is called bad_predecessor** (`LostPredecessor`). After a
  manual compaction whose cutoff is the watermark, `try_advance` (`0002_advance.sql:124-129`) finds no predecessor.
  An administrator's `select` re-opens the same conflict at once: the device is stuck.
* **A page can skip events silently** (`SilentGap`). With a cursor, the position is compared with the newest checkpoint and the
  view's expiry is checked; then, in another statement, the events are selected (`reads.mjs:124-162`). If the view expires and a compaction
  passes in between, the page begins behind the hole, against `reads.mjs:133-134`. `ViewIsExact` is
  about traversals whose view was unexpired at their last page, and about what may never mix in.
* **A waiter can sleep over a commit** (`LostWakeup`). The listener is added after the watermark query was awaited
  (`reads.mjs:212, 235`); a notification that arrives in between has no listener and is dropped, against the comment of
  `reads.mjs:210-211`. The waiter finds the event at its timeout, so nothing is lost but time; `WakeupOnTheWay` is about commits after the listener is there.

Four more disagreements were seen while modelling and are not kept as runs:

* *The newest generation may not cover the tail.* `rotateKey` only refuses an equal boundary (`devices.mjs:114-128`): rotate to
  generation 2 at sequence 3, then to 3 at 2, and generation 2 keeps every sequence from 3 on, against `0001_init.sql:24-27`.
* *After compaction a selection can contradict the prefix* (`conflicts.mjs:159-171`), *and a contradiction goes unreported*
  (`0002_advance.sql:21-46`): both look for the visible row, which is gone. The prefix itself stays as it was (`PrefixIntact`).
* *A duplicate command may be refused, not replayed.* The lookup of `idempotency.mjs:68` is not repeated after the device lock, so the
  twin of a rotation in flight is answered 409 `CONTROL_REVISION_MISMATCH` instead of the stored response (`idempotency.mjs:10-18`).
  `Idempotency` states what is left of the promise: only a call whose lookup came before the first success can be refused (`missed`).
* *A shutdown of an API instance may drop requests.* `api.js:3-5` says it waits for in-flight requests, but only `pool.end()` is awaited
  (`api.js:40-51`): a request that is parsing or between two transactions gets a 500 or no answer when `process.exit` comes.

Two smaller ones limit what two of the properties say:

* *Strings that are not well-formed share bytes.* A lone surrogate is encoded as U+FFFD (`canonical.js:18`), against `canonical.js:6-8`, where values
  that cannot be represented unambiguously are rejected. `SameBytesSameValue` is about well-formed strings only.
* *A disconnect may be noticed late.* A client that disconnects before the abort listener is added keeps its connection until a notification or the
  timeout (`reads.mjs:212-236`), against `reads.mjs:13-14` ("immediately"). `EveryCallAnswered` of `WaitNotify` says that the connection comes back in
  the end, not when; and an upload that gave up waiting for a connection counts as answered there.

And some that no comment speaks about: a wait from a position behind a checkpoint returns the events after it without saying so (`reads.mjs:198-208`;
`NothingSkipped` allows it); a worker whose pool is idle exits before its next timer and depends on being restarted (`worker.js:43, 51`);
a worker's shutdown has no timeout (`worker.js:53-64`).

`DivergenceIsOpen`, `SelectionStands` and `NoSilentStall` are stated about live rows, which is what the
code maintains: none of them sees an event that contradicts a compacted one. The claims say what the code's comments promise beyond that.

## Proofs

`DeviceLedgerProofs` proves, for every set of envelopes, keys and views and every bound, under the assumptions
`BoundsAssumption` and `FieldsAssumption` of `DeviceLedger`:

* `PrefixInvariant`: `PrefixInv == TypeOK /\ PrefixIntact /\ HashChain /\ CheckpointsCovered` is inductive.
  `PrefixIntact` alone is not: that the visible rows are those above the newest checkpoint needs every checkpoint
  at or below the watermark (`CheckpointsCovered`), and that a promotion links to the last promoted
  event needs to know that the row at the watermark, when there is one, is that event. `AdvanceLemma` says what `TryAdvance`
  does whatever its transaction wrote before; each transaction then only has to show that what it wrote keeps visible rows
  visible and adds none.
* `TypeCorrect`, `PrefixAlwaysIntact`, `ChainNeverBroken`: its parts.
* `OwnersNeverChange`: `OwnershipInv == PrefixInv /\ OwnerSigned`. A rotation's boundary lies above the
  watermark and above every candidate, so ownership below it does not change; hence `try_advance` never
  reports `key_generation_invalid`.
* `CheckpointsLinked`: `HistoryInv == PrefixInv /\ NewestRow /\ CheckpointChain`. A new checkpoint lies above all
  others (`CompactLemma`), so it links to the newest (`NewestRow`) and no older link changes.
* `ViewsAlwaysPin`: a compaction's cutoff is at most the start of every unexpired view (`FloorBelowViews`), and no
  promotion hides a row.
* `RefinesAuditLog`: the rows a reader can see implement `AuditLog`. The mapping takes `end` to the watermark, `floor` to the newest checkpoint's
  sequence, `anchor` to its digest and `retained` to the visible rows. `StepKinds` splits the steps: a promotion is
  `Extend` or a stutter (`AdvanceAppends`), a compaction is `Truncate` (`CompactTruncates`), and the rest stutters.
* `RefinesPinnedLog`: `ImplementsPinnedLog`, the same with the checkpoints and the pins. `pins` is the start of each unexpired view, so opening a view is
  `Pin`, its expiry `Unpin`, and the purge of its row a stutter (`ViewStepPins`). A compaction is a `Truncate` that respects every pin, by `FloorBelowViews`, and
  adds the checkpoint of the event it ends with, by `CompactLemma` (`CompactCheckpoints`).

`LifecycleProofs` proves, for any number of instances, workers, migration files and faults, under `LifecycleAssumption`:

* `MigrationInvariant`: `MigrationInv == TypeOK /\ LockHeld /\ LoopBehind /\ LoopDone /\ LoopInside /\ ChecksStillHold`.
  `ChecksStillHold` alone is not inductive: that nobody records the file a migrator found missing needs that the session lock
  belongs to whoever is past it (`LockHeld`), and that files are recorded in order needs that what a loop has left behind is
  recorded (`LoopBehind`). `EndedKeeps` shows once that any set of processes may die at any point.
* `LifecycleTypes`, `MigrationsSerialized`: its parts. `NothingServedEarly`: `ServesMigrated`, because a process that runs has
  passed all files (`LoopDone`).

`ConflictProofs` proves, under the assumptions of `DeviceLedger`:

* `ConflictInvariant`: `ConflictInv == PrefixInv /\ RowsCounted /\ DivergenceIsOpen /\ NoSilentStall /\ SelectionStands`. That two live events
  are open needs the visible row of a sequence to be unique (`VisibleOnce`, from `PrefixIntact`); that a decision reopens needs
  that it is only kept on a resolved row (`RowsCounted`). `RowSound` and `RowPinned` say what a transaction owes to
  `try_advance`; `AdvanceKeepsRows` says once what the loop makes of such rows, and each transaction shows it owes nothing.
* `DivergenceAlwaysOpen`, `NothingStallsSilently`, `SelectionsStand`: its parts. `RevisionsPin`: the action property `RevisionPinsCandidates`, from the same step.
* `DecisionsInformed`: `DecisionsAreInformed`, from `ReviewInvariant`: what was shown is behind the row's revision or still its
  candidates, which is why the two queries of a list may be read without a transaction. `ReviewKeepsSpec`: a device under review
  behaves as `Spec` does, since a decision quotes the revision of a row that exists (`DecideIsStep`).
* `LoopImplementsLedger`: `ImplementsDeviceLedger`, so that everything proved of `Spec` holds of the loop. `LoopInv` says that an open transaction is
  what one of the handlers wrote to the committed rows (`Begun`), with exactly a run of promotable sequences promoted (`RanTo`), and that nobody else
  writes those rows meanwhile (`BasisUnchanged`). `FollowsIsLinked` is the heart of it: the row visible at `v_hwm` is the predecessor that `Linked` asks for,
  because no row above the watermark is visible unless this loop has made it so. `PromoteExtends` is a turn, `CommitAdvances` the end of the loop.

`AdminCommandsProofs` proves, for any workload, number of instances and crashes, under `CommandsAssumption`:

* `CommandsInvariant`: `CommandsInv`. `TakesEffectOnce` rests on `Reserved` (an uncommitted row is the only one of its commandId) and on `Filed`;
  `RowsMatchCommands` on `LockHeld` and `WritesStand`: what a transaction has computed from the device row is still computed from that row when it
  commits. The checkpoints clause, `CheckpointAsAnswered`, needs what was answered beside what was written (`Executed`): the view floor may put the checkpoint
  below the cutoff that was asked for, so the requests alone do not tell where it is.
* `CommandsTypes`, `EffectOnce`, `RowsAreCommands`: the invariants of the run. `CallersAgree`: `AnswersAgree`, which the run sees as part of `Idempotency`. `DecisionsQuoteTheirRevision`: the action
  property `DecisionsAreCurrent`, since only a call past its comparison, under the lock, commits.
* `RefinesIdempotency`: `ImplementsIdempotency`. The mapping keeps the administrators' calls, the records of their commandIds and what they were told; `missed` is read off
  `pc`: the calls past a lookup that found nothing. The commit of a row is `Execute` (`CommitExecutes`: by `CommandsInv` no row of that id was there), a lookup that hits is `Replay` or `Conflict`
  (`ReplayOrConflict`, since `SameRequest` is equality of what was asked, `SameIsRepeated`), a refusal comes after a miss (`RefusedMissed`), a crash or a timeout is `Fail`,
  and the compactions without a commandId stutter (`Unnoticed`).

`IngestRequestsProofs` proves, for any calls, devices, instances and crashes, under `RequestsAssumption`:

* `RequestsInvariant`: `RequestsInv`. The rows of a device match its records because a lookup that missed under the device lock still misses (`MissStands`):
  another record of the same id can only come from another device, and then the insert loses the race (`Reserved`, `RaceHasWinner`).
* `RequestsTypes`, `RowsAlwaysMatch`: its parts. `RefinesIdempotency`: the commit of a call is the request's effect and its answer, a
  replay is its answer, and every other statement stutters.

`AuditLogProofs` holds what the readers share: `LogInv` (one entry for each sequence above the floor, each naming the one before it), kept by `Extend` and
`Truncate` (`LogAlwaysLinked`), and `FirstRows`: the first n rows of a query in the order of the sequences have no hole. The next two modules take it with
an INSTANCE and match its finite sets with their own. A largest or least element of a set of numbers is found with
the library's fact that the natural numbers are well-founded, which takes no operator as parameter and stands in for induction.

`WaitNotifyProofs` proves, for any waiters, uploads, connections and events, under `WaitAssumption`:

* `WaitInvariant`: `WaitInv == LogInv /\ TypeOK /\ IsFiniteSet(Holders) /\ RowsFollow /\ NothingSkipped /\ WakeupOnTheWay`. That no event is skipped needs what
  the rows in a waiter's hands say of the ones that are gone (`RowsFollow`): each is preceded by all the others or by a cut.
* `PoolAccounted` (`TypeOK`: `idle` is the pool without its holders, which is why a connection never leaks), `NoEventSkipped`, `WakeupNotLost`: its parts.

`PageReaderProofs` proves, for any clients, views and events, under `PageAssumption`:

* `PageInvariant`: `PageInv`. `ViewIsExact` is not inductive: it needs, at each statement of `readPage`, what the log may have lost since the one before.
  While the view is unexpired nothing above the start of the traversal is cut (`CursorOK`); for a first page this is so once the checkpoint
  that was read is compared with the position (`FirstOK`), and the rows of checkpoints are never removed (`CheckpointsOK`, `SeenOK`, `ResumeOK`).
* `RequestsInsideViews` (`TypeOK`), `PagesAreExact`, `ResumptionsAreAnchored`: its parts.
* `ReadingOnlyPins`: the device of `PageReader` behaves as `PinnedLog` whatever its clients do; their queries open views, which is `Pin`, and touch nothing else.
  With `RefinesPinnedLog` the two sides of the interface agree.

Each inductive invariant was checked by TLC on the run of its module before it was proved. Some types were made tighter for the proofs
(which rows, answers and notifications exist), and `MaxSequence` is assumed to be a natural number where it was not.

Only model-checked: the liveness properties (`RetentionReached`, `EveryCallAnswered`, `PagingEnds`, `EveryProcessWorks`, `ShutdownCompletes`), as
the proof system does not reach fairness, and `Canonical`, whose operators are recursive over JSON values.

## Plan

Done: `DeviceLedger`, `PromotionLoop` and its refinement of `DeviceLedger`, `ConflictReview`; `AuditLog`, `PinnedLog` and the refinements of both; `PageReader`
and `WaitNotify` over them; `AdminCommands` and `IngestRequests` and their refinements of `Idempotency`; `Lifecycle`; `Canonical`. Every safety
property of the passing runs but those of `Canonical` is proved.

Left: fairness is not proved anywhere, and `Canonical` is checked on a finite set of values. An induction over JSON values would prove
`SameBytesSameValue` for all of them.

## Not modelled

Signatures and hashing (a digest is a value, forgery is excluded); validation, status codes, headers, admin tokens and
logging (pure functions of a request); the 31-bit folding of the advisory lock key, whose collisions only postpone a compaction; what
`getConflict` cannot find beyond its 500 rows; the acceptance client `verify/verify.mjs` and the examples, which are clients of the
service and not parts of it.
