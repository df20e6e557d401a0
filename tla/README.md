# Sluicery in TLA+

Sluicery downloads the entries of playlists with yt-dlp, one *Task* per stage
(download, verify, postprocess, publish, index), and keeps the files on local
or remote Storages. The program is Python over one SQLite database. Several
processes share it: `app` (web interface, scheduler, reaper of stale tasks),
`worker-network` and `worker-compute` (each with a pool of threads), and the
commands of the CLI. They have no channel but the database, the Staging
directory, the Storages and a few lock files, and each of them may die between
any two commits. That is what these modules are about.

The modules are plain TLA+. TLC checks each of them on a small instance (the
`MC*.tla` and `MC*.cfg` files), TLAPS proves theorems about all of them for
every value of the constants (the `*Proofs.tla` files). `PROJECT.json` lists
components, runs, seeded faults, the source lines behind each definition,
hazards and theorems. Paths below are relative to `src/src/sluicery/`.

Contents: 1 the system, 2 the modules, 3 the runs, 4 where the code and its
documents disagree, 5 what is proved, 6 what is not modelled and what remains.

## 1 The system

| Part | State | Operations | What is hard | What makes it correct |
|---|---|---|---|---|
| Task queue `db/repositories/task.py`, `tasks/queue.py` | Task rows: status, attempts, worker_id, heartbeat, cancel_requested, depends_on | enqueue, claim_next, heartbeat, mark_*, release, recover_stale, request_cancel, retry, cancel_descendants | claims race, a reaped execution still works, updates of two transactions | one claimant writes, attempts bound, order of the stages, download limit |
| Worker and reaper `tasks/worker.py` | threads per task, shutdown flag | claim loop, execution, heartbeat loop, apply result, stop; the reaper's round | crash between commits, heartbeat that comes late, shutdown grace | results of old executions are rejected, work goes on after a crash |
| Pipeline `tasks/pipeline.py`, `tasks/handlers/*`, `core/target_state.py` | Target status and retry_count, Staging file, Artifact, published file | enqueue a chain, five handlers, transition/advance/sync of the Target | several commits per stage, operators act in between | Target, file and row agree, no copy is lost |
| Runs and discovery `core/sync.py`, `tasks/handlers/discover.py`, `db/repositories/run.py` | Run rows, Items, Targets | start a Run, discover, queue the download phase, finish, recover orphans | activity check and insert race, stale listings, four finishers of a Run | one operation per Playlist, cancelled stays, no false delisting |
| Scheduler `scheduler/__init__.py` | job store of APScheduler, settings | reconcile, fire, window, start | two reconciling threads, jitter of both signs, late rounds, midnight | each due time served, none outside the window, jobs follow the settings |
| Integrity and retention `core/integrity.py`, `core/retention.py` | Artifact and Target rows, audit log, quarantine names | check, link, dry run, confirm, execute, recover | minutes between read and write, files renamed by people, death between file and row | only confirmed files go, rows follow, the user's decision stays |
| Folder move `core/folder_move.py` | plan, intents, Artifact paths, Playlist folder | preview, confirm, move one by one, recover | answers lost, death between move and row, second mover, edits | every file is named, nothing is replaced |
| Storage adapters `storage/*` | files and temporary names, mountpoints, credentials | publish, exists, move, delete, mount | races for one name, lost answers, helpers that outlive their command | whole files only, no replacement, the right share |
| yt-dlp versions `downloader/version.py`, `core/ytdlp_update.py` | venv directories, `current` link, release rows, two locks | install, use, remove, prune, update, rollback | death between link and row, operator during an update | active row follows the link, a version to go back to |
| Process runner `runner/base.py`, `downloader/ytdlp.py` | process group, reader threads, cancel flag, limits | run, cancel, terminate | cancel races with start, children that ignore SIGTERM, full pipes | ends in time, honest verdicts |
| Event hooks `hooks/*` | bounded queue, executor, pending set | emit, record, flush | permits on every path, flush during emits | none lost or given twice, clean flush is complete |
| Backup and restore `backup.py`, Makefile | archive, database, WAL, configuration files, key | create, restore, verify | files change while copied, death at any step | the archive is restored as a whole |
| Configuration transfer `core/config_transfer.py` | documents, preview token, rows | export, preview, confirm, apply | editors between preview and import, modes, references | no secret to another host, no deletion unconfirmed, round trip |

How they interact: the web interface, the CLI and the scheduler start Runs
(`core/sync.py`); a discover Run is one Task, a download Run enqueues one chain
of five Tasks per Target. Workers claim Tasks and run handlers, which write the
Target, the Artifact, the Staging file and, through an adapter, the Storage;
handlers run yt-dlp and ffprobe through the process runner and report through
the event hooks. The result of a handler is applied to the Task and then, in a
second transaction, to the Target and the Run. Integrity check, retention and
folder move work on the same rows and files beside all of it.

Shared state is protected by: SQLite's single writer (a transaction that has
written is exclusive, one that has only read is not), conditions in UPDATE
statements (`worker_id`, `status`, `updated_at`), `playlist_sync_is_active`
under `BEGIN IMMEDIATE`, and file locks (`.lock`, `.update-lock`, mount locks,
the retention audit's lock).

## 2 The modules

| Module | Stands for | Composed with |
|---|---|---|
| JobQueue | abstract: what the queue promises to its users | |
| TaskQueue | queue, workers' threads, reaper, shutdown, operators | refines JobQueue |
| Pipeline | TaskQueue + the five handlers, Targets, files, the app's Run | EXTENDS TaskQueue, refines it |
| PlaylistRuns | discover and download Runs of one Playlist, listings, recovery | |
| Schedule | reconciliation, cron with jitter, window, misfires | |
| Library | Artifact rows, Targets, files, what users and people do to them | |
| Integrity, Retention | the two maintenance operations over Library | EXTEND Library |
| Maintenance | both of them at once | EXTENDS Integrity, Retention |
| FolderMove | rename of a Playlist's folder, two movers, a sync | |
| StoragePublish | publish of the local and the remote adapter, many executions | |
| KernelMount | mounts of CIFS and NFS shares | |
| YtdlpVersions | venvs, link, rows, update, rollback | |
| CommandRunner | one command after the other in a process group | |
| EventQueue | the bounded queue of the event hook | |
| WorkerStop | a handler's thread that runs commands and reports, the end of the worker | EXTENDS CommandRunner, EventQueue |
| BackupRestore | archives, restore step by step, `make restore` around it | |
| ConfigImport | export, preview and import of the configuration | |

Theorems: PipelineProofs (TaskQueue and Pipeline), PlaylistRunsProofs,
MaintenanceProofs (Library, Integrity, Retention), StoragePublishProofs,
KernelMountProofs, WorkerStopProofs (CommandRunner, EventQueue), FolderMoveProofs
and OperationsProofs (BackupRestore, YtdlpVersions, Schedule, ConfigImport: the
definitions that every module has are named after it there, `BackupInit`,
`ytdlpVars`, `ScheduleNext`, `ImportTypeOK`, so that one module can extend all
four).

One action is one commit, one file operation or one answer of another process;
everything a handler does up to its next commit is in one action. Definitions
carry the names of the code. Operators whose name begins with `Faulty` are
seeded faults: plausible bugs in the definition they follow, used to see that a
property notices them; no behaviour of the modules uses them.

**TaskQueue.** A row is a record of status, attempts, owner, cancel flag, and
whether heartbeat and retry delay have run out (`HeartbeatExpires`,
`DelayElapses` stand for the clock). `claimant` remembers which thread claimed a
row last, which the code does not know: the code compares `worker_id`, and
`Owns` does the same. Actions: `Enqueue`, `ClaimNext`, `Heartbeat`,
`HandlerReturns`, `ApplyResult`, `ThreadCascade` (cancel_descendants of a
worker), `ReleaseForShutdown`, `RequestShutdown`, `WorkerExit`, `WorkerCrash`,
`RecoverStale`, `AppCascade`, `RequestCancel`, `RequestCancelRun`, `Retry`,
`AppCrash`. Left out: progress, result payloads, the length of delays.
**JobQueue** has phases absent, waiting, running, done, dead.

**Pipeline** adds to each action what the process does next. A handler is a
record (`handler[x]`) with the step it is at; `Download`, `Verify`,
`Postprocess`, `Publish`, `Index` are its commits; `AdvanceTarget` takes one
commit per status as `advance_target` does; `SyncTarget` is
`sync_target_after_task`; the app's own Run is `CheckStorage`, `Prepare`, the
insertion of the chains and the end of the Run. `unrecorded` remembers the
Targets whose process died while it owed the sync. A file is absent or whole;
hash and probe results are handler outcomes.

**PlaylistRuns** has a Run record per Run, a Task row, what each worker does at
the moment, and per entry of the site whether it is unknown, active or delisted.
Listings are taken when yt-dlp answers and applied later, also by an execution
whose task was reaped: `apply_discovery` checks no ownership. `QueueChain` is the
commit of one Target's chain; `loose` holds the Runs whose caller goes on queueing
after a cancel or a recovery has ended them, and `fresh` says that the site has
listed its entries since the last Run began and that no execution without its task
has written an older listing (histories, which no guard reads).

**Schedule** has discrete time. A job keeps expression, phase, previous base
time and next fire time; reconciliation is a program per thread with one action
per call of the job store. `Unset` stands for a missing and for an invalid
expression; a job that has fired already runs under either (`Outcomes`).

**Library, Integrity, Retention, Maintenance.** A file is a number (its identity
and content), a row names file, path and Target. The check reads all rows, looks
for one file after the other (`LookForFile`), lists the Storage when something is
absent, looks again (`LookAgain`), loads the rows it compares with one by one
(`LoadRow`) and writes (`WriteRows`); people and the other operation may act
between any two of these. Retention has any number of requests: each builds its
plan, which fails on an unfinished intent in the logs, hashes the files, is
confirmed and hashes again (`Preview`, `Identify`, `Confirm`, `IdentifyAgain`);
then one execution after the other (`Begin` takes the lock and does not look at
the logs again) goes through intent, quarantine, comparison, unlink, audit record
and rows (`MatchRows` reads, `DeleteRow` writes). `seen` remembers what has not
been written since it was read. People rename, replace and delete files at any
moment.

**FolderMove**: `Snapshot`, `Look`, `Resnapshot`, `Relook` (the plan, twice),
`Begin`; the execution's reads before a transaction and the transaction itself as
steps of their own (`Take` and `WriteIntent`, `Recompare` and `Record`, `LastLook`
and `Finish`), `Check`, `Move`, `Doubt` (an answer is lost), `Verify`, `Fail`,
`Raise`, `Crash`, `RecoverOrphan`; a sync (`SyncStart`, `SyncResolve`, `SyncStore`,
`SyncEnd`), also one whose task is retried, which asks nobody (`SyncRetry`); and
`EditRows`, `EditFile`, `IntegrityCheck`.

**StoragePublish**: probe, staging under a temporary name, verify, rename without
replacement (local) or look and `moveto` (remote), hardlink of a known equal
file, answers that get lost, kills, and people.

**KernelMount**: `Open`, `Acquire`, `FindState`, `Prepare`, `WriteCredentials`,
`Mount`, `Verify`, `Use`, `LateMount` (the helper of a command that timed out or
was killed), `Edit`, `Kill` of one process, `Restart` of a container with its tmpfs,
and the operator's `Umount`. `findmnt` may fail or time out in `FindState` and
`Verify`. Histories: `rivals` (who had found the mountpoint free when a check
succeeded), `excused` (whose mount was changed after the check), `blind` (who
looked beneath before it was filled), `reached`.

**YtdlpVersions** keeps the times of installation and deactivation as places
(1 the newest): their order is all the code compares. `held` is the version whose
row the update's Session holds as active: the update installs and uses its candidate
through one Session, which sends no UPDATE for a row that it believes active
already. `torn` remembers that the link was switched and its row was not made
active. `Install`, `Build`, `Clear`, `Rename`, `Relocate`, `Record`,
`Use`, `Switch`, `Commit`, `RemoveVersion`, `Delete`, `Removed`, `Prune`,
`PruneOne`, `PruneCommit` under `.lock`, `UpdateStart`, `RollbackStart`, `Choose`
(its second read), `Smoke`, `Resmoke` under `.update-lock`; `Crash`, `Decay`.

**CommandRunner**: `Begin`, `Spawn`, `Poll`, `Check`, `Interrupt`, `Terminate`,
`Grace`, `Kill`, `Join`, `Return`; the command's own `Fork`, `Exit`, `Write`; the
readers' `Read`; `HeartbeatCancel`, `ShutdownBegins`, `ShutdownCancel`.
**EventQueue**: `Emit`, `Submit` (an executor that cannot start its thread has queued
the event all the same and raises), `Add`, `WatchFor`, `Take`, `Record`,
`Callback`, `Stop`, `Flush`, `FlushEnds`. **WorkerStop** runs the two in one
process: the handler's thread either waits for its command or emits; the main
thread flushes after `WorkerReturns`. Events that a daemon thread emits after
the join's deadline are not modelled.

**BackupRestore**: `Snapshot`, `Hash` and `Copy` of one file after the other, `Seal`,
`BackupFails`; `Restore`,
`StopServices`, `Read`, `Checkpoint`, `WriteFile`, `RemoveExtra`,
`ReplaceDatabase`, `RemoveLog`, `Validate`, `Up`, `RestoreFails`; `SqliteCommit`,
`Edit`, `ChangeKey`, `Reinstall`, `Kill` around them. **ConfigImport**: `Preview`, `Expire`, `Check`,
`Load` (one per entry, until a row is changed for the first time: its write
opens the transaction), `Write` (which changes nothing in rows that are equal
already), `Fails`; an export that reads table after table (`ReadPart`,
`CannotExport`, `Export`); and the editors' `EditRow` (renames and switches rows on,
too), `CreateRow`, `DeleteRow` (with the assignments of a Playlist),
`EnableRetention`, `ChangeSetting`. A row remembers the token and the entry that
made it (`by`) and whether an import last wrote it from a version that was gone
(`torn`): histories, which no guard reads.

## 3 The runs

All runs pass. `tlc -config X.cfg X` with the names below. Every property has a
seeded fault in the code's definitions that TLC finds with the same
configuration (`mutants` in `PROJECT.json`). Deadlock is not checked: every one
of these systems may come to rest (nothing enqueued, bounds used up), and what
must not rest for ever is stated as liveness.

| Run | Instance and bounds | Shows |
|---|---|---|
| queue | two chained tasks, one a download; a mortal and an immortal worker of one thread; two attempts; all faults, one retry | `AttemptsLeft`, `WriterIsClaimant`, `CancelNotLost`, refinement `KeepsPromise`, liveness `ReadyTasksSettle` |
| pipeline | one Target, five stages and the first of a second chain, three workers; at most one disturbance (`OneDisturbance`) at any commit | `TargetFollowsChain`, `StagedUntilIndexed`, `DownloadedIsIndexed`, `DownloadedStays` |
| maintenance | two Targets, three paths, three files, rows and intents, two requests, three events from outside, all three policies | `QuarantineIsLogged`, `OnlyConfirmedFilesAreDeleted`, `RowsGoWithTheirFile`, `CheckKeepsIgnored` |
| folder_move | two files, two movers, a sync that may be retried, two Runs, one edit | `MovedFileIsNamed`, `OneOperation`, `MovesKeepFiles` |
| publish | three executions, two sizes, one hardlink, two attempts, one break, one edit; local and remote | `FinalIsWhole`, `FoundAgain`, `NothingReplaced` |
| ytdlp | three versions, four commands, one crash, one damage, one kept | `ActiveIsCurrent`, `PriorSurvivesPrune`, `UpdateEnds` |
| playlist_runs | two Runs of up to two chains, one worker, two entries, two attempts, one trouble (cancel, retry, death, change) | `OneOperation`, `CancelledStays`, `SucceededIsCurrent`, `RunsEnd` |
| worker_stop | two commands, both limits 1, one line, two events, one permit | `PermitsAreAccounted`, `CleanFlushMissesNothing`, `CancelWasAsked`, `CommandEnds` |
| backup_restore | two files, two keys, four versions, three archives: the first one, and the backups of a restore and of its repetition | `RestoredIsTheArchive`, `LogIsOfTheDatabase` |
| config_import | two ids, two names, values with a remote and a private one, two folders; two documents, one of which shares a reference, and one export; two databases; one token, confirmed again and again; two edits among three commits | `ImportIsSafe`, `ConfirmedOnce`, `ImportRestoresTheExport` |
| schedule | a Playlist's and a maintenance job, day of four, phases on both sides, window over midnight, one edit, one restart | `DueTimesAreServed`, `WindowIsRespected`, `Converges` |
| kernel_mount | the overlay's two containers, a server and a CLI process in one and a worker in the other, a CIFS and an NFS share; three uses, one edit, one death, one `umount` | `OperationsReachTheirShare`, `NothingIsCovered` |

Why these bounds. Two of a kind is what a race needs: two tasks for order and
cascade, two movers, two processes at a mountpoint, two reconciling threads;
three where a third party matters (versions: current, previous, doomed;
executions that publish: two that race and one that finds the result). Two
attempts are a first and a last one. One disturbance at any point is enough for
the windows between two commits, which is what the pipeline's properties are
about; the theorems of section 5 lift the bounds where they could hide
something. Each counter has its bound named as a constant (`MaxRuns`,
`MaxEdits`, `MaxTroubles`, `MaxEvents`, ...) in the guard of the action that
counts. The requests of the maintenance run are symmetric (it checks no liveness);
no other run uses symmetry.

Fairness, and why the code has it:

- TaskQueue `LiveSpec`: weak fairness of each thread's `ClaimNext`, `Heartbeat`,
  `HandlerReturns` and of what it does with the result (the loops of
  `tasks/worker.py` poll for ever; handlers end, by CommandRunner's limits); of
  `HeartbeatExpires` for a dead thread, `DelayElapses` and `AppCascade` (clock and
  the reaper's next statement) and of `RecoverStale` (the reaper's thread polls).
  Only `n1` may crash or stop: with every worker gone nothing would be run.
- YtdlpVersions: weak fairness of the step under the lock and of the tests of
  an update. PlaylistRuns: of each handler, of the reaper, the caller's loop and
  the thresholds' clock; strong fairness of yt-dlp's `Answer`, whose attempts
  end by their limits but may be interrupted by a restart each time; in
  `SpecWithRestarts` also of `Restart`: app is started again now and then, the
  only moment at which orphan Runs are recovered.
- CommandRunner: the watching loop, the readers, the worker's shutdown; not
  the command, which may ignore every signal but SIGKILL. EventQueue: the
  executor's thread and an emitter that has begun.
- Schedule `ScheduleFairSpec`: start, the periodic reconciliation, firing and execution.
  The web's reconciliation comes only with a request.
- The others are checked for safety only.

What the properties mean where their wording has an exception:

- `CancelNotLost` excepts a worker that is shutting down: `release_for_shutdown`
  (task.py:357-380) clears a cancel request with the claim.
- `TargetFollowsChain` excepts Targets in `unrecorded` and Targets whose cancel
  came while a handler was at work (section 4, 3).
- `RunsEnd` excepts a Run whose task waits with a cancel request (section 4, 1).
- `OneOperation` of PlaylistRuns: RUNNING Runs are at most one, always; that no
  second Run is under way by its tasks excepts retried tasks (section 4, 15) and
  Runs whose caller goes on queueing (section 4, 26). An integrity check is no
  operation in this sense. `OneOperation` of FolderMove excepts a sync whose task
  was retried.
- `SucceededIsCurrent` is about `fresh` Runs and excepts an empty listing, which is
  not applied.
- `RowsGoWithTheirFile` and `CheckKeepsIgnored` except what was written after the
  last comparison (section 4, 5).
- `NothingReplaced` excepts the remote adapter's window between its look and
  `moveto`, for which rclone has no condition.
- `ActiveIsCurrent`: two rows are never active together. Between commands the active
  row is the linked version's, and `PriorSurvivesPrune` holds, unless a death or an
  update's old row tore them apart (`torn`; section 4, 9 and 25).
- `OperationsReachTheirShare` excepts an operation whose mount was changed after its
  check: by the operator's `umount`, by a helper that outlived its command, or by a
  process of the other container that had found the mountpoint free before
  (section 4, 22 and 23). `NothingIsCovered` excepts a file that was written there
  between the look and the mount.
- `ImportIsSafe` excepts secrets of a row that was edited between its load and its
  UPDATE, `ImportRestoresTheExport` also such rows as a whole, and the assignments of
  a document that shares a reference (section 4, 19 and 24).
- `CleanFlushMissesNothing` excepts an event whose submission was refused for want
  of a thread: its emitter has given it up, though the executor may still record it.

Further observations that are not properties: the heartbeat loop ends with the
first cancel it sees, so a handler that is slow to stop is reaped and may be
executed twice (its result is rejected). A late `failed` may count
`retry_count` a second time. A job that is registered again forgets what it fired
last. Two requests for a retention, planned before either has begun, may leave two
unfinished intents; the logs then stop the next plan, which is all that is promised.

## 4 Where the code and its documents disagree

Found while modelling; each is a short behaviour of the module named in
brackets. They are not runs of their own: the properties of section 3 state
what holds beside them.

1. [TaskQueue] `recover_stale` (db/repositories/task.py:506) keeps
   `cancel_requested` on the waiting row and `claim_next` (120) never takes it:
   the task waits for ever and the Playlist stays busy. docs/reviews/phase6.md:22
   describes this as fixed.
2. [TaskQueue] docs/基本設計.md:282 says the ownership condition rejects writes of
   an execution reaped before. The condition is `worker_id`, one per process
   (worker.py:266): with two threads the same process may claim the row again,
   and the old execution settles the newer claim.
3. [Pipeline] docs/reviews/phase7.md:58 says a cancel no longer strands a Target.
   `advance_target` (core/target_state.py:101-111) takes it from `failed` to an
   active status again after the cancel's sync, with its followers cancelled; it
   is no candidate of any later run.
4. [Pipeline] docs/要件定義.md:465: `ignored` is set and left by users only.
   `_failure` (tasks/handlers/download.py:197) takes an ignored Target to `failed`.
5. [Integrity] docs/基本設計.md:409: an old decision is never applied to a row
   written since. The comparison (core/integrity.py:300) reads before the
   transaction's first write; a commit in between is overwritten.
6. [Maintenance] docs/要件定義.md:718: what retention deleted is not downloaded
   again. A check between file and rows (core/retention.py:571) makes the Target
   `pending` under the redownload policy, and retention then leaves it.
7. [FolderMove] docs/基本設計.md:1307: the folder's name changes after all files.
   A file stored between hashing and start (core/folder_move.py:680) is in no
   plan and stays behind.
8. [FolderMove] docs/troubleshooting.md:169: the same operation recovers after a
   crash. An edit of the Storage's or Artifact's row in between makes the intent
   useless (core/folder_move.py:213) and the operation stays blocked.
9. [YtdlpVersions] docs/phase3_指示書.md:163: pruning keeps the version active
   before `current`. After a death between link and rows (version.py:405), or after
   25, it does not know it.
10. [YtdlpVersions] docs/基本設計.md:1259: the previous version is tested with the
    new one active. `ytdlp use` during the test is undone by the rollback
    (core/ytdlp_update.py:620).
11. [CommandRunner] docs/phase6_指示書.md:317: a cancel ends the process group.
    `_run_process` clears the flag when a command begins (runner/base.py:283),
    and the heartbeat delivers a cancel once: one that comes before is forgotten.
12. [CommandRunner] docs/phase3_指示書.md:244: no helper outlives its command.
    Nothing looks at the group after the leader has ended (runner/base.py:202).
13. [PlaylistRuns] docs/変更履歴.md:161: a cancel ends the Run. The cancel of a
    single waiting task (web/app.py:2133) does not.
14. [PlaylistRuns] docs/reviews/phase12.md:32: a Run without tasks can be cancelled
    from the UI. `run_cancel` (web/app.py:2158) refuses when no task is active.
15. [PlaylistRuns] docs/要件定義.md:502: no discover beside a download. `task retry`
    (db/repositories/task.py:433) does not look at the Playlist.
16. [BackupRestore] Makefile:47: the state before a restore is backed up. What is
    committed between that backup and the stop (Makefile:50) is in no archive.
17. [ConfigImport] core/config_transfer.py:573: one transaction for the confirmed
    difference. The comparison is outside it, as in 5.
18. [ConfigImport] README.md:169: collisions may be created anew. Two rows of a
    name make `export_config` (221) and later imports raise.
19. [ConfigImport] docs/基本設計.md:769: references are verified. Three kinds share
    one dictionary (593): equal numbers join the wrong rows.
20. [ConfigImport] docs/phase13-20_指示書.md:423: create works beside a row of the
    name. With a private URL it raises (625) and the import is rolled back.
21. [Schedule] docs/基本設計.md:1214: jitter fires no base time twice. It may after a
    new registration (scheduler/__init__.py:317).
22. [KernelMount] docs/storage.md:78: an existing mount is used again. The lock is
    on a tmpfs of each container (storage/mount_cifs.py:340): two containers may
    mount over each other, and every later operation stops.
23. [KernelMount] docs/storage.md:76: a mountpoint with another source stops the
    operation. The helper of a mount that timed out (storage/mount_cifs.py:133)
    may cover a verified share.
24. [ConfigImport] core/config_transfer.py:601, 644: an import always clears
    credentials and cookies. The row that is overwritten first is loaded (590)
    before its UPDATE opens SQLite's transaction, and SQLAlchemy writes only the
    columns that differ from what was loaded: credentials the command line enters
    in between, for the old connection, stay with the imported one.
25. [YtdlpVersions] docs/基本設計.md:71: one row is kept active. An update installs
    and uses its candidate through one Session (core/ytdlp_update.py:570-574). If the
    candidate's row was active when it was loaded and `ytdlp use` takes another version
    in between, the update's own `use` switches the link and sends no UPDATE: no row is
    active.
26. [PlaylistRuns] docs/要件定義.md:502: no discover beside a download. The caller of a
    download Run commits one chain per Target (core/sync.py:400-411) and does not look
    at the Run again: cancelled amid the chains, it goes on queueing, and another Run
    may have started.
27. [KernelMount] docs/storage.md:75: credentials are deleted right after the attempt
    to mount. A process that is killed while the helper works
    (storage/mount_cifs.py:318) leaves its file until its container ends.

## 5 What is proved

TLAPS checks every proof of the `*Proofs` modules, for all values of the
constants that satisfy the modules' named assumptions: sets of tasks, workers,
Targets, executions, files, events and bounds of any size; rows, documents,
versions, cron expressions. The assumptions on constants are typing, positive limits, and what the code gives by construction
(the tasks of a chain are of one Target, one per stage, each after a task of an
earlier stage and the index stage last, as `PIPELINE_STEPS` has them; an index
stage depends on the publish stage of its Target; one execution thread per worker
in Pipeline). TLC evaluates them in the runs.

| Module | Proved | Inductive invariant and why it is needed |
|---|---|---|
| PipelineProofs: TaskQueue | `TypeOK`, `AttemptsLeft`, `WriterIsClaimant`, `OwnerIsClaimantsWorker`, `CancelsAreKept`, the download limit on rows; with heartbeats in time `OneExecutionPerTask` and `DownloadHandlersBounded`; the refinement `KeepsPromise` | `IInv`: rows are sound (a waiting row has no owner and attempts left, a running one an owner), a running row's claimant is a thread of its owner, a thread that executes has a task, running downloads within the limit. Ownership in the code compares process ids; that this is as good as comparing executions needs the link between owner, claimant and threads. |
| PipelineProofs: Pipeline | Pipeline refines TaskQueue, so that the queue's theorems hold of it; `PipelineTypeOK`, `DownloadedIsIndexed`, `StagedUntilIndexed`; without retries `OneActiveChain`; `DownloadsStay`; `TargetsFollow` | `HInv`, on top of `IInv`: an execution has exactly one handler, for the same task (`HandlersMatch`); what a handler has made sure of when it is this far (`Fine`: an index handler past its checks has row and file, a publish handler that answers success has stored the file); a task that succeeded has done its work. A Target becomes downloaded in a handler that looked at another task's row, so its property needs what that row's success means, and this needs what the handler had done before it answered. `ChainInv`, for `OneActiveChain`: while the run is still enqueueing, no task of a Target it will enqueue for is open. `DownloadsStay` adds `CleanInv`, about Targets that nobody disturbed: an executing handler's row is its own (`ExecutionInv`); a task follows its dependency only when that succeeded (`OrderInv`); the Run's candidates are not downloaded (`CandidatesInv`); and the stages of a downloaded Target have all ended (`LastStageInv`). Each needs the others: a late stage of the same chain is excluded by the order, one of another chain by `ChainInv`. `TargetsFollow` adds `ChainEndInv`: while a task is open the next one waits (`WaitInv`, for which `cancel_descendants` must cancel whole levels: `DescendantsFollow`); whoever still has to cancel followers or to sync has a dead task and has not synced yet (`CascadeInv`); a sync comes after an end that leaves none of the statuses in progress (`SyncInv`); and the last stage succeeds only after it has advanced its Target (`IndexInv`, which needs that no other handler of the Target is at work). |
| PlaylistRunsProofs | `TypeOK`, `OneOperation`, `CancelledStays`, `SucceededIsCurrent` | `RInv`: a Run nobody has started is blank; whoever still queues chains does it for a download Run; a task that may run has an attempt left; a handler works for a discover Run. `OneOperation` adds that such a caller's Run is RUNNING or `loose`. `SucceededIsCurrent` adds `AInv`: Runs begin in order; the listing an owner is about to apply is the site's (`ListingsHold`), and once a handler, a task or a Run vouches for the last discover Run the Items are so (`Answered`). |
| MaintenanceProofs | `TypeOK`, `QuarantineIsLogged`, `DeletedFileIsGone`, `OnlyConfirmedFilesAreDeleted`, `RowsGoWithTheirFile`, `CheckKeepsIgnored` | where the file in hand is at each step of a deletion (at its path, in quarantine, gone) and which record of the log names it (`Discipline`); a file is at one place; a row matched and not written since is the one that was compared (`WriteFollowsMatch`), and so is a loaded one |
| StoragePublishProofs | `TypeOK`, `FinalIsWhole`, `SuccessHasItsFile`, `FoundAgain`, `NothingReplaced` | an execution past its verification holds a whole file under its own temporary name, and what it has brought to the final name is there until somebody disturbs it |
| KernelMountProofs | `TypeOK`, `NothingIsCovered`, `OperationsReachTheirShare`, in any number of containers | who holds which container's lock; whoever has looked beneath found it empty or is `blind` (`LookedInv`); whoever works and is not excused has the mount it checked, and whoever could still mount over it is of another container and had looked before (`CheckedInv`) |
| WorkerStopProofs | CommandRunner: `TypeOK`, `LeaderHasEnded`, `CancelWasAsked`; EventQueue: `QueueTypeOK`, `PermitsAreAccounted`, `PendingIsUnderWay`, `CleanFlushMissesNothing`, `OrderIsKept`; WorkerStop: it implements both with their fairness, so all of this holds of the two together | commands: a leader is looked at only after it was seen to end; the cancel flag is set only if somebody asked since the command began. Events: the state of each (submitted, in hand, recorded, called back) with the emitter that still works on it and the permit it holds; permits are counted over it |
| FolderMoveProofs | `TypeOK`, `MovedFileIsNamed`, `OneOperation`, `MovesKeepFiles` | who moves has the lock, and its Run is RUNNING until it ends; the intent in the Run's row is the one of the Artifact in hand (`IntentIsCurrent`), so that writing the next one forgets nothing; a planned Artifact has a row for ever, so that no publish puts a file where the move takes one away; between check and move an own file may go but none appears, and once the move is known none is left at the source (`SourceIsKnown`); when the path is written, whatever the row has become since it was compared, an own file elsewhere is another Run's (`ElsewhereIsNamed`). RUNNING Runs are one, and then no sync is at work but a retried one. |
| OperationsProofs: BackupRestore | `BackupTypeOK`, `LogIsOfTheDatabase`, `RestoredIsTheArchive` | `BackupInv`: a backup runs alone or as the first step of a restore (`OneAtWork`); while a restore is at work on the files the application is stopped, no log is left after its checkpoint, and a log belongs to the database beside it (`LogUnderRestore`); what is in place already, step by step (`RestoreProgress`). A death at any step leaves files of two archives: only because every step is done again can the last one promise anything. |
| OperationsProofs: YtdlpVersions | `ActiveIsCurrent`, `PriorSurvivesPrune` | `YtdlpInv`: a command past its lock holds `.lock` (`YtdlpLocks`); while nothing is torn, the active row is between the switch of the link and its commit the version the command found, else the link's (`LinkAndRows`); nothing deletes the link's version (`CurrentIsKept`); the version before the last switch is the one deactivated last, and so among those a pruning keeps, also one that has decided before (`PriorIsKept`). That two rows are never active together needs no condition (`OneActive`). |
| OperationsProofs: Schedule | `ScheduleTypeOK`, `DueTimesAreServed`, `WindowIsRespected` | `SchedInv`: a reconciliation registers only what has an expression in the settings it has read; the next time of a job is a base time, jittered by its phase, next to the last one it has dealt with. Needs that a period has exactly one base time in any stretch of its length, for any period and phase (`BaseExists`, by the least number of a set). |
| OperationsProofs: ConfigImport | `ImportIsSafe` and `ConfirmedOnce`, for every document the schema lets through and every order of loads, edits and exports | `ImportInv`: a plan has seen no version newer than the last commit (`TokensAreKnown`); a row remembers the token that made it, whose plan is older than the row (`MarksAreTrue`); so a comparison that succeeds has found none of its own rows, and the import about to write has made none yet (`WritesOnce`); what is loaded or exported was a row (`ReadsAreRows`); a row has no secret of another value unless it is `torn`, and no policy without its dry run (`RowsAreSound`). The comparison reads before the transaction (section 4, 17), but the routes that apply run one at a time, and that is what a second writing needs. |

Theorems that are stated under a condition (no missed heartbeats, no retry) carry
it in the property itself, and the exceptions of section 3 are in the properties
too: section 4 shows what happens in them. No theorem has a hypothesis beyond the
modules' assumptions.

Only model-checked: the liveness properties (`ReadyTasksSettle`, `UpdateEnds`,
`RunsEnd`, `CommandEnds`, `Converges`): they rest on fairness and ENABLED, which
TLAPS cannot treat here; and `ImportRestoresTheExport`, which relates what a whole
import has loaded, decided and written. Every other invariant and action property
of the runs is a theorem.

## 6 Not modelled, and what remains

Not modelled: validation of settings, options, names, layouts, cookies and
format probes (pure functions with unit tests); web pages, forms, login and
sessions beyond the routes that act on tasks, Runs and Targets; the CLI's
arguments and output; migrations and container scripts (read for the number of
processes); parsing of yt-dlp's and ffprobe's output; the classification of
errors; connection tests, free space and listings of Storages; hardlink
deduplication in the pipeline (it is in StoragePublish). SQLite's transactions
are taken as atomic and serialized; where code reads before its transaction
begins, the read is a step of its own. Three simplifications of reads: one listing
of a Storage is one step; the check's two last looks at one file are one step; and
in Integrity which rows the session still holds, and the order in which the others
are loaded, are left open. The modules start a transaction with its first UPDATE,
where SQLAlchemy's autoflush may have started it at an earlier query: the window
between comparison and write is then narrower than modelled.

A hazard without a property: an Artifact that is missing while its Target was
downloaded to another name keeps `missing_since`
(db/repositories/artifact.py:26); that the redownload policy settles would need
several rounds of checks and downloads, more than TLC can take.

What could follow: StoragePublish as a refinement of the pipeline's publish
stage; PlaylistRuns over TaskQueue instead of its own Task row; Schedule and
PlaylistRuns in one module, so that a due time is followed to its Run.
