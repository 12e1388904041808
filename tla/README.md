# r2sync in TLA+

r2sync keeps folders on several Windows computers in step with Cloudflare R2. A
background service (Python, threads) runs `rclone bisync` for each synchronized folder
(a *dataset*) and `rclone` copies for backup jobs; a desktop and a terminal client talk
to it over a local socket. This directory holds TLA+ models of the service, TLC runs
that check them on small instances, and TLAPS proofs for every size.

Paths below are relative to `src/src/r2sync/`.

## Inventory

| Component | State | Operations | What is hard | What makes it correct |
|---|---|---|---|---|
| Sync queue, `core/sync_engine.py` | `_active_syncs`, `_pending_syncs`, `_deferred_syncs`, `_cancel_requested`, one thread per running sync | `trigger_sync_async`, `_finish_sync`, `_run_sync_worker`, `_execute_sync`, `cancel_sync`, `mark_needs_sync`, `take_deferred_syncs` | scheduler, watcher timers, IPC threads and ending workers act between any two critical sections; a run can fail, be cancelled, lose the network or meet rclone's lock | one run per dataset; at most `SYNC_MAX_CONCURRENT_DATASETS`; no request forgotten or weakened; a cancel is final; the queue drains |
| Scheduler, `core/scheduler.py` | last reconcile per dataset, `next_run_at` of jobs | `_tick`: backup jobs, then datasets, then heartbeat | rows and deferrals are read at different times | every deferral of an active dataset is triggered; a due job gets its next time |
| Service, `service/daemon.py` | token, PID file, port | `start`, `restore_sync_state`, `stop` | the scheduler and IPC run before the state is restored; two processes; crashes | every automatic dataset is reconciled after a restart; one service lasts |
| Bisync runs, `core/rclone_engine.py` | registered processes, rclone's workdir lock | `run_bisync`, `cancel_bisync`, `compute_max_delete_percent` | processes outlive the service; a percentage is applied to another total than it was made from | locks expire; the ceiling on deletions is the user's number |
| Watchers, `core/watcher.py` | registrations, watchers, debounce timers, supervisor | `start_watching`, `stop_watching`, `ensure_watching`, `_on_raw_change`, `_fire_change`, `check_health` | native threads, timers and the supervisor restart each other | a reported change reaches the queue; a registered folder gets a live watcher |
| Dataset rows and conflicts, `core/db.py`, `core/sync_engine.py` | `sync_datasets`, `detached_datasets`, `sync_conflicts`, conflict copies on disk | create, join, pause, resume, update, delete, `_scan_and_record_conflicts`, `resolve_conflict`, `restore_sync_state` | rows read, kept during a run or a dialog and written back whole; kills between two transactions | a status says what is there; a pause stays; the data of a removed folder is found again |
| Device presence, `core/sync_engine.py`, `core/models.py` | `sync_devices` of each computer, device files in R2 | heartbeats, refresh, join, `remove_device`, `presence_status` | files copied at one time and judged at another, by another clock; calls that fail silently | nobody is shown online who was not; a removed computer stays away |
| Backup jobs, `core/backup_engine.py`, `core/scheduler.py` | `_running_jobs`, `_active_processes`, `backup_jobs`, `backup_runs` | `trigger_job_async`, `_run_job_with_retries`, `run_backup`, `cancel_run`, the job half of `_tick` | check and registration in two critical sections; jobs edited and deleted while they run | the job is released; a cancel is final; history stays truthful; due jobs move on |
| Desktop and IPC, `gui/app.py`, `client/ipc_client.py`, `service/ipc_server.py`, `utils/system.py` | engines of the window or of the service, event stream, tray | probe, launch, wait, decide; token, bind; broadcast, reconnect | two processes decide from earlier answers; events fall into gaps | somebody runs the engines; the tray does not lie; the stream resumes |
| Downloads, `core/updater.py`, `gui/views/settings_view.py`, `RcloneBinaryManager` | `.part` file, published installer, rclone's archive and executable | check, download, verify, replace; install | threads of a window share a file; kills and dropped connections | what is launched was verified; a part of rclone is not used |
| Estimates and progress, `core/prescan.py`, `TransferPhaseTracker` | totals for display | walks and observations | only the count that the deletion guard reads | see `DeletionGuard` |
| Credentials, speed profiles, R2 client; views; packaging | keyring, widgets, registry | sequential calls | platform I/O | not modelled |

The parts meet in the queue. Watcher timers call `_on_watcher_change_event`; the
scheduler thread drains `take_deferred_syncs` and calls `trigger_sync_async`; each IPC
client's thread calls it for *sync now*, *resume* and *add*, and `cancel_sync` for
*cancel* and *delete*; an ending worker calls it for its coalesced follow-up. Workers
read and write the dataset's row, run rclone, and write the deferred set when they are
offline or meet a lock. All the engine's fields are guarded by one `RLock`, which is
released before a thread is started, a follow-up triggered or a process terminated.

`PROJECT.json` lists the hazards one by one, each at the line where it bites.

## Modules

| Module | What it is |
|---|---|
| `SyncEngine` | the queue's state and operations, and the steps of a worker thread |
| `SyncService` | the threads around it (scheduler, watcher timers, IPC, restarts, network), the specification and its properties |
| `SyncPromise` | the abstract queue: who waits, each dataset's run as a phase, who was cancelled |
| `SyncRefinement` | where the abstract queue's state is found in `SyncService` |
| `SyncServiceProofs` | the queue's types, slots, ceiling, follow-ups and cancelled runs; no request is forgotten; `SyncService` implements `SyncPromise`; follow-ups keep their strength |
| `Debounce` | the debounce timers of one watched dataset |
| `Watcher` | watcher threads, the calls that start, re-attach and stop them, the supervisor; its specification and properties |
| `WatcherProofs` | type correctness, no reported change is lost |
| `DatasetRows` | the tables of one folder and its conflict copies, with every read and write a step of its own |
| `RowsProofs` | statuses, pauses, notes and device rows are right |
| `Devices` | which computers share a dataset, as each of them sees it |
| `DevicesProofs` | who is shown online was alive, who was removed stays away |
| `BackupJobs` | jobs, runs, backup workers, their rclone processes and the scheduler's job half |
| `BackupProofs` | a cancel is final, history stays truthful, no job is registered that nobody runs |
| `Desktop` | service processes and windows on one computer: files, port, engines, event stream, tray |
| `DesktopProofs` | somebody runs the engines, the tray does not lie |
| `Downloads` | the update's download and the unpacking of rclone |
| `DownloadsProofs` | what is published was verified, a part of rclone is not run |
| `DeletionGuard` | the number of deletions a sync lets through |
| `DeletionGuardProofs` | the guard's bound for every number and every set of files |

`MCSyncService`, `MCWatcher`, `MCDatasetRows`, `MCDevices`, `MCBackupJobs`, `MCDesktop`,
`MCDownloads` and `MCDeletionGuard` are the instances for TLC. `SyncService` composes the
engine with the threads that call it, and `Watcher` composes the debounce timers with the
watcher manager. The others stand alone: `DatasetRows` keeps of the queue only that a
dataset has at most one run and one follow-up, which `SyncServiceProofs` proves of it.
Operators named in a comment `(mutant)` or `MUTANT of` are faulty variants of the
definition after them; no specification uses them.

### State

| Variable | In the code |
|---|---|
| `activeSyncs`, `pendingSyncs`, `deferredSyncs`, `cancelRequested` | the four fields of `SyncEngine` (`sync_engine.py:94-105`) |
| `worker[w]` | a `sync-worker-*` thread: where it is between two critical sections or rclone calls (`pc`), its dataset, its arguments, which attempt it is on, whether its row had `initial_sync_done = 0`, and what rclone returned |
| `row`, `initialSyncDone` | the dataset's row: absent, paused or enabled; `initial_sync_done` |
| `online` | what `check_internet_connection()` answers |
| `lockFile` | datasets whose bisync workdir holds rclone's lock file |
| `tick` | the scheduler thread inside `_tick`: the rows it listed, those it has still to trigger |
| `killing`, `deleting` | `cancel_sync` and `delete_dataset` calls between their critical sections |
| `service`, `crashes` | whether `restore_sync_state` has run; a bound |
| `owed`, `worker[w].cancelled` | history variables for the properties; no guard reads them |

`owed[d]` is the strongest combination of requests for `d` made since a transfer of it
last started. It is cleared when a transfer starts (except for what is already folded in
behind that run), when the run ends with an error the user is shown, and when the user
cancels. It comes back when rclone turns out to be locked out, and after a crash for an
automatic dataset that was transferring.

### Actions

One action per critical section, rclone call or command. `TriggerSync` is
`trigger_sync_async` with its three outcomes (folded in, deferred, started); it is a
conjunct of every action whose handler calls it. `CancelSync`/`CancelBisync` and
`BeginDelete`/`DeleteRow` are the halves of `cancel_sync` and `delete_dataset` before and
after the engine's lock is released. `ListDatasets`, `TakeDeferred`, `RunDue` and
`TickEnds` are the reads and calls of `_tick`. A worker goes through `LoadDataset`,
`PassChecks` or `DeferOffline` or `FailRun`, `StartBisync`, `BisyncExits` or
`AbandonBisync` (an exception while rclone's output is read), `RetryBisync` (baseline
rebuild, then `--force`), `RecordResult`, `FinishSync` and `StartFollowUp`.

### The watcher modules

`Debounce` and `Watcher` model `DebouncedWatcherManager` for one dataset: its maps are
keyed by dataset and share nothing but the lock, which is one step each.

| Variable | In the code |
|---|---|
| `debounceTimer`, `timer` | the dataset's entry in `_debounce_timers`; each `threading.Timer`: waiting, past its last look at `cancel`, or past the lock of `_fire_change` |
| `owed` | history: a raw change was reported and `on_change_triggered` has not been called since |
| `registration`, `installed`, `supervised` | the entries in `_registrations` and `_watchers`; a supervisor runs |
| `watcher[w]` | a watcher object with its thread: kind, stop event, what it last saw of the folder, and whether it is opening the folder, waiting, about to call back, failing or dead |
| `caller[c]` | a call of the manager between two critical sections, with its locals; `Supervisor` is the supervisor thread |
| `row` | the dataset's row: target, and `dataset_wants_watcher` of it |
| `mounted`, `version` | whether the folder exists, and its contents |

`start_watching` is `RegisterMissing`, or `RegisterAndPop`, `StopOld`, `Build`, then for
a native watcher `NativeStarted` or `NativeTooSlow`, and `Install`; `stop_watching` is
`Unregister` and `CancelAndStop`, which `stop_all` also goes through after `Shutdown`;
`ensure_watching` is `EndRun`, with the row as it was when the run began (`BeginRun`);
`_on_watcher_failed` is `GiveUp` or `FallBack`; `check_health` is `CheckHealth`,
`Revive`, the steps of `start_watching` and `ReportMissed`.

### The refinement

`SyncPromise` is what a caller may count on. A request waits until a run takes it or the
user withdraws it (`Ask`, `Take`, `Cancel`); a run goes from *preparing* through
*transferring* to *over* and back to none (`Serve`, `Return`, `GiveUp`, `PutBack`,
`Retry`, `End`); never more than `Ceiling` datasets run; a cancelled run is not retried
and takes what waits behind it along; a restarted service knows only the automatic
datasets (`Restart`). `SyncRefinement` finds `waiting` in five places of the service (the
deferred set, the folded follow-ups, what the tick at hand still has to trigger, follow-ups
carried by workers between two critical sections, the catch-up of a service that starts)
and `phase` in the worker that holds the dataset's slot. `Unkept` names the datasets whose
requests the code may lose (see Observations): those added, paused, deleted or cancelled
while idle.

### The rows (`DatasetRows`)

| Variable | In the code |
|---|---|
| `row`, `device`, `note`, `conflict` | `sync_datasets` (presence, status, paused), this computer's row of `sync_devices`, `detached_datasets`, `sync_conflicts` |
| `remote`, `disk` | the prefixes in R2 that hold data; the conflict copies and the original in the folder |
| `run[d]`, `pending`, `deferred`, `cancelled` | the worker of a dataset with the row it read; the engine's other fields |
| `cmd[c]` | an IPC thread inside a command, with what it read |
| `restore` | `restore_sync_state`, with the rows it listed |
| `excused`, `unwritten`, `outlived`, `superseded` | history: rows whose status a stale editor, a dropped follow-up or a kill during a pause made; datasets whose run raised and could not store that either; datasets removed while a run or an adding thread went on; datasets the folder's note need not name |

A run is `LoadRow`, `PassChecks`, `Bisync`, `UpsertDevice`, `RecordConflict` for each copy,
`EndScan`, `CountOpen`, `RecordResult`, `FinishRun`; `RunRaises` can take the place of any but
the last, and stores "error" or fails at that too. Adding is `BeginAdd` or
`BeginJoin`, `InsertRow`, `RegisterDevice`, `ForgetNote`, `TriggerSync`; removing is
`BeginOnRow`, `CancelSync`, `Purge`, `RememberDetached`, `DeleteRow`; pause, resume and
update read the row in `BeginOnRow` and write all of it in `PauseRow`, `ResumeRow`,
`UpdateRow`; resolving is `BeginResolve`, `ReadDataset`, `ResolveFile`, `MarkResolved`,
`CountRemaining`, `RenewStatus`; *sync now* is `BeginOnRow` and `TriggerSync`, *cancel*
`BeginCancel` and `CancelSync`. `Crash` may come anywhere and `RestoreLists` and
`RestoreRow` run beside everything else.

### The other components

* `Devices`: `table[c]` is `sync_devices` of computer `c`, `file[d]` is
  `devices/<device_id>.json`; both keep only `last_seen_at`, in the local time of the
  computer that wrote it (`Ahead`). A run registers its computer at its beginning and end
  (`BeginRun`, `UpsertOwn`, `RegisterRemotely`); `Heartbeat` renews the own row only;
  `ListFiles`, `FetchFile`, `Store` and `Adopt` are `refresh_connected_devices`;
  `RemoveDevice` deletes a file, then a row. Every call to R2 may fail, which the code
  takes for an empty answer.
* `BackupJobs`: `worker[w]` is a `backup-worker-*` thread from `create_run` to the release
  of `_running_jobs`; `proc[w]` its rclone; `active` the registered process that
  `cancel_run` finds; `tick` the scheduler's listed rows; `dialog` the row an edit dialog
  was opened on. Times are what they are compared for: due, seconds away, later.
* `Desktop`: `svc[p]` is a service process from its launch over `Construct` (token),
  `WritePid`, `InstallRclone`, the scheduler's start to `Bind`; `win[w]` a window through
  `Probe`, `LaunchUnlessRunning`, `WaitForService`, `Decide`; `internal` the windows with
  engines of their own; `stream` and `mail` the event stream; `tray` what the icon says.
* `Downloads`: `part` and `out` are the `.part` file and the published installer, as
  blocks; handles follow a renamed or removed file on POSIX and prevent it on Windows.
  `zip`, `exe`, `mode` and `installer` are rclone's archive, executable, executable bit and
  the threads that unpack it.
* `DeletionGuard`: `local`, `remote` and bisync's `tracked` files, the row's `total`,
  counted after a run and used in the next one; `late` the files edited between a bisync and
  its repetition. A run is `StartSync`, then `Resync` (first sync, forced, or after a stale
  baseline), `Propagate`, `RefuseMassDeletion`, `Abort` or `RepeatAllChanged` (the second
  bisync with `--force`, at `pc` "forced"), then `StoreCount`. bisync is an external program;
  what is modelled of it is how `run_bisync` uses it: per side, deletions against
  `--max-delete` percent of the files it remembers, which `--force` waives, and an emptied
  side held back. `LandsAbove` are the totals whose percentage, a double, lands above the
  whole number it should be and is rounded up one further (7 of 100 gives 8).

### What is abstracted

* A folder event is one that is not excluded; native notification records are not parsed.
  A native watcher misses what happens before it opens its folder, a polling one what
  happens before its first scan.
* `os.path.exists` and the critical section it decides on are one step. A failing native
  thread counts as dead when it enters its fallback, a few statements early; its thread
  is one of `Threads` from there.
* After `stop()` a thread may call back once more: it looks at the stop event before it
  scans or waits, not after.
* A spontaneous death of a polling thread is not modelled: its loop catches what can go
  wrong in a scan. Two supervisors at once, after a `stop_all` overtaken by a start, are
  modelled as one.
* Deleting a dataset is, for its watcher, a pause whose row is written last.
* In `SyncService` the row is read and written in one step by each command; `DatasetRows`
  has the steps.
* `DatasetRows` has one folder and one bucket; `Devices` one dataset; `DeletionGuard` one
  dataset on one computer, whose files are named, not nested.
* A result of `run_bisync` is one of success, needs_resync, all_changed, attention (mass
  deletion or empty source), failed or lock_conflict. Markers that occur together are one
  outcome, the one the code acts on first.
* Which datasets a schedule makes due is left open (any listed dataset that is not
  manual), so a property holds for every interval, day and clock.
* Any dataset that is not manual may have a watcher; changes come at any time after the
  state is restored.
* The row read of `_on_watcher_change_event` is one step with what follows.
* Adding a dataset is a new row and the first request; `SetupMode` is the direction,
  whether it is created (`path1`, `newer`) or joined (`path2`).
* Insertion into `_active_syncs` and the start of the thread are one step.
* The identities of worker threads are recycled. A request that would need one more
  thread than `Workers` waits for one; with `MaxConcurrentSyncs` slots this only limits
  how many threads may be between giving up a slot and starting their follow-up.
* `Crash` is any end of the service, including `ServiceDaemon.stop`: worker threads are
  daemon threads and die with it.

## Properties and runs

| Run | Instance | Checks |
|---|---|---|
| `queue_ceiling` (1.3 M states) | 2 datasets (one manual), 2 threads, 1 slot; cancels of running syncs, lock conflicts, 1 crash | `ConcurrencyCeiling`, `NoRequestForgotten`, `CancelledRunEndsThere`, `PromiseKept` |
| `queue_strength` (1.0 M) | 2 datasets, 3 threads, 2 slots; forced syncs, one dataset joined | `FollowUpKeepsStrength` |
| `queue_lifecycle` (1.2 M) | 1 dataset, 3 threads; added, paused, resumed, deleted, cancelled at any time, stray rclone processes | `TypeOK`, `SlotHasOneWorker`, `FollowUpBehindRun` |
| `queue_drains` (0.7 M) | 2 datasets (one manual), 2 threads, 1 slot; offline, a stray lock file | `EventuallyDrained` |
| `watcher` (2.2 M) | 1 thread and the supervisor, native watchers, 3 objects, 2 timers at once; 2 calls, 1 folder event, 1 failure | `TypeOK`, `ChangeHasTimer`, `EntryIsPending`, `RegisteredIsWatched` |
| `dataset_rows` (4.4 M) | 1 dataset, 2 IPC threads with all commands but *keep remote*, 1 conflict copy, 2 commands or kills, 1 kill | `TypeOK`, `StatusSettles`, `SyncingHasRun`, `DetachedIsRemembered`, `OrphansOutlived`, `PauseStays` |
| `keep_local` | the same with 1 command and a copy named otherwise | `KeepLocalKeepsOriginal`, violated: see Findings |
| `devices` (1.7 M) | 2 computers, one a time unit ahead, one that lists and removes; 3 units of time, 2 events | `TypeOK`, `ShownOnlineWasAlive`, `RemovedStaysAway`, `OwnSeenGoesOn` |
| `backup` (0.4 M) | 1 job, 2 workers, 1 retry, interval and manual; 2 runs, or 1 and 2 dialogs or kills | `TypeOK`, `CancelIsFinal`, `OutcomeOnlyWorsens`, `SlotIsReleased`, `DueJobMovesOn` |
| `desktop` (0.2 M) | 2 service processes, 1 window, a port that is not shared; 3 runs, 3 events | `TypeOK`, `NoIdleWindow`, `TrayJustified`, `TwoServicesDoNotLast`, `StreamResumes` |
| `downloads` (0.1 M) | 2 download threads, 1 installer, Windows and not, 2 blocks with a digest; 2 events | `TypeOK`, `PublishedIsVerified`, `HalfInstallNotUsed`, `DownloadEnds` |
| `deletion_guard` (1.4 M) | 4 files, the number 1, 5 edits | `TypeOK`, `DeletionsWithinNumber`, `AllowedIsNotRefused` |

* `PromiseKept` is the refinement: every behaviour of the queue is one of `SyncPromise`.
* `NoRequestForgotten`: what is owed is always held by a queue, a thread or the tick at
  hand, or the catch-up of a restart.
* `FollowUpKeepsStrength`: a waiting run still asks for the force flag and the mode that
  were asked for. Its run has as many slots as datasets, stays online and has no stray
  locks, because a deferral forgets both (see Observations).
* `CancelledRunEndsThere`: after a cancel, no retry and no follow-up of that run.
* `EventuallyDrained`: once users, watchers and schedules are quiet and the network stays
  up, slots, deferrals, debts and cancel flags are gone for good.
* `ChangeHasTimer`: while a reported change waits for its sync request, a timer thread is
  on its way to ask for it, also when it has lost its entry to an older timer.
* `EntryIsPending`: the timer an entry names runs or is about to pop an entry, so
  `has_pending_change` never answers for a dead one.
* `RegisteredIsWatched`: a registered dataset whose folder is there gets a live watcher,
  unless it is unregistered or the folder goes.
* `StatusSettles`: workers and resolutions write the status from counts and rows that the
  other makes old; once all is quiet, "conflict" and "synced" are true of the open
  conflicts. Left out, until the next result of a run that is not cancelled, is a row that a
  stale editor wrote, whose follow-up a cancel, a pause or a kill took, or whose run could
  store neither result nor failure. `SyncingHasRun`: "syncing" has a run on its way to a
  result, or the restore will reset it; the code leaves it without one where a stale editor
  writes it back and where a run raises and "error" cannot be stored. `PauseStays`: only resume and update end a pause.
* `DetachedIsRemembered`: whenever the service is killed during a removal or an adding,
  the data left in R2 is named by its row or by the note, unless the dataset was purged or
  another one of the same folder took the note (`superseded`). `OrphansOutlived`: a device
  row without a dataset was written by a run or an adding thread that outlived it.
* `ShownOnlineWasAlive`: shown online means alive within the timeout, plus the difference
  of the clocks. `RemovedStaysAway`: where a removal deleted the file and then the row and
  no refresh held a copy of the file at that moment, no refresh, whether it listed the files
  before, walked them meanwhile or comes later, brings the computer back; registering again
  does. A refresh with a copy in hand, and a remote delete that failed, do bring it back and
  are left out (see Observations). `OwnSeenGoesOn`: the own row never goes
  back in time to what R2 says.
* `CancelIsFinal`, `OutcomeOnlyWorsens`, `SlotIsReleased`, `DueJobMovesOn`: a canceled
  attempt is the last; a finished run's status becomes at most "failed"; the job can be
  run again; a due job is given a later time.
* `NoIdleWindow`: a window runs engines or there was a service to run them when it
  decided. `TrayJustified`: a "syncing" tray is about a run that goes on, a completion on
  its way, or one that fell into a gap. `TwoServicesDoNotLast`, `StreamResumes`: of two
  services one goes; an open window hears again of one that stays.
* `PublishedIsVerified`, `HalfInstallNotUsed`, `DownloadEnds`: an installer at its
  published path is the whole asset, or as long as it where the release has no digest; a
  cut-short rclone is not taken for one where the executable bit tells; the install button
  comes back.
* `DeletionsWithinNumber`, `AllowedIsNotRefused`: what is deleted is at most one percent of
  the files above the user's number, and no deletion within it pauses the dataset. Deletions
  made between a bisync and its repetition with `--force` have no limit (see Observations).

Bounds. One slot and two datasets already give every outcome of a request: started,
folded in, deferred. Two threads let one carry a follow-up while the other takes the slot
it gave back; the third of `queue_strength` and `queue_lifecycle` adds a run between
them. `queue_ceiling` stays online; deferral without network is in `queue_drains`, and in
the theorems. The watcher's two calls are enough for any of them to overtake another's
second critical section, and the supervisor and a failing thread add two more starts;
objects and timers are recycled, and a call that would need one more waits. Of the
two timers, an older one that has fired or was taken out of the map by a stop is there beside a
newer one; more threads and timers are left to the theorems. `MaxCrashes = 1` lets a crash fall in any step; after
it the state is again that of `Init` with locks and debts, so a second one adds nothing
new. In `dataset_rows` two commands overlap each other, a run, its follow-up and the
restore; the row they share is what can go wrong, so one dataset is enough. Notes that name
one of two datasets need a second one: the run does not reach them, the theorems of
`RowsProofs` do. The original is always in that folder, so *keep remote* does to the set of
files what *keep local* does and is left out to keep the run small; `keep_local` and the
theorems include it. `backup` lets two workers race for
one job, or one run meet two dialogs and kills. In `desktop`, two services and one window
are the smallest instance of every race; on Windows, where the port can be shared,
`TwoServicesDoNotLast` does not hold, so its run says `SharedPort = FALSE`. Four files and
the number 1 give percentages below, at and above what is rounded; the doubles of 1 / 1 to
1 / 4 are right, so `LandsAbove` is empty there, and the theorems have any. Worker threads, clients
and files are symmetric where no liveness is checked.

Fairness. The queue's `FairSpec`: a thread that can take its next step does (worker
threads, scheduler thread, the second halves of cancel and delete, `restore_sync_state`),
rclone processes end, and an abandoned lock expires (`--max-lock 5m`). The scheduler's
wait between ticks is finite, so ticks recur. Weak fairness suffices: the steps are
enabled until taken. Nothing is assumed of users, file changes, crashes or the network;
`Quiet` is the antecedent of the property, not part of the specification. The watcher's
asks for less than scheduling every thread: the supervisor goes on, whose wait is finite, and
of the timer and watcher threads and the calls that have begun some one that can, since what
they have to do is finite. `BackupJobs`: workers and the scheduler go on, rclone ends. `Desktop`: processes
that start and windows that open go on, the event thread reconnects, the window's event
loop runs. `Downloads`: a download ends, because its requests time out, and the window
hears of it. Users, kills, failures and folder events may never come. The deadlock check is
off where a bounded supply of commands, events or time runs out and nothing is left to do.

## Findings

* `keep_local`: `_scan_and_record_conflicts` records every file with "conflict" in its name
  but derives the original only from names with " (conflict"; any other file, like
  `notes.conflict1`, is its own original (`sync_engine.py:856-862`), and *keep local*
  removes it ("Keep local original, remove the conflict file", `sync_engine.py:920`). The
  affected copies are thus those that carry rclone's default name.

## Observations

These are behaviours of the models that no run checks a property about; the properties
leave them out by the quantifiers and history variables named here.

Queue and watcher. A sync cancelled while it is still prepared has no process to
terminate and transfers in full (`sync_engine.py:163`, `585`; docstring at 152: "Stop the
running sync"). A cancel raised while nothing runs belongs to the next run, whose follow-up
it drops (`160`; `IdleCancellable`). `_tick` lists rows (`scheduler.py:233`) before it
drains the deferrals (`237`), so a dataset resumed in between loses its deferral
(`Joinable`, `Volatile`). The direction of a joined dataset's first sync lives only in the
request (`sync_engine.py:392`): after a failure the first transfer runs with
`--resync-mode path1`. A pause between `start_watching`'s critical sections
(`watcher.py:602`, `645`), or after the row or the registrations were read, leaves a paused
dataset with a live watcher; `_on_watcher_change_event` reads the row again, which limits
the damage.

Rows. Re-adding a folder while it is removed lets `ForgetNote` erase the removal's note. A
run that survives its cancel uploads purged data again. A stale *update* writes an old
status back (`excused`). Notes have room for one dataset per folder, and the slower of two
removals of one dataset, or an adding thread whose row was removed meanwhile, writes its own
over the note of the folder's next one (`sync_engine.py:1042`; `superseded`). A paused dataset
gets no run at a restore (`daemon.py:155`), so a status that was to be written at the kill
stays wrong until it is resumed (`excused`). A copy kept by *keep both* is recorded again at
the next scan. A run that raises while "error" cannot be stored either leaves its row
"syncing" with no run until the next run, command or restart (`sync_engine.py:495-499`;
`unwritten`). A cancel that comes when a run has ended its transfer lets it write its result,
with a count of conflicts that may be older than a resolution, and drops the follow-up that
would have renewed it (`excused`). Failing writes of IPC threads and of
`restore_sync_state` end the command or the restore and are not modelled.

Devices. Every run rewrites `metadata/dataset.json` with its own computer as
`created_by_device`. A refresh never deletes rows of computers removed elsewhere. A removal
while a refresh is in flight, or whose remote delete fails, is undone by the refresh; a
removed computer registers again at its next sync.

Backups. What runs between `_running_jobs[job_id] = …` and the `try` (`backup_engine.py:118`)
leaks the slot if it raises; the model takes those calls not to. A manual job with a past
`next_run_at` is triggered at every tick (`scheduler.py:205`). A kill leaves `backup_runs`
"pending" for ever; `get_active_runs` selects a status that is never written.

Desktop. A second service overwrites the token before it fails to bind (`ipc_server.py:73`;
that writing it may itself fail, line 81, is not modelled), a late service and a window's
engines may both run (`TwoServicesDoNotLast` is about services), and a window whose service dies after it decided sends commands to nobody.
A scheduler in a window drains no deferrals (`app.py:155`).

Downloads. A check that ends during a download enables the install button again; a second
download truncates the first one's `.part` file (`doubled`). On Windows nothing tells a
cut-short rclone from a whole one, and two threads that unpack it trample each other
(`trampled`).

Deletion guard. A file that cannot be looked at is passed over by the count, and an edit
between run and count is counted though bisync has not seen it (`drift`). A threshold of 0
means 50. The percentage is a double, rounded up: 7, 14, 28, 55 and 56 of 100 become one
more than they are (`rclone_engine.py:240`; `LandsAbove`). A bisync that aborts because every
file changed is repeated at once with `--force` (`sync_engine.py:625-652`), of which the comments
say "the deletion ceiling above still applies" (`rclone_engine.py:881-882`,
`sync_engine.py:627-628`). rclone documents the flag as bypassing `--max-delete` too, so the
ceiling holds for what the first bisync saw, not for what is deleted before its repetition:
`DeletionsWithinNumber` does not count those files (`late`), and without that exception TLC finds
it violated. rclone is not part of the repository, which is why this is an observation.

## Proofs

Checked by TLAPS for all values of the constants, under the named assumptions on them:
finite sets, a positive ceiling, setup modes that are modes, subsets that are subsets;
for the guard a finite set of files, numbers that are naturals, and doubles that land above
only what is a whole percentage; for rows and jobs at
least one dataset, copy, job and schedule, which give what idle threads hold; for downloads
at least one block. Every safety invariant and action property of the runs is
the property of a theorem, one of them under a further hypothesis (`FollowUpsKeepStrength`).
The bounds on events, crashes and time are constants too, so the theorems hold for each.

### The queue: `SyncServiceProofs`

The base is `EngineInv /\ RestTypeOK` (`Invariance`). `TypeOK` alone is not inductive:
`BusyWorkers` says that every thread but an idle one has a dataset and a request, which
types the queues after its steps; `SlotHasOneWorker` is needed for the ceiling, since
`trigger_sync_async` counts slots while the property counts threads (the map from threads
to their slots is an injection); `SlotsWithinCeiling` is the count the code itself looks
at; `CancelFlagStays` says that the flag of a cancelled run is up until that run finishes,
which is what `is_cancel_requested` and `_finish_sync` rely on. From it:

* `TypeCorrect`: `Spec => []TypeOK`
* `SlotsCorrect`: `Spec => []SlotHasOneWorker`
* `FollowUpCorrect`: `Spec => []FollowUpBehindRun`
* `CeilingCorrect`: `Spec => []ConcurrencyCeiling`
* `CancelCorrect`: `Spec => CancelledRunEndsThere`

`RequestsRemembered` is `Spec => []NoRequestForgotten`. Its invariant `MemoryInv` adds that a
tick about to drain has listed every settled dataset (`TickListsAll`), that a cancel flag of
such a dataset belongs to the run that holds its slot (`FlagBelongsToRun`), that an rclone
result is held only by a worker that is looking at it (`OutcomeWhenReturned`), and that the
rows stay enabled (`RowsSettled`).

`PromiseHolds` is `Spec => PromiseKept`. Initial states map to initial states; then, action by
action and under both invariants above, each step of `SyncService` is a step of `SyncPromise`
or leaves its three variables alone. The pairing of slots with threads is what makes `Phase`
well defined, and `TickListsAll` what keeps a deferral from vanishing in `TakeDeferred` for
the datasets outside `Unkept`.

`FollowUpsKeepStrength` is `Spec => []FollowUpKeepsStrength` where nothing is deferred: a
deferral, a lock conflict and a restart forget mode and force flag (see Observations), so its
hypothesis `NothingDeferred` asks for a slot for every dataset, a network that stays up, a
service that is not killed, and no cancel or stray rclone of the datasets the property is
about. `queue_strength` is an instance of it; datasets, threads, follow-ups, forced syncs and
what happens to volatile datasets beside them are arbitrary. The invariant
`StrengthInv` adds that a lasting dataset's lock file is that of its own running rclone, so
that it is never met (with the pairing of slots and threads); that nothing works for a dataset
before it has a row; and that all requests for a dataset agree on its direction
(`OneDirection`), without which `Fold`, which keeps the older mode, and `Owing`, which takes
the newer one, would part.

### The watcher: `WatcherProofs`

`Inv` is inductive for any number of threads, watcher objects, timers and calls. Types alone
do not keep a change: `TakenIsNoEntry` says that the timer a stop took out of the map is no
longer the entry, so that cancelling it late cannot cancel a newer timer; `ChangeIsSafe` says
that a reported change has a timer that no stop is about to cancel; `StartHasTarget` types the
registrations. From it `WatcherTypeCorrect`, `ChangeKept` (`Spec => []ChangeHasTimer`) and
`PendingChangeReal` (`Spec => []EntryIsPending`).

### The rows: `RowsProofs`

For any number of datasets of the folder, clients, copies, commands, conflicts and kills:
`TypeCorrect`, `SyncingEnds` (`[]SyncingHasRun`), `OrphansExplained` (`[]OrphansOutlived`),
`NoteSurvives` (`[]DetachedIsRemembered`), `StatusTrue` (`[]StatusSettles`), `PauseKept`
(`Spec => PauseStays`). Each property speaks of rows at rest, or of rows alone; the invariant
must say what the threads under way will do to them:

* `NotStuck`: what a run that meets a lock writes back is the status it read, so a run must
  never have read "syncing"; and a listed row is only sure to be reset if it was listed as
  interrupted. A run that raises is past either way: "error" is stored, or its dataset is
  `unwritten`.
* `OutlivedInv`: a run past its first look at the row, and a thread about to register the
  computer, have a row or have outlived it.
* `NoteInv`: one dataset per folder and one thread that moves it, all others being superseded
  (`OneRow`, `OneMover`); what that thread knows of the row and the note (`ThreadInv`); and a
  dataset that has data, or whose run may still write some, has its row or the note.
* `SettlesInv`: a status that does not tell the conflicts is owed a run (`StatusTells`), and a
  count that is old has another run certain to come behind it, or belongs to a cancelled run
  (`CountTells`). A run is certain
  to come when it is pending, or when a thread is past its last early return (`Committed`).

Attempts to prove these corrected the module. `NoteInv` failed where the slower of two removals
overwrites the note of the folder's next dataset, which the history did not
excuse; `StatusTells` failed at the restore of a paused row; two CASE arms of
`ResolveFile` overlapped. The code is as the Observations say; histories and arms are
now exact.

### The other components

`DevicesProofs`: `TypeCorrect`, `NobodyOnlineForEver` (`[]ShownOnlineWasAlive`), `RemovalLasts`
(`[]RemovedStaysAway`), `OwnRowGoesOn` (`Spec => OwnSeenGoesOn`), for any computers and clocks.
A table tells of a computer what some file told, so `SeenIsPast` bounds all places
where a time is kept, also the files a refresh has in hand, by the computer's clock when it
last ran; `NothingLeft` says that of a removed computer nothing is left in any of them.

`BackupProofs`: `TypeCorrect`, `CancelEndsTheRun` (`[]CancelIsFinal`), `ResultsStay`
(`Spec => OutcomeOnlyWorsens`), `SlotsOccupied` (`[]SlotIsOccupied`, stated with the proofs
and in no run), for any jobs, workers and retries. Two workers may share a job's slot; what keeps the history truthful is that no two share a run (`OwnRun`), that run
numbers are not given out twice (`NoRunAhead`), and that a worker that has not recorded its
result finds none (`ResultIsNew`). `TurnLeft` bounds the retry loop. `SlotIsOccupied` (a job
registered as running has a thread that makes that run and is on its way to release it)
needs no more than the types: of two workers of one job the later one to register owns the slot,
and whichever releases first empties it. It is the safety half of `SlotIsReleased`, which
adds that the worker is scheduled.

`DesktopProofs`: `TypeCorrect`, `SomebodyWorks` (`[]NoIdleWindow`), `TrayTrue`
(`[]TrayJustified`), for any services and windows. That some engine is busy is not
inductive for the tray, because the engines of another window end with that window and
nobody hears of it: `BusyIsHeard` says that a window that looks busy has a run of its own, or
a service has one, or the window missed the end.

`DownloadsProofs`: `TypeCorrect`, `OnlyVerifiedIsPublished` (`[]PublishedIsVerified`),
`HalvesAreNotRun` (`[]HalfInstallNotUsed`), for any threads, lengths and events, with and without
a digest. What was received is not what is published unless the two are one file: `UpdateInv`
says that without a second download one thread is between click and publication and the
`.part` file is what it received; `RcloneInv` the same of the threads that unpack.

`DeletionGuardProofs`: `GuardTypeCorrect`, `NumberKept` and `AllowedPasses`, for every number and
every set of files. The properties are about the last sync only, so the invariant adds
`CountIsCurrent`: between runs the row's total is the number of files bisync remembers,
during the count the folder is what bisync remembers, unless there was a drift; and
`ForcedIsLimited`: what a repetition with `--force` will delete, less what was edited since, was
within the limit of the first bisync. The arithmetic is `PercentFacts`: rounded up and
clamped, the percentage of the total is at least the number (or everything) and at most one
percent of the total above it, where a double that lands above can only be that of a whole
percentage (`LandsAboveAssumption`).

### Only model-checked

Liveness under fairness (`EventuallyDrained`, `RegisteredIsWatched`, `SlotIsReleased`,
`DueJobMovesOn`, `TwoServicesDoNotLast`, `StreamResumes`, `DownloadEnds`), which with `ENABLED`
and induction over data is outside what the installed provers can do; and
`KeepLocalKeepsOriginal`, which does not hold (see Findings).

## Plan

1. The safety halves of the liveness properties as invariants with proofs: a registered folder
   without a live watcher has a thread on its way to one, a download in progress has its
   thread (for the job slots it is done: `SlotIsOccupied`).
2. The abstract watcher (reported changes, requests) and its refinement, as for the queue.
3. The watcher composed with the queue: a change of a watched dataset is in the end
   requested.

## Not modelled

Parsing of rclone's output and of native notification records, exclusion patterns and the
phase tracker compute on text and feed displays or decide what one event is. Credentials,
speed profiles and the R2 client are sequential wrappers of platform and HTTP calls.
Views, styles and terminal clients act on the service only through the commands that are
modelled. Replies to single IPC calls carry no state and are left out, and with them the
bytes on a socket: a reply and a broadcast are sent by different threads under no common
lock (`ipc_server.py:162`, `179-192`), so a long one may be mixed with another; the event
stream's socket carries no calls after it is set up. Packaging, paths and logging are pure
I/O.
