---------------------------- MODULE SyncService ----------------------------
(***************************************************************************)
(* The r2sync background service around the SyncEngine: the JobScheduler   *)
(* thread (core/scheduler.py), the watcher timers and IPC threads that     *)
(* request, cancel, pause, resume, add and delete syncs                    *)
(* (service/ipc_server.py), service restarts (service/daemon.py), and the  *)
(* network.  The queue itself is in SyncEngine.                            *)
(***************************************************************************)
EXTENDS SyncEngine

CONSTANTS
  Manual,           \* datasets with schedule_mode "manual"
  Forceable,        \* datasets the user runs "sync now" with force_resync on
  Cancellable,      \* datasets whose running sync the user may cancel
  IdleCancellable,  \* datasets cancelled also while no sync of theirs runs
  Joinable,         \* datasets without a row at first, created or joined later
  Volatile,         \* datasets the user pauses, resumes and deletes
  CanDisconnect,    \* the network may go down
  MaxCrashes        \* bound on service crashes

ASSUME ManualAssumption == Manual \subseteq Datasets
ASSUME ForceableAssumption == Forceable \subseteq Datasets
ASSUME CancellableAssumption == Cancellable \subseteq Datasets
ASSUME IdleCancellableAssumption == IdleCancellable \subseteq Datasets
ASSUME JoinableAssumption == Joinable \subseteq Datasets
ASSUME VolatileAssumption == Volatile \subseteq Datasets
ASSUME CanDisconnectAssumption == CanDisconnect \in BOOLEAN
ASSUME CrashesAssumption == MaxCrashes \in Nat

VARIABLES
  tick,      \* the scheduler thread: where _tick is, the datasets it listed
             \* and those it still has to trigger
  killing,   \* cancels between their two critical sections
  deleting,  \* delete_dataset calls between cancel_sync and the row's deletion
  service,   \* "starting" until restore_sync_state has run, then "up"
  crashes    \* service crashes so far

callerVars == <<tick, killing, deleting>>
vars == <<engineVars, callerVars, service, crashes>>

RowStates == {"absent", "paused", "enabled"}
IdleTick == [pc |-> "idle", listed |-> {}, due |-> {}]

TypeOK ==
  /\ activeSyncs \subseteq Datasets
  /\ pendingSyncs \in [Datasets -> Requests \cup {NoRequest}]
  /\ deferredSyncs \subseteq Datasets
  /\ cancelRequested \subseteq Datasets
  /\ worker \in [Workers -> WorkerStates]
  /\ row \in [Datasets -> RowStates]
  /\ initialSyncDone \subseteq Datasets
  /\ online \in BOOLEAN
  /\ lockFile \subseteq Datasets
  /\ owed \in [Datasets -> Requests \cup {NoRequest}]
  /\ tick \in [pc : {"idle", "listed", "running"},
               listed : SUBSET Datasets, due : SUBSET Datasets]
  /\ killing \subseteq Datasets
  /\ deleting \subseteq Datasets
  /\ service \in {"starting", "up"}
  /\ crashes \in 0..MaxCrashes

\* The service has just started: the engine is empty, rows are what an earlier
\* life left, and a killed rclone may have left its lock file.
Init ==
  /\ activeSyncs = {}
  /\ pendingSyncs = [d \in Datasets |-> NoRequest]
  /\ deferredSyncs = {}
  /\ cancelRequested = {}
  /\ worker = [w \in Workers |-> IdleWorker]
  /\ row \in [Datasets -> RowStates]
  /\ \A d \in Datasets : row[d] = "absent" <=> d \in Joinable
  /\ \A d \in Datasets : row[d] = "paused" => d \in Volatile
  /\ initialSyncDone \in SUBSET {d \in Datasets : row[d] # "absent"}
  /\ online = TRUE
  /\ lockFile \in SUBSET StrayLocks
  /\ owed = [d \in Datasets |-> NoRequest]
  /\ tick = IdleTick
  /\ killing = {}
  /\ deleting = {}
  /\ service = "starting"
  /\ crashes = 0

-----------------------------------------------------------------------------
(* JobScheduler._tick *)

\* list_sync_datasets(): the rows the rest of this tick will look at.
ListDatasets ==
  /\ tick.pc = "idle"
  /\ tick' = [IdleTick EXCEPT !.pc = "listed",
                              !.listed = {d \in Datasets : row[d] = "enabled"}]
  /\ UNCHANGED <<engineVars, killing, deleting, service, crashes>>

\* The deferred set is drained.  Only listed datasets are triggered: those that
\* were deferred, and those whose schedule says so (which ones is left open).
TakeDeferred ==
  /\ tick.pc = "listed"
  /\ \E scheduled \in SUBSET (tick.listed \ Manual) :
       tick' = [tick EXCEPT !.pc = "running", !.listed = {},
                            !.due = (tick.listed \cap deferredSyncs) \cup scheduled]
  /\ deferredSyncs' = {}
  /\ UNCHANGED <<activeSyncs, pendingSyncs, cancelRequested, worker, dbVars,
                 online, lockFile, owed, killing, deleting, service, crashes>>

\* The loop triggers the due datasets one by one.
RunDue(d) ==
  /\ tick.pc = "running"
  /\ d \in tick.due
  /\ TriggerSync(d, PlainRequest, {})
  /\ tick' = [tick EXCEPT !.due = @ \ {d}]
  /\ UNCHANGED <<dbVars, online, lockFile, killing, deleting, service, crashes>>

TickEnds ==
  /\ tick.pc = "running"
  /\ tick.due = {}
  /\ tick' = IdleTick
  /\ UNCHANGED <<engineVars, killing, deleting, service, crashes>>

-----------------------------------------------------------------------------
(* Watcher timers: _on_watcher_change_event *)

\* A debounced change: the row is read, then the sync requested.  The two are
\* one step here: a pause or a delete that falls between them leads where
\* SyncNow, which does not look at "paused", and BeginDelete lead.
WatcherTriggers(d) ==
  /\ service = "up"
  /\ row[d] = "enabled"
  /\ d \notin Manual
  /\ TriggerSync(d, PlainRequest, {})
  /\ UNCHANGED <<dbVars, online, lockFile, callerVars, service, crashes>>

-----------------------------------------------------------------------------
(* IPC handlers *)

\* sync_dataset_now
SyncNow(d) ==
  /\ row[d] # "absent"
  /\ \E f \in IF d \in Forceable THEN BOOLEAN ELSE {FALSE} :
       TriggerSync(d, [PlainRequest EXCEPT !.force = f], {})
  /\ UNCHANGED <<dbVars, online, lockFile, callerVars, service, crashes>>

\* create_and_init_dataset and join_remote_dataset: a new row, then the first
\* sync, which must go the way SetupMode says.
AddDataset(d) ==
  /\ d \in Joinable
  /\ row[d] = "absent"
  /\ row' = [row EXCEPT ![d] = "enabled"]
  /\ initialSyncDone' = initialSyncDone \ {d}
  /\ TriggerSync(d, [mode |-> SetupMode[d], force |-> TRUE], {})
  /\ UNCHANGED <<online, lockFile, callerVars, service, crashes>>

\* pause_sync_dataset: the running sync and the queue are left alone.
Pause(d) ==
  /\ d \in Volatile
  /\ row[d] = "enabled"
  /\ row' = [row EXCEPT ![d] = "paused"]
  /\ UNCHANGED <<queueVars, worker, initialSyncDone, online, lockFile, owed,
                 callerVars, service, crashes>>

\* resume_sync_dataset
Resume(d) ==
  /\ d \in Volatile
  /\ row[d] = "paused"
  /\ row' = [row EXCEPT ![d] = "enabled"]
  /\ TriggerSync(d, PlainRequest, {})
  /\ UNCHANGED <<initialSyncDone, online, lockFile, callerVars, service, crashes>>

\* Which datasets clients cancel, and when; the handler itself has no guard.
MayCancel(d) == d \in IdleCancellable \/ (d \in Cancellable /\ d \in activeSyncs)

\* cancel_sync_dataset
CancelSync(d) ==
  /\ MayCancel(d)
  /\ CancelRequest(d)
  /\ killing' = killing \cup {d}
  /\ UNCHANGED <<dbVars, online, lockFile, tick, deleting, service, crashes>>

\* cancel_sync's second half, after the engine's lock is released.
CancelBisync(d) ==
  /\ d \in killing
  /\ TerminateBisync(d)
  /\ killing' = killing \ {d}
  /\ UNCHANGED <<queueVars, dbVars, online, owed, tick, deleting, service, crashes>>

\* delete_dataset up to the end of cancel_sync's first half.
BeginDelete(d) ==
  /\ d \in Volatile
  /\ row[d] # "absent"
  /\ CancelRequest(d)
  /\ killing' = killing \cup {d}
  /\ deleting' = deleting \cup {d}
  /\ UNCHANGED <<dbVars, online, lockFile, tick, service, crashes>>

\* delete_dataset from the removal of the workdir on.
DeleteRow(d) ==
  /\ d \in deleting
  /\ d \notin killing
  /\ row' = [row EXCEPT ![d] = "absent"]
  /\ lockFile' = lockFile \ {d}
  /\ deleting' = deleting \ {d}
  /\ UNCHANGED <<queueVars, worker, initialSyncDone, online, owed, tick,
                 killing, service, crashes>>

-----------------------------------------------------------------------------
(* Service restarts and the environment *)

\* The process dies.  Only the database and the lock files survive; an rclone
\* child may outlive it.  Nobody promised a manual dataset a second run, but
\* what an automatic one had in flight is owed again.
Crash ==
  /\ crashes < MaxCrashes
  /\ crashes' = crashes + 1
  /\ activeSyncs' = {}
  /\ pendingSyncs' = [d \in Datasets |-> NoRequest]
  /\ deferredSyncs' = {}
  /\ cancelRequested' = {}
  /\ worker' = [w \in Workers |-> IdleWorker]
  /\ owed' = [d \in Datasets |->
                IF d \in Manual THEN NoRequest
                ELSE IF Transferring(d) THEN PlainRequest
                ELSE owed[d]]
  /\ tick' = IdleTick
  /\ killing' = {}
  /\ deleting' = {}
  /\ service' = "starting"
  /\ UNCHANGED <<dbVars, online, lockFile>>

\* restore_sync_state: every automatic dataset gets a catch-up run.  It comes
\* after the scheduler and the IPC server have started.
RestoreSyncState ==
  /\ service = "starting"
  /\ MarkNeedsSync({d \in Datasets : row[d] = "enabled" /\ d \notin Manual})
  /\ service' = "up"
  /\ UNCHANGED <<activeSyncs, pendingSyncs, cancelRequested, worker, dbVars,
                 online, lockFile, owed, callerVars, crashes>>

\* MUTANT of ExpireLock: bisync without --max-lock.
LockNeverExpires(d) == FALSE

\* An abandoned lock expires (--max-lock) or goes with the stray rclone that
\* held it; a run the service looks after renews its own.
ExpireLock(d) ==
  /\ d \in lockFile
  /\ ~Transferring(d)
  /\ lockFile' = lockFile \ {d}
  /\ UNCHANGED <<queueVars, worker, dbVars, online, owed, callerVars, service, crashes>>

Disconnect ==
  /\ CanDisconnect
  /\ online
  /\ online' = FALSE
  /\ UNCHANGED <<queueVars, worker, dbVars, lockFile, owed, callerVars, service, crashes>>

Reconnect ==
  /\ ~online
  /\ online' = TRUE
  /\ UNCHANGED <<queueVars, worker, dbVars, lockFile, owed, callerVars, service, crashes>>

-----------------------------------------------------------------------------

SyncWorker(w) == WorkerStep(w) /\ UNCHANGED <<callerVars, service, crashes>>

Environment ==
  \/ \E d \in Datasets :
       \/ WatcherTriggers(d) \/ SyncNow(d) \/ AddDataset(d) \/ Pause(d) \/ Resume(d)
       \/ CancelSync(d) \/ BeginDelete(d)
  \/ Crash
  \/ Disconnect \/ Reconnect

Next ==
  \/ \E w \in Workers : SyncWorker(w)
  \/ ListDatasets \/ TakeDeferred \/ TickEnds
  \/ \E d \in Datasets :
       \/ RunDue(d) \/ CancelBisync(d) \/ DeleteRow(d)
       \/ ExpireLock(d)
  \/ RestoreSyncState
  \/ Environment

Spec == Init /\ [][Next]_vars

\* Threads that can run do run, rclone processes end, abandoned locks expire.
\* Nothing is assumed of users, file changes, crashes or the network.
Fairness ==
  /\ \A w \in Workers : WF_vars(SyncWorker(w))
  /\ WF_vars(ListDatasets) /\ WF_vars(TakeDeferred) /\ WF_vars(TickEnds)
  /\ WF_vars(\E d \in Datasets : RunDue(d))
  /\ \A d \in Datasets :
       /\ WF_vars(CancelBisync(d))
       /\ WF_vars(DeleteRow(d)) /\ WF_vars(ExpireLock(d))
  /\ WF_vars(RestoreSyncState)

FairSpec == Spec /\ Fairness

-----------------------------------------------------------------------------
(* Safety *)

\* A slot in _active_syncs is owned by exactly one live worker thread and every
\* worker thread owns the slot of its dataset: no run starts beside another of
\* the same dataset, and no slot leaks ("the whole body is wrapped so the
\* per-dataset slot is always released").
SlotHasOneWorker ==
  /\ \A d \in activeSyncs : \E w \in Workers : HoldsSlot(w) /\ worker[w].ds = d
  /\ \A w \in Workers : HoldsSlot(w) => worker[w].ds \in activeSyncs
  /\ \A v, w \in Workers :
       HoldsSlot(v) /\ HoldsSlot(w) /\ worker[v].ds = worker[w].ds => v = w

\* However follow-ups, scheduler, watchers and users race for slots, there are
\* never more running sync workers (so rclone bisync processes this service
\* still looks after) than SYNC_MAX_CONCURRENT_DATASETS.
ConcurrencyCeiling ==
  Cardinality({w \in Workers : HoldsSlot(w)}) <= MaxConcurrentSyncs

\* A follow-up waits only behind a running sync of its dataset, whose end will
\* pick it up (has_pending_sync); one left behind by itself would never run.
FollowUpBehindRun ==
  \A d \in Datasets : pendingSyncs[d] # NoRequest => d \in activeSyncs

\* A thread in this state still has its request's transfer before it.
Awaiting(s) ==
  \/ s.pc \in {"loading", "checking", "starting", "carrying"}
  \/ s.pc = "returned" /\ s.outcome = "lock_conflict"

\* The engine still leads to a transfer of d.
HeldByEngine(d) ==
  \/ d \in deferredSyncs
  \/ pendingSyncs[d] # NoRequest
  \/ \E w \in Workers : worker[w].ds = d /\ Awaiting(worker[w])

\* Something in the service still leads to a transfer of d.
Held(d) ==
  \/ HeldByEngine(d)
  \/ d \in tick.due
  \/ service = "starting" /\ d \notin Manual

Remembered(D) ==
  \A d \in D : row[d] = "enabled" /\ owed[d] # NoRequest => Held(d)

\* A sync somebody asked for is never forgotten: until a transfer starts, the
\* user is told of an error, or the running sync is cancelled, some queue or
\* thread still holds it -- through coalescing, the concurrency ceiling, lost
\* network, lock conflicts, scheduler ticks and (for automatic datasets)
\* service crashes.  Datasets added, paused, deleted or cancelled while
\* idle are left out: for them a request can get lost.
NoRequestForgotten ==
  Remembered(Datasets \ (Joinable \cup Volatile \cup IdleCancellable))

\* The requests held for d.
HeldRequests(d) ==
  ({pendingSyncs[d]} \cup
   {worker[w].req : w \in {v \in Workers :
      /\ worker[v].ds = d
      /\ worker[v].pc \in {"loading", "checking", "starting", "carrying"}}})
  \ {NoRequest}

\* "A follow-up must be at least as strong as the strongest request that was
\* folded into it": a forced re-baseline, or the direction of a first sync, is
\* still asked for by a waiting run even when the follow-up lost the race for
\* its slot and was folded again.
FollowUpKeepsStrength ==
  \A d \in Datasets \ (Volatile \cup IdleCancellable) : owed[d] # NoRequest =>
    /\ owed[d].force => \E r \in HeldRequests(d) : r.force
    /\ owed[d].mode # "none" => \E r \in HeldRequests(d) : r.mode = owed[d].mode

\* Cancel makes "sure nothing immediately restarts it": a run the user
\* cancelled makes no further attempt after the one that returned, and its end
\* starts no follow-up.
CancelledRunEndsThere ==
  [][\A w \in Workers : worker[w].cancelled =>
       /\ worker[w].pc = "returned" => worker'[w].pc # "starting"
       /\ worker[w].pc = "finishing" => worker'[w].pc # "carrying"]_vars

-----------------------------------------------------------------------------
(* Liveness *)

\* The scheduler triggers a dataset for its schedule and not as a deferral.
ScheduledPass == tick.pc = "listed" /\ ~(tick'.due \subseteq deferredSyncs)

\* From some point on nobody asks for anything and the network stays up.
Quiet == <>[][~Environment /\ ~ScheduledPass]_vars /\ <>[]online

Drained ==
  /\ activeSyncs = {}
  /\ deferredSyncs = {}
  /\ cancelRequested \subseteq IdleCancellable \cup Volatile
  /\ \A d \in Datasets : owed[d] # NoRequest => d \in Volatile \cup IdleCancellable

\* Once quiet, every run ends, every slot is free, every deferral and follow-up
\* has had its transfer, and no cancel flag is left for a later run to trip on.
EventuallyDrained == Quiet => <>[]Drained

=============================================================================
