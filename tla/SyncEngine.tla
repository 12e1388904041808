----------------------------- MODULE SyncEngine -----------------------------
(***************************************************************************)
(* The run queue of r2sync's SyncEngine (src/r2sync/core/sync_engine.py):  *)
(* which datasets hold a sync slot, which follow-ups and deferrals wait,   *)
(* and the worker threads that run rclone bisync for them.                 *)
(*                                                                         *)
(* The engine's own fields are guarded by SyncEngine._lock, so each        *)
(* critical section is one action.  Everything a worker does between two   *)
(* critical sections is a step of its own, because the scheduler, the IPC  *)
(* threads, the watcher timers and other workers run in between.           *)
(*                                                                         *)
(* This module gives the operations; SyncService calls them from the       *)
(* threads of the service and states the specification.                    *)
(***************************************************************************)
EXTENDS Integers, FiniteSets

CONSTANTS
  Datasets,             \* dataset ids
  Workers,              \* identities for sync-worker threads (a bound on how
                        \* many exist at once, carriers of follow-ups included)
  MaxConcurrentSyncs,   \* config.SYNC_MAX_CONCURRENT_DATASETS
  SetupMode,            \* the resync mode a dataset is created or joined with
  StrayLocks,           \* datasets whose rclone may be left behind, with its
                        \* lock file, by a run that is over
  NoDataset, NoRequest  \* "nothing here" values

Modes == {"path1", "path2", "newer"}

\* The two optional arguments of trigger_sync_async.
Requests == [mode : Modes \cup {"none"}, force : BOOLEAN]

\* trigger_sync_async(dataset_id): what the watcher, the scheduler and resume ask.
PlainRequest == [mode |-> "none", force |-> FALSE]

ASSUME DatasetsAssumption == IsFiniteSet(Datasets) /\ NoDataset \notin Datasets
ASSUME WorkersAssumption == IsFiniteSet(Workers)
ASSUME CeilingAssumption == MaxConcurrentSyncs \in Nat \ {0}
ASSUME SetupAssumption == SetupMode \in [Datasets -> Modes]
ASSUME StrayLocksAssumption == StrayLocks \subseteq Datasets
ASSUME NoRequestAssumption == NoRequest \notin Requests

VARIABLES
  activeSyncs,      \* keys of _active_syncs
  pendingSyncs,     \* _pending_syncs: the follow-up folded behind a run
  deferredSyncs,    \* _deferred_syncs
  cancelRequested,  \* _cancel_requested
  worker,           \* the sync-worker threads
  row,              \* the sync_datasets row: absent, paused or enabled
  initialSyncDone,  \* datasets whose row has initial_sync_done = 1
  online,           \* what check_internet_connection() would say
  lockFile,         \* datasets whose bisync workdir holds rclone's lock file
  owed              \* HISTORY: the requests no transfer has started for yet

queueVars == <<activeSyncs, pendingSyncs, deferredSyncs, cancelRequested>>
dbVars == <<row, initialSyncDone>>
engineVars == <<queueVars, worker, dbVars, online, lockFile, owed>>

-----------------------------------------------------------------------------
(* Worker threads *)

\* Where a sync-worker thread is between two of its atomic steps.
PCs == {"idle", "loading", "checking", "starting", "transferring",
        "returned", "finishing", "carrying"}

\* From trigger_sync_async's insertion to _finish_sync's pop the thread owns
\* its dataset's slot; a thread that carries a follow-up has given it back.
SlotPCs == PCs \ {"idle", "carrying"}

Attempts == {"first", "rebuild", "force"}

\* What run_bisync's result makes _execute_sync tell apart.  "attention" is
\* mass_deletion_triggered or empty_source_abort, "failed" every other error.
ExitOutcomes == {"success", "needs_resync", "all_changed", "attention", "failed"}
Outcomes == ExitOutcomes \cup {"none", "lock_conflict"}

WorkerStates ==
  [pc : PCs, ds : Datasets \cup {NoDataset}, req : Requests \cup {NoRequest},
   attempt : Attempts, fresh : BOOLEAN, outcome : Outcomes, cancelled : BOOLEAN]

IdleWorker ==
  [pc |-> "idle", ds |-> NoDataset, req |-> NoRequest, attempt |-> "first",
   fresh |-> FALSE, outcome |-> "none", cancelled |-> FALSE]

\* The thread trigger_sync_async starts.  fresh: the worker's snapshot of the
\* row says initial_sync_done = 0.  cancelled (history): the user cancelled
\* while this run held the slot.
NewWorker(d, r) == [IdleWorker EXCEPT !.pc = "loading", !.ds = d, !.req = r]

HoldsSlot(w) == worker[w].pc \in SlotPCs
Transferring(d) == \E w \in Workers : worker[w].pc = "transferring" /\ worker[w].ds = d

\* run_bisync's did_resync for the attempt the worker is on.
DidResync(w) ==
  \/ worker[w].attempt = "rebuild"
  \/ worker[w].req.force
  \/ worker[w].req.mode # "none"
  \/ worker[w].fresh

-----------------------------------------------------------------------------
(* Requests *)

\* MUTANT of Fold: the latest request replaces the entry.
FoldKeepsLatest(old, r) == r

\* The _pending_syncs entry after a request is folded into it.
Fold(old, r) ==
  IF old = NoRequest THEN r
  ELSE [mode |-> IF old.mode # "none" THEN old.mode ELSE r.mode,
        force |-> old.force \/ r.force]

\* HISTORY: what is owed after one more request.
Owing(old, r) ==
  IF old = NoRequest THEN r
  ELSE [mode |-> IF r.mode = "none" THEN old.mode ELSE r.mode,
        force |-> TRUE \in {old.force, r.force}]

\* MUTANT of AtCeiling: one run too many is let in.
AtCeilingOffByOne == Cardinality(activeSyncs) > MaxConcurrentSyncs

\* No slot is free: len(_active_syncs) >= max_concurrent_syncs.
AtCeiling == Cardinality(activeSyncs) >= MaxConcurrentSyncs

\* trigger_sync_async(d, r).  "ended" holds the caller itself when a worker
\* calls it as its last act; its identity is free for the thread started here.
TriggerSync(d, r, ended) ==
  /\ owed' = [owed EXCEPT ![d] = Owing(@, r)]
  /\ \/ /\ d \in activeSyncs
        /\ pendingSyncs' = [pendingSyncs EXCEPT ![d] = Fold(@, r)]
        /\ worker' = [w \in Workers |-> IF w \in ended THEN IdleWorker ELSE worker[w]]
        /\ UNCHANGED <<activeSyncs, deferredSyncs>>
     \/ /\ d \notin activeSyncs
        /\ AtCeiling
        /\ deferredSyncs' = deferredSyncs \cup {d}
        /\ worker' = [w \in Workers |-> IF w \in ended THEN IdleWorker ELSE worker[w]]
        /\ UNCHANGED <<activeSyncs, pendingSyncs>>
     \/ /\ d \notin activeSyncs
        /\ ~AtCeiling
        /\ activeSyncs' = activeSyncs \cup {d}
        /\ \E t \in Workers :
             /\ worker[t].pc = "idle" \/ t \in ended
             /\ worker' = [w \in Workers |-> IF w = t THEN NewWorker(d, r)
                                             ELSE IF w \in ended THEN IdleWorker
                                             ELSE worker[w]]
        /\ UNCHANGED <<pendingSyncs, deferredSyncs>>
  /\ UNCHANGED cancelRequested

\* MUTANT of MarkNeedsSync: the dataset is not remembered.
MarkNothing(D) == UNCHANGED deferredSyncs

\* mark_needs_sync, for every dataset of D.
MarkNeedsSync(D) == deferredSyncs' = deferredSyncs \cup D

\* MUTANT of PendingWithout: the entry is read but not popped.
PendingKept(d) == pendingSyncs

\* MUTANT of PendingWithout: the popped key is gone for the next reader.
PendingKeyGone(d) == [x \in Datasets \ {d} |-> pendingSyncs[x]]

\* _pending_syncs.pop(d, None)
PendingWithout(d) == [pendingSyncs EXCEPT ![d] = NoRequest]

\* The critical section of cancel_sync.  A request made before it is withdrawn.
CancelRequest(d) ==
  /\ cancelRequested' = cancelRequested \cup {d}
  /\ pendingSyncs' = PendingWithout(d)
  /\ deferredSyncs' = deferredSyncs \ {d}
  /\ owed' = [owed EXCEPT ![d] = NoRequest]
  /\ worker' = [w \in Workers |->
                  IF HoldsSlot(w) /\ worker[w].ds = d
                  THEN [worker[w] EXCEPT !.cancelled = TRUE] ELSE worker[w]]
  /\ UNCHANGED activeSyncs

\* A run that carried --resync is never diagnosed as needing one.
MayReport(w, o) == o = "needs_resync" => ~DidResync(w)

\* cancel_bisync: terminate the registered rclone process, if there is one.  What
\* rclone had logged by then still counts, and its lock file may stay behind.
TerminateBisync(d) ==
  /\ \E o \in ExitOutcomes \ {"success"} :
       /\ \A w \in Workers : worker[w].ds = d => MayReport(w, o)
       /\ worker' = [w \in Workers |->
                       IF worker[w].pc = "transferring" /\ worker[w].ds = d
                       THEN [worker[w] EXCEPT !.pc = "returned", !.outcome = o]
                       ELSE worker[w]]
  /\ IF Transferring(d) THEN lockFile' \in {lockFile, lockFile \ {d}}
                        ELSE UNCHANGED lockFile

-----------------------------------------------------------------------------
(* Steps of a worker thread: _run_sync_worker and _execute_sync *)

\* The dataset row is read; a deleted dataset ends the run.
LoadDataset(w) ==
  /\ worker[w].pc = "loading"
  /\ LET d == worker[w].ds IN
       worker' = [worker EXCEPT ![w] =
                   IF row[d] = "absent" THEN [@ EXCEPT !.pc = "finishing"]
                   ELSE [@ EXCEPT !.pc = "checking",
                                  !.fresh = d \notin initialSyncDone]]
  /\ UNCHANGED <<queueVars, dbVars, online, lockFile, owed>>

\* All pre-checks pass: status becomes "syncing" and the device registers.
PassChecks(w) ==
  /\ worker[w].pc = "checking"
  /\ online
  /\ worker' = [worker EXCEPT ![w].pc = "starting"]
  /\ UNCHANGED <<queueVars, dbVars, online, lockFile, owed>>

\* No network: the dataset is deferred to the scheduler and the run ends.
DeferOffline(w) ==
  /\ worker[w].pc = "checking"
  /\ ~online
  /\ MarkNeedsSync({worker[w].ds})
  /\ worker' = [worker EXCEPT ![w].pc = "finishing"]
  /\ UNCHANGED <<activeSyncs, pendingSyncs, cancelRequested, dbVars, online,
                 lockFile, owed>>

\* MUTANT of FailRun: the thread dies without its finally clause.
FailRunLeaksSlot(w) ==
  /\ worker[w].pc \in {"loading", "checking", "starting", "returned"}
  /\ worker' = [worker EXCEPT ![w] = IdleWorker]
  /\ UNCHANGED <<queueVars, dbVars, online, lockFile, owed>>

\* Missing credentials, folder or rclone binary, or an exception anywhere: the
\* row goes to "error" and the run ends.  The user is told, so only what was
\* folded in behind the run is still owed.
FailRun(w) ==
  /\ worker[w].pc \in {"loading", "checking", "starting", "returned"}
  /\ worker' = [worker EXCEPT ![w].pc = "finishing", ![w].outcome = "none"]
  /\ owed' = [owed EXCEPT ![worker[w].ds] =
                IF worker[w].outcome \in ExitOutcomes THEN @
                ELSE pendingSyncs[worker[w].ds]]
  /\ UNCHANGED <<queueVars, dbVars, online, lockFile>>

\* run_bisync starts rclone and registers the process.  A lock file left by
\* another run makes rclone give up at once.
StartBisync(w) ==
  /\ worker[w].pc = "starting"
  /\ LET d == worker[w].ds IN
       \/ /\ d \in lockFile
          /\ worker' = [worker EXCEPT ![w].pc = "returned", ![w].outcome = "lock_conflict"]
          /\ UNCHANGED <<lockFile, owed>>
       \/ /\ d \notin lockFile
          /\ worker' = [worker EXCEPT ![w].pc = "transferring"]
          /\ lockFile' = lockFile \cup {d}
          /\ owed' = [owed EXCEPT ![d] = pendingSyncs[d]]
  /\ UNCHANGED <<queueVars, dbVars, online>>

\* rclone exits by itself and releases its lock.
BisyncExits(w) ==
  /\ worker[w].pc = "transferring"
  /\ \E o \in ExitOutcomes :
       /\ MayReport(w, o)
       /\ worker' = [worker EXCEPT ![w].pc = "returned", ![w].outcome = o]
  /\ lockFile' = lockFile \ {worker[w].ds}
  /\ UNCHANGED <<queueVars, dbVars, online, owed>>

\* Handling rclone's output raises (the log cannot be written, a progress
\* listener fails): the run is over as failed, but nobody stops the rclone
\* process, which keeps its lock.
AbandonBisync(w) ==
  /\ worker[w].pc = "transferring"
  /\ worker[w].ds \in StrayLocks
  /\ worker' = [worker EXCEPT ![w].pc = "returned", ![w].outcome = "failed"]
  /\ UNCHANGED <<queueVars, dbVars, online, lockFile, owed>>

\* MUTANT of NextAttempt: is_cancel_requested is not consulted.
NextAttemptIgnoresCancel(w) ==
  IF worker[w].outcome = "needs_resync" /\ worker[w].attempt = "first" THEN "rebuild"
  ELSE IF worker[w].outcome = "all_changed" /\ worker[w].attempt # "force" THEN "force"
  ELSE "none"

\* The attempt _execute_sync makes next, or "none".
NextAttempt(w) ==
  IF worker[w].ds \in cancelRequested THEN "none"
  ELSE IF worker[w].outcome = "needs_resync" /\ worker[w].attempt = "first" THEN "rebuild"
  ELSE IF worker[w].outcome = "all_changed" /\ worker[w].attempt # "force" THEN "force"
  ELSE "none"

RetryBisync(w) ==
  /\ worker[w].pc = "returned"
  /\ NextAttempt(w) # "none"
  /\ worker' = [worker EXCEPT ![w].pc = "starting", ![w].outcome = "none",
                              ![w].attempt = NextAttempt(w)]
  /\ UNCHANGED <<queueVars, dbVars, online, lockFile, owed>>

\* The result is recorded: success persists initial_sync_done, a lock conflict
\* defers the dataset, everything else is shown as error or needs_attention.
RecordResult(w) ==
  LET d == worker[w].ds
      o == worker[w].outcome
  IN /\ worker[w].pc = "returned"
     /\ NextAttempt(w) = "none"
     /\ worker' = [worker EXCEPT ![w].pc = "finishing", ![w].outcome = "none"]
     /\ initialSyncDone' = IF o = "success" /\ row[d] # "absent"
                           THEN initialSyncDone \cup {d} ELSE initialSyncDone
     /\ MarkNeedsSync(IF o = "lock_conflict" THEN {d} ELSE {})
     /\ owed' = [owed EXCEPT ![d] = IF o = "lock_conflict" THEN Owing(@, worker[w].req)
                                    ELSE @]
     /\ UNCHANGED <<activeSyncs, pendingSyncs, cancelRequested, row, online, lockFile>>

\* The critical section of _finish_sync.  The follow-up leaves the engine with
\* the thread, which starts it after the lock is released.  The follow-up of a
\* run the user cancelled is dropped on purpose.
FinishSync(w) ==
  LET d == worker[w].ds
      follow == IF d \in cancelRequested THEN NoRequest ELSE pendingSyncs[d]
  IN /\ worker[w].pc = "finishing"
     /\ activeSyncs' = activeSyncs \ {d}
     /\ pendingSyncs' = PendingWithout(d)
     /\ cancelRequested' = cancelRequested \ {d}
     /\ worker' = [worker EXCEPT ![w] =
                     IF follow = NoRequest THEN IdleWorker
                     ELSE [IdleWorker EXCEPT !.pc = "carrying", !.ds = d, !.req = follow]]
     /\ owed' = [owed EXCEPT ![d] = IF worker[w].cancelled THEN NoRequest ELSE @]
     /\ UNCHANGED <<deferredSyncs, dbVars, online, lockFile>>

\* _finish_sync, after the lock: the coalesced follow-up is triggered.
StartFollowUp(w) ==
  /\ worker[w].pc = "carrying"
  /\ TriggerSync(worker[w].ds, worker[w].req, {w})
  /\ UNCHANGED <<dbVars, online, lockFile>>

WorkerStep(w) ==
  \/ LoadDataset(w)
  \/ PassChecks(w)
  \/ DeferOffline(w)
  \/ FailRun(w)
  \/ StartBisync(w)
  \/ BisyncExits(w)
  \/ AbandonBisync(w)
  \/ RetryBisync(w)
  \/ RecordResult(w)
  \/ FinishSync(w)
  \/ StartFollowUp(w)

=============================================================================
