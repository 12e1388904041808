------------------------------ MODULE Watcher ------------------------------
(***************************************************************************)
(* DebouncedWatcherManager and its watchers for one dataset                *)
(* (core/watcher.py), with the threads that start, re-attach and stop      *)
(* them: IPC handlers, ending sync runs, failing native watchers and the   *)
(* supervisor.                                                             *)
(***************************************************************************)
EXTENDS Debounce

CONSTANTS
  Threads,      \* IPC threads, sync workers and failing watcher threads
  Supervisor,   \* the supervisor thread
  MaxWatchers,  \* bound on the watcher objects that exist at once
  Targets,      \* folder and exclude patterns, as ensure_watching compares them
  NoTarget,     \* no registration
  FirstTarget,  \* the row's target at first
  Native,       \* sys.platform == "win32"
  MaxChanges,   \* bound on changes, mounts and unmounts of the folder
  MaxFailures,  \* bound on failures of native watchers
  MaxCalls      \* bound on calls from outside

ASSUME SupervisorAssumption == Supervisor \notin Threads
ASSUME TargetAssumption == NoTarget \notin Targets /\ FirstTarget \in Targets
ASSUME NativeAssumption == Native \in BOOLEAN
ASSUME BoundsAssumption ==
  /\ MaxWatchers \in Nat
  /\ MaxChanges \in Nat
  /\ MaxFailures \in Nat
  /\ MaxCalls \in Nat

VARIABLES
  registration,  \* the dataset's entry in _registrations
  installed,     \* its entry in _watchers
  watcher,       \* the watcher objects and their threads
  caller,        \* the calls of the manager in progress
  supervised,    \* the supervisor thread runs
  row,           \* the dataset's row: its target, and dataset_wants_watcher of it
  mounted,       \* the folder exists
  version,       \* the folder's contents
  failures,      \* failures of native watchers so far
  calls          \* calls from outside so far

folderVars == <<mounted, version>>
managerVars == <<registration, installed, supervised>>
boundVars == <<failures, calls>>
vars == <<debounceVars, managerVars, watcher, caller, row, folderVars, boundVars>>

Watchers == 1..MaxWatchers
NoWatcher == 0    \* no entry in _watchers
Callers == Threads \cup {Supervisor}
Unregistered == [target |-> NoTarget, forced |-> FALSE]

\* What a scan of the folder returns; 0 stands for a folder that is not there.
Snapshot == IF mounted THEN version ELSE 0

\* A watcher whose thread is not alive.
DeadWatcher == [phase |-> "dead", kind |-> "polling", stopped |-> FALSE, seen |-> 0]
IdleCall == [pc |-> "idle", target |-> NoTarget, forced |-> FALSE,
             w |-> NoWatcher, timer |-> NoTimer]

Registrations == [target : Targets, forced : BOOLEAN] \cup {Unregistered}
WatcherStates ==
  [phase : {"opening", "running", "noticed", "failing", "dead"},
   kind : {"native", "polling"}, stopped : BOOLEAN, seen : 0..MaxChanges + 1]
CallStates ==
  [pc : {"idle", "running", "stop", "cancel", "checked", "start", "replace", "build",
         "opening", "install", "report"},
   target : Targets \cup {NoTarget}, forced : BOOLEAN,
   w : Watchers \cup {NoWatcher}, timer : Timers \cup {NoTimer}]

TypeOK ==
  /\ DebounceTypeOK
  /\ registration \in Registrations
  /\ installed \in Watchers \cup {NoWatcher}
  /\ watcher \in [Watchers -> WatcherStates]
  /\ caller \in [Callers -> CallStates]
  /\ supervised \in BOOLEAN
  /\ row \in [target : Targets, wanted : BOOLEAN]
  /\ mounted \in BOOLEAN
  /\ version \in 1..MaxChanges + 1
  /\ failures \in 0..MaxFailures
  /\ calls \in 0..MaxCalls

Init ==
  /\ DebounceInit
  /\ registration = Unregistered
  /\ installed = NoWatcher
  /\ watcher = [w \in Watchers |-> DeadWatcher]
  /\ caller = [c \in Callers |-> IdleCall]
  /\ supervised = FALSE
  /\ row = [target |-> FirstTarget, wanted |-> FALSE]
  /\ mounted \in BOOLEAN
  /\ version = 1
  /\ failures = 0
  /\ calls = 0

-----------------------------------------------------------------------------
(* Threads and objects. *)

Alive(w) == watcher[w].phase # "dead"
IsWatching == installed # NoWatcher /\ Alive(installed)

Goto(c, pc) == caller' = [caller EXCEPT ![c].pc = pc]
Return(c) == caller' = [caller EXCEPT ![c] = IdleCall]

\* A new object or timer is the first one nothing refers to any more.
Held == {caller[c].timer : c \in Callers}
FreshTimers == {t \in Timers \ Held : timer[t] = "free"}
FreshWatchers ==
  {w \in Watchers : ~Alive(w) /\ installed # w /\ \A c \in Callers : caller[c].w # w}
First(S) == {x \in S : \A y \in S : x <= y}

\* _on_raw_change called by a watcher or by the supervisor.
Report == \E t \in First(FreshTimers) : RawChange(t)

\* watcher.stop(): the thread sees the event at its next look at it, and compares the folder
\* with nothing any more.
Stopped(w) ==
  [v \in Watchers |-> IF v = w /\ Alive(v) THEN [watcher[v] EXCEPT !.stopped = TRUE, !.seen = 0]
                                           ELSE watcher[v]]

-----------------------------------------------------------------------------
(* Watcher threads. *)

SetPhase(w, phase) == watcher' = [watcher EXCEPT ![w].phase = phase]
Die(w) == watcher' = [watcher EXCEPT ![w] = DeadWatcher]

\* The native thread opens its directory handle: from here the kernel queues changes.
NativeOpens(w) ==
  /\ watcher[w].phase = "opening"
  /\ mounted
  /\ watcher' = [watcher EXCEPT ![w] = [@ EXCEPT !.phase = "running", !.seen = version]]
  /\ UNCHANGED <<debounceVars, managerVars, caller, row, folderVars, boundVars>>

\* It cannot open the handle, or a later read fails.
NativeFails(w) ==
  /\ watcher[w].kind = "native"
  /\ watcher[w].phase \in {"opening", "running"}
  /\ \/ watcher[w].phase = "opening" /\ ~mounted /\ UNCHANGED failures
     \/ failures < MaxFailures /\ failures' = failures + 1
  /\ IF watcher[w].stopped THEN Die(w) ELSE SetPhase(w, "failing")
  /\ UNCHANGED <<debounceVars, managerVars, caller, row, folderVars, calls>>

\* A poll that differs from the last one, or queued native events.  The stop event is
\* read before the scan and not after it.
Notice(w) ==
  /\ watcher[w].phase = "running"
  /\ ~watcher[w].stopped
  /\ watcher[w].seen # Snapshot
  /\ watcher[w].kind = "polling" \/ mounted
  /\ watcher' = [watcher EXCEPT ![w] = [@ EXCEPT !.phase = "noticed", !.seen = Snapshot]]
  /\ UNCHANGED <<debounceVars, managerVars, caller, row, folderVars, boundVars>>

Emit(w) ==
  /\ watcher[w].phase = "noticed"
  /\ Report
  /\ SetPhase(w, "running")
  /\ UNCHANGED <<managerVars, caller, row, folderVars, boundVars>>

\* The thread sees the stop event.
Exit(w) ==
  /\ watcher[w].phase = "running"
  /\ watcher[w].stopped
  /\ Die(w)
  /\ UNCHANGED <<debounceVars, managerVars, caller, row, folderVars, boundVars>>

\* _on_watcher_failed, run by the failing thread: nothing to do when the dataset is
\* unregistered or already polled, ...
GiveUp(w) ==
  /\ watcher[w].phase = "failing"
  /\ watcher[w].stopped \/ registration = Unregistered \/ registration.forced
  /\ Die(w)
  /\ UNCHANGED <<debounceVars, managerVars, caller, row, folderVars, boundVars>>

\* ... else polling is forced, and the thread goes on into start_watching as c.
FallBack(w, c) ==
  /\ watcher[w].phase = "failing"
  /\ ~watcher[w].stopped
  /\ registration # Unregistered
  /\ ~registration.forced
  /\ caller[c] = IdleCall
  /\ registration' = [registration EXCEPT !.forced = TRUE]
  /\ caller' = [caller EXCEPT ![c] = [@ EXCEPT !.pc = "start", !.target = registration.target]]
  /\ Die(w)
  /\ UNCHANGED <<debounceVars, installed, supervised, row, folderVars, boundVars>>

-----------------------------------------------------------------------------
(* start_watching *)

\* MUTANT of RegisterMissing: the supervisor is not started for a folder that is missing.
RegisterUnsupervised(c) ==
  /\ caller[c].pc = "start"
  /\ ~mounted
  /\ registration' = [target |-> caller[c].target, forced |-> FALSE]
  /\ Return(c)
  /\ UNCHANGED <<debounceVars, installed, supervised, watcher, row, folderVars, boundVars>>

\* The folder is missing: only the registration is kept, for the supervisor.
RegisterMissing(c) ==
  /\ caller[c].pc = "start"
  /\ ~mounted
  /\ registration' = [target |-> caller[c].target, forced |-> FALSE]
  /\ supervised' = TRUE
  /\ Return(c)
  /\ UNCHANGED <<debounceVars, installed, watcher, row, folderVars, boundVars>>

\* The first critical section: register, and take the old watcher out of the map.
RegisterAndPop(c) ==
  /\ caller[c].pc = "start"
  /\ mounted
  /\ registration' = [registration EXCEPT !.target = caller[c].target]
  /\ installed' = NoWatcher
  /\ caller' = [caller EXCEPT ![c] = [@ EXCEPT !.pc = "replace", !.forced = registration.forced, !.w = installed]]
  /\ UNCHANGED <<debounceVars, supervised, watcher, row, folderVars, boundVars>>

\* The old watcher is stopped outside the lock.
StopOld(c) ==
  /\ caller[c].pc = "replace"
  /\ watcher' = Stopped(caller[c].w)
  /\ caller' = [caller EXCEPT ![c] = [@ EXCEPT !.pc = "build", !.w = NoWatcher]]
  /\ UNCHANGED <<debounceVars, managerVars, row, folderVars, boundVars>>

\* A polling watcher scans the folder and runs at once; a native one opens it first.
Build(c) ==
  /\ caller[c].pc = "build"
  /\ \E w \in First(FreshWatchers) :
       LET native == Native /\ ~caller[c].forced
       IN /\ watcher' = [watcher EXCEPT ![w] =
               [phase |-> IF native THEN "opening" ELSE "running",
                kind |-> IF native THEN "native" ELSE "polling",
                stopped |-> FALSE, seen |-> Snapshot]]
          /\ caller' = [caller EXCEPT ![c] = [@ EXCEPT !.pc = IF native THEN "opening" ELSE "install", !.w = w]]
  /\ UNCHANGED <<debounceVars, managerVars, row, folderVars, boundVars>>

\* start() returns once the thread has opened the folder or has failed to.
NativeStarted(c) ==
  /\ caller[c].pc = "opening"
  /\ watcher[caller[c].w].phase # "opening"
  /\ Goto(c, "install")
  /\ UNCHANGED <<debounceVars, managerVars, watcher, row, folderVars, boundVars>>

\* MUTANT of NativeTooSlow: polling is forced on a registration that may be gone.
TooSlowUnchecked(c) ==
  /\ caller[c].pc = "opening"
  /\ watcher[caller[c].w].phase = "opening"
  /\ failures < MaxFailures
  /\ failures' = failures + 1
  /\ registration' = [registration EXCEPT !.forced = TRUE]
  /\ caller' = [caller EXCEPT ![c] = [@ EXCEPT !.pc = "build", !.forced = TRUE, !.w = NoWatcher]]
  /\ UNCHANGED <<debounceVars, installed, supervised, watcher, row, folderVars, calls>>

\* start() gives up after two seconds and leaves the thread: a polling watcher is built,
\* unless the registration is gone, which raises a KeyError.
NativeTooSlow(c) ==
  /\ caller[c].pc = "opening"
  /\ watcher[caller[c].w].phase = "opening"
  /\ failures < MaxFailures
  /\ failures' = failures + 1
  /\ \/ /\ registration = Unregistered
        /\ Return(c)
        /\ UNCHANGED registration
     \/ /\ registration # Unregistered
        /\ registration' = [registration EXCEPT !.forced = TRUE]
        /\ caller' = [caller EXCEPT ![c] = [@ EXCEPT !.pc = "build", !.forced = TRUE, !.w = NoWatcher]]
  /\ UNCHANGED <<debounceVars, installed, supervised, watcher, row, folderVars, calls>>

\* The second critical section; the supervisor goes on to report missed changes.
Install(c) ==
  /\ caller[c].pc = "install"
  /\ installed' = caller[c].w
  /\ supervised' = TRUE
  /\ caller' = [caller EXCEPT ![c] = IF c = Supervisor THEN [IdleCall EXCEPT !.pc = "report"]
                                                       ELSE IdleCall]
  /\ UNCHANGED <<debounceVars, registration, watcher, row, folderVars, boundVars>>

StartStep(c) ==
  \/ RegisterMissing(c) \/ RegisterAndPop(c) \/ StopOld(c) \/ Build(c)
  \/ NativeStarted(c) \/ Install(c)

-----------------------------------------------------------------------------
(* stop_watching and stop_all *)

Unregister(c) ==
  /\ caller[c].pc = "stop"
  /\ ForgetChange
  /\ registration' = Unregistered
  /\ installed' = NoWatcher
  /\ caller' = [caller EXCEPT ![c] = [@ EXCEPT !.pc = "cancel", !.w = installed, !.timer = debounceTimer]]
  /\ UNCHANGED <<supervised, watcher, row, folderVars, boundVars>>

\* MUTANT of CancelAndStop: the entry is looked up after the lock.
CancelEntryAndStop(c) ==
  /\ caller[c].pc = "cancel"
  /\ CancelTimer(debounceTimer)
  /\ watcher' = Stopped(caller[c].w)
  /\ Return(c)
  /\ UNCHANGED <<managerVars, row, folderVars, boundVars>>

CancelAndStop(c) ==
  /\ caller[c].pc = "cancel"
  /\ CancelTimer(caller[c].timer)
  /\ watcher' = Stopped(caller[c].w)
  /\ Return(c)
  /\ UNCHANGED <<managerVars, row, folderVars, boundVars>>

StopStep(c) == Unregister(c) \/ CancelAndStop(c)

-----------------------------------------------------------------------------
(* The supervisor. *)

\* check_health: the registrations are copied under the lock, ...
CheckHealth ==
  /\ supervised
  /\ caller[Supervisor] = IdleCall
  /\ registration # Unregistered
  /\ caller' = [caller EXCEPT ![Supervisor] = [@ EXCEPT !.pc = "checked", !.target = registration.target]]
  /\ UNCHANGED <<debounceVars, managerVars, watcher, row, folderVars, boundVars>>

\* ... and a watcher found dead is started again from the copy.
Revive ==
  /\ caller[Supervisor].pc = "checked"
  /\ IF ~IsWatching /\ mounted THEN Goto(Supervisor, "start") ELSE Return(Supervisor)
  /\ UNCHANGED <<debounceVars, managerVars, watcher, row, folderVars, boundVars>>

ReportMissed ==
  /\ caller[Supervisor].pc = "report"
  /\ Report
  /\ Return(Supervisor)
  /\ UNCHANGED <<managerVars, watcher, row, folderVars, boundVars>>

SupervisorStep == CheckHealth \/ Revive \/ ReportMissed

-----------------------------------------------------------------------------
(* The calls from outside. *)

Call(c) ==
  /\ caller[c] = IdleCall
  /\ calls < MaxCalls
  /\ calls' = calls + 1

\* resume_sync_dataset, update_sync_dataset, restore_sync_state, restart_sync_watchers:
\* the row is written, then its target is watched.
Watch(c) ==
  /\ Call(c)
  /\ \E target \in Targets :
       /\ row' = [target |-> target, wanted |-> TRUE]
       /\ caller' = [caller EXCEPT ![c] = [@ EXCEPT !.pc = "start", !.target = target]]
  /\ UNCHANGED <<debounceVars, managerVars, watcher, folderVars, failures>>

\* pause_sync_dataset, and an update that no longer wants a watcher.
Pause(c) ==
  /\ Call(c)
  /\ row' = [row EXCEPT !.wanted = FALSE]
  /\ Goto(c, "stop")
  /\ UNCHANGED <<debounceVars, managerVars, watcher, folderVars, failures>>

\* stop_all: the supervisor is told to stop, then everything is stopped.
Shutdown(c) ==
  /\ Call(c)
  /\ supervised
  /\ supervised' = FALSE
  /\ Goto(c, "stop")
  /\ UNCHANGED <<debounceVars, registration, installed, watcher, row, folderVars, failures>>

\* A sync run reads the row when it begins ...
BeginRun(c) ==
  /\ Call(c)
  /\ row.wanted
  /\ caller' = [caller EXCEPT ![c] = [@ EXCEPT !.pc = "running", !.target = row.target]]
  /\ UNCHANGED <<debounceVars, managerVars, watcher, row, folderVars, failures>>

\* ... and re-attaches the watcher it asked for when it ends (ensure_watching).
EndRun(c) ==
  /\ caller[c].pc = "running"
  /\ IF registration.target = caller[c].target /\ IsWatching THEN Return(c) ELSE Goto(c, "start")
  /\ UNCHANGED <<debounceVars, managerVars, watcher, row, folderVars, boundVars>>

-----------------------------------------------------------------------------
(* The folder. *)

\* A file changes, or the folder's drive is unmounted or mounted.
FolderEvent ==
  /\ version <= MaxChanges
  /\ version' = version + 1
  /\ mounted' \in {mounted, ~mounted}
  /\ mounted \/ mounted'
  /\ UNCHANGED <<debounceVars, managerVars, watcher, caller, row, boundVars>>

-----------------------------------------------------------------------------

TimerNext(t) ==
  /\ TimerStep(t)
  /\ UNCHANGED <<managerVars, watcher, caller, row, folderVars, boundVars>>

WatcherStep(w) ==
  \/ NativeOpens(w) \/ Notice(w) \/ Emit(w) \/ Exit(w) \/ GiveUp(w)
  \/ \E c \in Threads : FallBack(w, c)

CallerStep(c) == StartStep(c) \/ StopStep(c)

Next ==
  \/ \E t \in Timers : TimerNext(t)
  \/ \E w \in Watchers : WatcherStep(w) \/ NativeFails(w)
  \/ \E c \in Callers : CallerStep(c) \/ NativeTooSlow(c)
  \/ \E c \in Threads : Watch(c) \/ Pause(c) \/ Shutdown(c) \/ BeginRun(c) \/ EndRun(c)
  \/ SupervisorStep
  \/ FolderEvent

Spec == Init /\ [][Next]_vars

\* The supervisor is scheduled, and beside it some thread that can go on.  That is less than
\* scheduling each of them, and enough: only the supervisor has something to do for ever.
\* Nothing forces changes, mounts, failures, calls or run ends.
Fairness ==
  /\ WF_vars(\/ \E t \in Timers : TimerNext(t)
             \/ \E w \in Watchers : WatcherStep(w)
             \/ \E c \in Threads : CallerStep(c))
  /\ WF_vars(SupervisorStep \/ CallerStep(Supervisor))

FairSpec == Spec /\ Fairness

-----------------------------------------------------------------------------
(* Properties. *)

\* A registered dataset whose folder is there gets a watcher, whatever failed, was
\* missing or was stopped half-way before: the supervisor's promise.
RegisteredIsWatched ==
  (registration # Unregistered /\ mounted)
    ~> (IsWatching \/ registration = Unregistered \/ ~mounted)

=============================================================================
