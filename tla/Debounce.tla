------------------------------ MODULE Debounce ------------------------------
(***************************************************************************)
(* The debounce timers DebouncedWatcherManager keeps for one dataset       *)
(* (core/watcher.py): every raw change restarts a timer, and the timer     *)
(* that runs out asks the sync engine for a sync.  The manager's maps are  *)
(* keyed by dataset and share only their lock, so one dataset is modelled. *)
(***************************************************************************)
EXTENDS Naturals

CONSTANT MaxTimers    \* bound on the timer threads that exist at once

ASSUME MaxTimersAssumption == MaxTimers \in Nat

Timers == 1..MaxTimers
NoTimer == 0    \* no entry in _debounce_timers

VARIABLES
  debounceTimer,  \* the dataset's entry in _debounce_timers
  timer,          \* where each timer thread is
  owed            \* a change was reported and no trigger has followed it yet

debounceVars == <<debounceTimer, timer, owed>>

\* "waiting": in its interval, cancel() still stops it; "expired": on its way into
\* _fire_change, past the point where cancel() has an effect; "popped": between the
\* lock and on_change_triggered.
Phases == {"free", "waiting", "expired", "popped"}

DebounceTypeOK ==
  /\ debounceTimer \in Timers \cup {NoTimer}
  /\ timer \in [Timers -> Phases]
  /\ owed \in BOOLEAN

DebounceInit ==
  /\ debounceTimer = NoTimer
  /\ timer = [t \in Timers |-> "free"]
  /\ owed = FALSE

\* timer.cancel(): no effect on a thread that has left its wait.
Cancelled(e) == [t \in Timers |-> IF t = e /\ timer[t] = "waiting" THEN "free" ELSE timer[t]]

\* _on_raw_change: the running timer is cancelled and t is started in its place.
RawChange(t) ==
  /\ timer[t] = "free"
  /\ timer' = [Cancelled(debounceTimer) EXCEPT ![t] = "waiting"]
  /\ debounceTimer' = t
  /\ owed' = TRUE

\* The interval is over.
Expire(t) ==
  /\ timer[t] = "waiting"
  /\ timer' = [timer EXCEPT ![t] = "expired"]
  /\ UNCHANGED <<debounceTimer, owed>>

\* _fire_change, under the lock: the entry is popped, whichever timer it names.
PopEntry(t) ==
  /\ timer[t] = "expired"
  /\ timer' = [timer EXCEPT ![t] = "popped"]
  /\ debounceTimer' = NoTimer
  /\ UNCHANGED owed

\* _fire_change, after the lock: on_change_triggered asks for the sync.
Fire(t) ==
  /\ timer[t] = "popped"
  /\ timer' = [timer EXCEPT ![t] = "free"]
  /\ owed' = FALSE
  /\ UNCHANGED debounceTimer

\* stop_watching and stop_all, under the lock: the change goes with the registration.
ForgetChange ==
  /\ debounceTimer' = NoTimer
  /\ owed' = FALSE
  /\ UNCHANGED timer

\* What stop_watching and stop_all do to the timer e they popped, after the lock.
CancelTimer(e) ==
  /\ timer' = Cancelled(e)
  /\ UNCHANGED <<debounceTimer, owed>>

TimerStep(t) == Expire(t) \/ PopEntry(t) \/ Fire(t)

(* Properties of the debouncing. *)

\* The threads that will still reach on_change_triggered unless they are cancelled.
Live(t) == timer[t] # "free"

\* A reported change is never left without a timer: restarting the timer, popping
\* another timer's entry, and restarting or stopping watchers lose none.
ChangeHasTimer == owed => \E t \in Timers : Live(t)

\* has_pending_change never reports a timer that will not fire: an entry names a timer
\* that runs, or is about to pop it.
EntryIsPending ==
  debounceTimer # NoTimer => timer[debounceTimer] \in {"waiting", "expired"}

=============================================================================
