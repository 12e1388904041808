\* Safety and liveness: one thread outside beside the supervisor, three watcher
\* instances, two timers, a change, a failure of the native watcher, two calls.
SPECIFICATION FairSpec
CONSTANTS
  c1 = c1  docs = docs
  NoTarget = NoTarget
  Supervisor = Supervisor
  FirstTarget = docs
  Threads <- MCOneThread
  MaxWatchers = 3
  MaxTimers = 2
  Targets <- MCOneTarget
  Native = TRUE
  MaxChanges = 1
  MaxFailures = 1
  MaxCalls = 2
INVARIANTS TypeOK ChangeHasTimer EntryIsPending
PROPERTY RegisteredIsWatched
CHECK_DEADLOCK FALSE
