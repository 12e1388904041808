\* One dataset that is added, paused, resumed, deleted and cancelled at any time, with
\* three threads so that carried follow-ups overlap with new runs.
SPECIFICATION Spec
CONSTANTS
  d1 = d1  d2 = d2  w1 = w1  w2 = w2  w3 = w3
  NoDataset = NoDataset
  NoRequest = NoRequest
  Datasets <- MCOneDataset
  Workers <- MCWorkers
  MaxConcurrentSyncs = 1
  SetupMode <- MCOneSetupMode
  Manual <- MCNone
  Forceable <- MCNone
  Cancellable <- MCNone
  IdleCancellable <- MCOnlyD1
  Joinable <- MCOnlyD1
  Volatile <- MCOnlyD1
  StrayLocks <- MCOnlyD1
  CanDisconnect = FALSE
  MaxCrashes = 0
SYMMETRY WorkerSymmetry
INVARIANTS TypeOK SlotHasOneWorker FollowUpBehindRun
