\* As many slots as datasets, so nothing is deferred at the ceiling: forced syncs of d1,
\* d2 joined with mode path2, and follow-ups racing for their slot.
SPECIFICATION Spec
CONSTANTS
  d1 = d1  d2 = d2  w1 = w1  w2 = w2  w3 = w3
  NoDataset = NoDataset
  NoRequest = NoRequest
  Datasets <- MCDatasets
  Workers <- MCWorkers
  MaxConcurrentSyncs = 2
  SetupMode <- MCSetupMode
  Manual <- MCDatasets
  Forceable <- MCOnlyD1
  Cancellable <- MCNone
  IdleCancellable <- MCNone
  Joinable <- MCOnlyD2
  Volatile <- MCNone
  StrayLocks <- MCNone
  CanDisconnect = FALSE
  MaxCrashes = 0
SYMMETRY WorkerSymmetry
INVARIANT FollowUpKeepsStrength
