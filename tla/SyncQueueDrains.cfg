\* Liveness: one slot, two datasets, the network failing and a lock file left behind.
SPECIFICATION FairSpec
CONSTANTS
  d1 = d1  d2 = d2  w1 = w1  w2 = w2  w3 = w3
  NoDataset = NoDataset
  NoRequest = NoRequest
  Datasets <- MCDatasets
  Workers <- MCTwoWorkers
  MaxConcurrentSyncs = 1
  SetupMode <- MCSetupMode
  Manual <- MCOnlyD2
  Forceable <- MCNone
  Cancellable <- MCNone
  IdleCancellable <- MCNone
  Joinable <- MCNone
  Volatile <- MCNone
  StrayLocks <- MCOnlyD2
  CanDisconnect = TRUE
  MaxCrashes = 0
PROPERTY EventuallyDrained
