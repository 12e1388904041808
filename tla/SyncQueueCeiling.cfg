\* One slot, two datasets: coalescing, deferral at the ceiling, cancels
\* of d1's runs, lock conflicts after a kill, and one service crash.  d2 is manual.
SPECIFICATION Spec
CONSTANTS
  d1 = d1  d2 = d2  w1 = w1  w2 = w2  w3 = w3
  NoDataset = NoDataset
  NoRequest = NoRequest
  Datasets <- MCDatasets
  Workers <- MCTwoWorkers
  MaxConcurrentSyncs = 1
  SetupMode <- MCSetupMode
  Manual <- MCOnlyD2
  Forceable <- MCNone
  Cancellable <- MCOnlyD1
  IdleCancellable <- MCNone
  Joinable <- MCNone
  Volatile <- MCNone
  StrayLocks <- MCNone
  CanDisconnect = FALSE
  MaxCrashes = 1
SYMMETRY WorkerSymmetry
INVARIANTS ConcurrencyCeiling NoRequestForgotten
PROPERTIES CancelledRunEndsThere PromiseKept
