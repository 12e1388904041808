SPECIFICATION Spec
CONSTANTS
  c1 = c1  c2 = c2
  Computers <- MCComputers
  Creator = c1
  Observers <- MCObservers
  Ahead <- MCAhead
  Timeout = 1
  MaxTime = 3
  MaxEvents = 2
INVARIANTS TypeOK ShownOnlineWasAlive RemovedStaysAway
PROPERTY OwnSeenGoesOn
CHECK_DEADLOCK FALSE
