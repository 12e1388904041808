SPECIFICATION Spec
CONSTANTS
  a = a  b = b  t1 = t1  t2 = t2  marked = marked  renamed = renamed
  Ids <- MCOneId
  Added <- MCOneId
  Clients <- MCClients
  Copies <- MCMarked
  SelfNamed <- MCNone
  Commands <- MCWithoutRemote
  PurgeOutcomes <- MCWorks
  MaxEvents = 2
  MaxConflicts = 2
  MaxCrashes = 1
SYMMETRY ClientSymmetry
INVARIANTS TypeOK  SyncingHasRun DetachedIsRemembered OrphansOutlived
PROPERTY PauseStays
CHECK_DEADLOCK FALSE
