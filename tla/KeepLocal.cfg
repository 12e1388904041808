SPECIFICATION Spec
CONSTANTS
  a = a  b = b  t1 = t1  t2 = t2  marked = marked  renamed = renamed
  Ids <- MCOneId
  Added <- MCOneId
  Clients <- MCClients
  Copies <- MCCopies
  SelfNamed <- MCRenamed
  Commands <- MCAll
  PurgeOutcomes <- MCWorks
  MaxEvents = 1
  MaxConflicts = 1
  MaxCrashes = 0
SYMMETRY ClientSymmetry
PROPERTY KeepLocalKeepsOriginal
CHECK_DEADLOCK FALSE
