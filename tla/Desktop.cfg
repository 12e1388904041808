SPECIFICATION FairSpec
CONSTANTS
  s1 = s1  s2 = s2  w1 = w1  NoService = NoService
  Services <- MCServices
  Windows <- MCWindows
  SharedPort = FALSE
  MaxRuns = 3
  MaxEvents = 3
INVARIANTS TypeOK NoIdleWindow TrayJustified
PROPERTIES TwoServicesDoNotLast StreamResumes
CHECK_DEADLOCK FALSE
