SPECIFICATION FairSpec
CONSTANTS
  w1 = w1  w2 = w2  i1 = i1
  Workers <- MCWorkers
  Installers <- MCInstallers
  Platforms <- MCWindowsOrNot
  Digest = TRUE
  Blocks = 2
  MaxEvents = 2
INVARIANTS TypeOK PublishedIsVerified HalfInstallNotUsed
PROPERTY DownloadEnds
CHECK_DEADLOCK FALSE
