SPECIFICATION FairSpec
CONSTANTS
  MaxJobs = 2
  Dialogs = {d1}
  Versions = {v1, v2}
  None = None
  RetryLimit = 1
  MaxFaults = 1
INVARIANTS
  TypeOK
  ReadyHasFile
  NobodyAwaitsAnOrphan
  ReportsKeepTheirVersion
PROPERTIES
  WaitersAreAnswered
  KeepsThePromise
CHECK_DEADLOCK FALSE
