SPECIFICATION Spec
CONSTANTS
  MaxJob = 2
  Retention = 1
  Addrs = {1, 2}
  Concurrency = 2
  Threshold = 1
  Requests <- MCRequests
  MaxFaults = 2
  MaxCrashes = 1
INVARIANTS
  TypeOK
  NoOrphanProbes
  CompleteIsComplete
  ProgressIsBacked
  CoverageIsBacked
  CoverageIsFresh
  LiveIsCurrent
PROPERTIES
  QuietAfterEnd
  RefinesScanJobs
CHECK_DEADLOCK FALSE
