SPECIFICATION Spec
CONSTANTS
  MaxJob = 1
  Retention = 1
  Addrs = {1, 2}
  Concurrency = 2
  Threshold = 2
  Requests <- MCRequests
  MaxFaults = 1
  MaxCrashes = 0
INVARIANTS
  StorageFailureSurfaces
CHECK_DEADLOCK FALSE
