SPECIFICATION Spec
CONSTANTS
  MaxJob = 2
  Retention = 2
  Count = 1
  Definitions <- MCOne
  MaxTime = 3
  MaxRequests = 1
  MaxFaults = 1
  MaxCrashes = 1
INVARIANTS
  InterruptedRunsAreShown
CHECK_DEADLOCK FALSE
