SPECIFICATION Spec
CONSTANTS
  MaxJob = 3
  Retention = 1
  Count = 2
  Definitions <- MCTwo
  MaxTime = 2
  MaxRequests = 2
  MaxFaults = 2
  MaxCrashes = 1
INVARIANTS
  TypeOK
  FailuresAreReal
  RunsAreShown
  InterruptionsAreShown
  Coalesced
PROPERTIES
  NoCatchUp
CHECK_DEADLOCK FALSE
