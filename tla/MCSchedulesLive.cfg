SPECIFICATION FairSpec
CONSTANTS
  MaxJob = 4
  Retention = 2
  Count = 2
  Definitions <- MCShort
  MaxTime = 2
  MaxRequests = 2
  MaxFaults = 0
  MaxCrashes = 0
PROPERTIES
  DueIsServed
  RunsAreJudged
CHECK_DEADLOCK FALSE
