SPECIFICATION FairSpec
CONSTANTS
  MaxJob = 1
  Retention = 1
  Addrs = {1, 2, 3}
  Concurrency = 2
  Threshold = 3
  Requests <- MCFull
  MaxFaults = 2
  MaxCrashes = 0
PROPERTIES
  RunsEnd
  CloseEnds
  RowsEnd
CHECK_DEADLOCK FALSE
