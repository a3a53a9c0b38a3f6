CONSTANTS
  Bits = 3
  Threshold = 2
  MaxJobs = 2
  Inventories <- MCInventories
SPECIFICATION Spec
INVARIANTS PlansAreExact RowsAreCanonical
PROPERTY LatestWins
