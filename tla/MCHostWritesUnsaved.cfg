SPECIFICATION Spec
CONSTANTS
  Paths <- MCPaths
  MaxTokens = 2
  Outside <- MCOutside
  Configs <- MCConfigs
  MaxPending = 1
  MaxExternal = 0
  MaxChanges = 0
  MaxFaults = 1
  MaxCrashes = 0
INVARIANTS
  NeverUnsaved
CHECK_DEADLOCK FALSE
