SPECIFICATION Spec
CONSTANTS
  Paths <- MCPaths
  MaxTokens = 2
  Outside <- MCOutside
  Configs <- MCConfigs
  MaxPending = 1
  MaxExternal = 1
  MaxChanges = 1
  MaxFaults = 2
  MaxCrashes = 1
INVARIANTS
  TypeOK
  AnswersAreTrue
  LastIsRecoverable
  SavedIsCommittable

  
  
CHECK_DEADLOCK FALSE
