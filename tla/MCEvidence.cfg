SPECIFICATION Spec
CONSTANTS
  Addresses = {1, 2}
  Macs = {"m", "o"}
  Names = {"n"}
  Resolvers = {1, 2}
  Files <- MCFiles
  Settings <- MCSettings
  Tables <- MCTables
  Worlds <- MCWorlds
  Default = 3
  Day = 3
  MaxTime = 4
  MaxJobs = 2
  MaxEdits = 1
  MaxMoves = 1
INVARIANTS
  VerdictsHold
  RespondersAnswered
PROPERTIES
  UnrelatedEditsKeepRows
  StaleUntilChecked
CHECK_DEADLOCK FALSE
