SPECIFICATION Spec
CONSTANTS
  Symbols = {"BTC"}
  Configs = {"a"}
  FlushEvery = 2
  MaxMonth = 3
  MaxRows = 4
  MaxFills = 0
  MaxRestarts = 2
  Runs <- MCRuns
INVARIANTS NoRowLost
CHECK_DEADLOCK FALSE
