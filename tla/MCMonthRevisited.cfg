SPECIFICATION Spec
CONSTANTS
  Symbols = {"BTC", "ETH"}
  Configs = {"a"}
  FlushEvery = 2
  MaxMonth = 3
  MaxRows = 4
  MaxFills = 0
  MaxRestarts = 0
  Runs <- MCRuns
INVARIANTS NoRowLost
CHECK_DEADLOCK FALSE
