SPECIFICATION Spec
CONSTANTS
  Symbols = {btc, eth}
  Configs = {a, b}
  FlushEvery = 2
  MaxMonth = 2
  MaxRows = 3
  MaxFills = 2
  MaxRestarts = 2
  Runs <- MCRuns
SYMMETRY MCAlike
INVARIANTS LossBounded SavedIsLogged SettingsNeverMix RowsSurvive
CHECK_DEADLOCK FALSE
