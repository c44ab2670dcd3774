CONSTANTS
  None = None
  NaN = NaN
  Refused = Refused
  History = 2
  Multiplier = 1
  Streamed <- MCStreamed
  Listed <- MCListed
  Plan <- MCPlan
  Markets <- MCMarkets
  ActionLists <- MCActionLists
  LateLists <- MCLateLists
  InitMargin = 2
  Vectorize = TRUE
SPECIFICATION SpecLoops
INVARIANTS BacktestIsLive ReadsMatchMeaning WarmupSuffices
PROPERTIES LateNeverGrows
CHECK_DEADLOCK FALSE
