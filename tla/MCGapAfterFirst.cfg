CONSTANTS
  None = None
  NaN = NaN
  Refused = Refused
  History = 2
  Multiplier = 1
  Streamed <- MCStreamed
  Listed <- MCListed
  Plan <- MCPlan
  Markets <- MCGapMarkets
  ActionLists <- MCActionLists
  LateLists <- MCLateLists
  InitMargin = 2
  Vectorize = TRUE
SPECIFICATION SpecLoops
INVARIANT OnlyIntervalsRefused
CHECK_DEADLOCK FALSE
