CONSTANTS
  None = None
  NaN = NaN
  Refused = Refused
  History = 2
  Multiplier = 1
  Streamed <- MCStreamed
  Listed <- MCListed
  Plan <- MCADXPlan
  Markets <- MCMarkets
  ActionLists <- MCActionLists
  LateLists <- MCLateLists
  InitMargin = 2
  Vectorize = TRUE
SPECIFICATION SpecLoops
INVARIANT WindowWarms
CHECK_DEADLOCK FALSE
