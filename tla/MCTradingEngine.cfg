CONSTANTS
  a = a
  b = b
  NoSymbol = NoSymbol
  Symbols <- MCSymbols
  Windows <- MCWindows
  Interval = 2
  MaxStart = 6
  MaxBackfill = 1
  EventWidth = 2
  HasHistory = TRUE
  HandlesErrors = TRUE
SPECIFICATION FairSpec
INVARIANTS AtMostOnce NoHole
PROPERTIES DecidesOnNewest ImplementsFeed EventSettled
CHECK_DEADLOCK FALSE
