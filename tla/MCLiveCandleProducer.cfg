CONSTANTS
  a = a
  b = b
  End = End
  Symbols <- MCSymbols
  Deadline = 2
  MaxQueue = 2
  MaxAttempts = 2
  StableAfter = 1
SPECIFICATION FairSpec
INVARIANTS OneLayerReconnects FailureComesLast StallIsReal CaughtWithinTwice
PROPERTIES NothingAfterStop SilentStreamEnds
CHECK_DEADLOCK FALSE
