SPECIFICATION Spec
CONSTANTS
  Quantities <- MCQuantities
  Resting <- MCResting
  MarketIds <- MCMarketIds
  All = "all"
  MaxTries = 2
  Workers = 2
  MaxOrders = 3
  MaxDecisions = 2
  StartPosition = 1
  MaxFailures = 1
INVARIANTS RecordedOnce PairedExactly MirrorAtRest NoSilentFailure
PROPERTIES CloseNeverOpens
CHECK_DEADLOCK FALSE
