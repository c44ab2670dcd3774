SPECIFICATION SpecCaches
CONSTANTS
  Months = 3
  DaysPerMonth = 2
  SlotsPerDay = 2
  Sources = {"rest", "vision", "stock", "funding", "metrics"}
  Listings = {3}
  LateDays = {3}
  LateMonths = {1}
  Opens = {3, 5, 7, 9}
  Closes = {5, 6, 9, 11}
  Quiet = {5, 7, 10}
  MaxSplits = 1
INVARIANTS CacheIsSound ReturnsSource NoMixedAdjustment DumpIsWhole
CHECK_DEADLOCK FALSE
