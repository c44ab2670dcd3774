SPECIFICATION SpecCaches
CONSTANTS
  Months = 3
  DaysPerMonth = 2
  SlotsPerDay = 2
  Sources = {"vision"}
  Listings = {0}
  LateDays = {0, 1, 2, 3, 4, 5}
  LateMonths = {0, 1, 2}
  Opens = {}
  Closes = {}
  Quiet = {}
  MaxSplits = 1
INVARIANT CacheIsSource
CHECK_DEADLOCK FALSE
