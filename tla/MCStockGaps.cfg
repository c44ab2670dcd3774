SPECIFICATION SpecCaches
CONSTANTS
  Months = 3
  DaysPerMonth = 2
  SlotsPerDay = 2
  Sources = {"stock"}
  Listings = {0}
  LateDays = {}
  LateMonths = {}
  Opens = {1, 3, 5, 7, 9}
  Closes = {3, 5, 6, 9, 10}
  Quiet = {5}
  MaxSplits = 1
INVARIANT CacheIsSource
CHECK_DEADLOCK FALSE
