SPECIFICATION SpecCaches
CONSTANTS
  Months = 3
  DaysPerMonth = 2
  SlotsPerDay = 2
  Sources = {"metrics"}
  Listings = {0}
  LateDays = {0, 1, 2, 3, 4, 5}
  LateMonths = {}
  Opens = {}
  Closes = {}
  Quiet = {}
  MaxSplits = 1
INVARIANT DumpIsSource
CHECK_DEADLOCK FALSE
