CONSTANTS
  Candles = {"a", "b"}
  JobLists <- MCJobLists
  MaxWorkers = 2
  MaxTasks = 2
  MaxDeaths = 1
  Nothing = Nothing
SPECIFICATION Spec
INVARIANT SweepIsSequential
CHECK_DEADLOCK FALSE
