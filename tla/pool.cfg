CONSTANTS
  NThreads = 3
  MaxCount = 4
  MaxRuns = 2
SPECIFICATION PoolSpec
INVARIANTS
  EachTaskOnce
  QuietBetweenRuns
  ReturnMeansAllRun
PROPERTY RunsEnd
CHECK_DEADLOCK FALSE
