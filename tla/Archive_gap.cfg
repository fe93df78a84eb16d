CONSTANTS
  Channels = {"C1", "C2"}
  PageSize = 1
  Lookback = 1
  Refresh = TRUE
  IncludeThreads = TRUE
  MaxTime = 3
  MaxRuns = 2
SPECIFICATION Spec
CHECK_DEADLOCK FALSE
INVARIANT ResumeContinues
