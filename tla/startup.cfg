SPECIFICATION FairSpec
CONSTANTS
  N = 2
  Others = {2}
  Clients = {0, 1, 2}
  NumOps = {1, 5}
  Sleeps = {FALSE, TRUE}
  Types = {"TCP", "RC", "UC", "UD"}
  None = None
CHECK_DEADLOCK FALSE
INVARIANTS BuffersFirst SleepSuffices ReportExact CrashOnlyIfLost
PROPERTIES WorkerForEach LoopReturns BenchmarkEnds
