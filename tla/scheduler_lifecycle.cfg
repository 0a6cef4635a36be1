SPECIFICATION FairSpec
CONSTANTS
  a = a
  b = b
  Files = {a, b}
  None = None
  Second = 2
  CopyDelay = 2
  BatchSize = 1
  CompareHash = TRUE
  Evicts = FALSE
  HashFails = FALSE
  RetryBase = 2
  RetryCap = 4
  SizeOf <- MCSizeOf
  MaxTime = 5
  MaxVersion = 1
  Reported = {"ReadOpen", "Rename", "Delete"}
  MaxRetries = 2
  MaxEvents = 2
  Environment = {"pause", "stop", "crash", "fail"}
CHECK_DEADLOCK FALSE
INVARIANT JobCovered
PROPERTIES QuietPeriodKept EventuallyTakenUp
