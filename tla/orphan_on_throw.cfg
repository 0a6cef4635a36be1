SPECIFICATION FairSpec
CONSTANTS
  a = a
  b = b
  Files = {a, b}
  None = None
  Second = 1
  CopyDelay = 1
  BatchSize = 2
  CompareHash = TRUE
  Evicts = FALSE
  HashFails = TRUE
  RetryBase = 1
  RetryCap = 2
  SizeOf <- MCSizeOf
  MaxTime = 3
  MaxVersion = 1
  Reported = {"ReadOpen", "Rename", "Delete"}
  MaxRetries = 2
  MaxEvents = 2
  Environment = {}
CHECK_DEADLOCK FALSE
PROPERTY EventuallyTakenUp
