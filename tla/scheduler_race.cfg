SPECIFICATION Spec
CONSTANTS
  a = a
  b = b
  Files = {a, b}
  None = None
  Second = 1
  CopyDelay = 1
  BatchSize = 2
  CompareHash = TRUE
  Evicts = TRUE
  HashFails = TRUE
  RetryBase = 2
  RetryCap = 2
  SizeOf <- MCSizeOf
  MaxTime = 2
  MaxVersion = 2
  Reported = {"ReadOpen", "Delete"}
  MaxRetries = 2
  MaxEvents = 3
  Environment = {"write", "delete", "fail"}
SYMMETRY FileSymmetry
CHECK_DEADLOCK FALSE
INVARIANTS TypeOK PresentHasFile FreshUnlessRaced
PROPERTY RequestsKept
