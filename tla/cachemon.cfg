SPECIFICATION FairSpec
CONSTANTS
  h1 = h1
  h2 = h2
  Handles = {h1, h2}
  Service = service
  None = none
  Faults = {"context", "unload"}
  MaxOps = 3
  MaxLoads = 2
  MaxStarts = 2
INVARIANTS TypeOK NoFeedback PidHasClient WriteEndsReported 
PROPERTIES OperationsFinish StopReturns
CHECK_DEADLOCK FALSE
