SPECIFICATION FairSpec
CONSTANTS
  e1 = e1
  e2 = e2
  e3 = e3
  Ids = {e1}
  MaxTime = 2
  Controls = {"stop"}
  None = None
CHECK_DEADLOCK FALSE
PROPERTY StopReturns
