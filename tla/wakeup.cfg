SPECIFICATION FairSpec
CONSTANTS
  e2 = e2
  e1 = e1
  Ids = {e1, e2}
  MaxTime = 2
  Controls = {"pause", "stop"}
  None = None
CHECK_DEADLOCK FALSE
INVARIANTS TypeOK NoPushMissed
PROPERTY PushTakenUp
