SPECIFICATION Spec
CONSTANTS
  f1 = f1
  f2 = f2
  f3 = f3
  Files = {f1, f2, f3}
  None = None
  Second = 1
  Sizes <- MCSizes
  Hints <- MCHints
  Capacity = 2
  MinFree = 1
  Requests <- MCRequests
  Kilo = 2
  Word = 32
  Faults = {"remove", "unmount", "ignore"}
  MaxAccess = 3
  MaxFrees = 1
  MaxUpsets = 1
INVARIANTS TypeOK IndexAgrees RoomMade FreeExact
SYMMETRY MCSymmetry
CHECK_DEADLOCK FALSE
