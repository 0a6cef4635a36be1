SPECIFICATION Spec
CONSTANTS
  Clients = {gui}
  gui = gui
  None = None
  MaxRequests = 4
  MaxEdits = 1
  Failures = {}
CHECK_DEADLOCK FALSE
INVARIANT ModePresented
