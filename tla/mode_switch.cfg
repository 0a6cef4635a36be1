SPECIFICATION Spec
CONSTANTS
  gui = gui
  cli = cli
  Clients = {gui, cli}
  None = None
  MaxRequests = 2
  MaxEdits = 2
  Failures = {"open", "source", "mount", "write", "net", "crash", "kill"}
SYMMETRY ClientSymmetry
CHECK_DEADLOCK FALSE
INVARIANTS TypeOK PointerAlive ModeInForce CacheReachable SettingsKept SwitchPresented
PROPERTY StoppedIsFinal
