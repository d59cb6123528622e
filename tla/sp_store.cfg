SPECIFICATION Spec
CONSTANTS
  Calls = {"get", "put"}
  Puts = {"put"}
  Menu = {}
  MaxCuts = 1
CHECK_DEADLOCK FALSE
INVARIANT StoppedClean
