SPECIFICATION Spec
CONSTANTS
  Calls = {"get", "put"}
  Puts = {}
  Menu = {}
  MaxCuts = 2
CHECK_DEADLOCK FALSE
INVARIANT StoppedClean
PROPERTY KeysGone
PROPERTY Answered
