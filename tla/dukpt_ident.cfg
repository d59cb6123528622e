SPECIFICATION Spec
CONSTANTS
  NumReg = 3
  MaxWork = 2
  Loads = 2
  Spoils = 1
  Requests = 1
  Cuts = 1
INVARIANT IdentHeld
