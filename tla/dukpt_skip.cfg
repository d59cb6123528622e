SPECIFICATION Spec
CONSTANTS
  NumReg = 3
  MaxWork = 2
  Loads = 1
  Spoils = 0
  Requests = 7
  Cuts = 0
PROPERTY Skips
