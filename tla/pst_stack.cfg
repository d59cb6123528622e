SPECIFICATION Spec
CONSTANTS
  MAX_PST_NO = 3
  MAX_DID_NO = 2
  TimerDevices = {"TIM","TIM2"}
  CloseAllDev = "TIM"
  Buzzers = {}
  BeepCycles = 1
  TamperForks = 0
  CallsAfter = 0
  MaxOpen = 4
  LastFirst = TRUE
  Paced = TRUE
INVARIANT NoneStarved
INVARIANT HandlesUnique
INVARIANT HandlesLive
INVARIANT ClosedAreDead
PROPERTY TimersRun
PROPERTY CallsReturn
