SPECIFICATION Spec
CONSTANTS
  MAX_PST_NO = 2
  MAX_DID_NO = 1
  TimerDevices = {"TIM"}
  CloseAllDev = "TIM"
  Buzzers = {"BUZ"}
  BeepCycles = 2
  TamperForks = 1
  CallsAfter = 1
  MaxOpen = 1
  LastFirst = FALSE
  Paced = FALSE
INVARIANT TypeOK
INVARIANT CallbackSafe
INVARIANT DeviceLimit
