SPECIFICATION Spec
CONSTANTS
  Calls = {"get", "put"}
  Puts = {"put"}
  Menu = {"burn", "kms"}
  MaxCuts = 1
CHECK_DEADLOCK FALSE
INVARIANT TypeOK
INVARIANT OneCall
INVARIANT RefusedAfterTamper
INVARIANT VerifiedOnly
PROPERTY ApiRefined
