SPECIFICATION FairSpec
CONSTANTS
  Files = {f1, f2}
  Keys = {k1, k2}
  MaxCuts = 1
  Faults = {"fail", "full", "slow"}
INVARIANTS TypeOK Consistent NoOldKey WaitEnough
PROPERTIES VaultRefined CallsEnd
CHECK_DEADLOCK FALSE
