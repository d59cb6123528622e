SPECIFICATION FairSpec
CONSTANTS
  NumReg = 3
  MaxWork = 2
  Loads = 2
  Spoils = 1
  Requests = 5
  Cuts = 1
INVARIANTS TypeOK HostAgrees UniqueKeys ForwardSecrecy CheckedKeys
PROPERTY RequestsEnd
