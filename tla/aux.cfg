SPECIFICATION MCFairSpec
CONSTANTS
  Settings <- MCSettings
  Messages <- MCMessages
  Acks = 1
  MaxResend = 2
  Counts = 4
  CountSeen = 2
  BufferSize = 2
  Talkers = {"A"}
  Posts <- MCPosts
  Faults <- MCFaults
  Refusals = 1
  Noise = {0, 1, 2, 21}
  FaultKinds = {"lose", "damage"}
INVARIANTS TypeOK AcknowledgedKept DuplicatesPaid
PROPERTIES DeliveryRefined Repaired WaitEnds
