SPECIFICATION FairSpec
CONSTANTS
  Settings <- MCTurnSettings
  Messages <- MCMessages
  Acks = 1
  MaxResend = 1
  Counts = 4
  CountSeen = 1
  BufferSize = 2
  Talkers = {"A", "B"}
  Posts <- MCPosts
  Faults <- MCFaults
  Refusals = 0
  Noise = {}
  FaultKinds = {"lose"}
PROPERTY SohAcknowledges
