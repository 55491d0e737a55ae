SPECIFICATION FairSpec
CONSTANTS
  Node = {n1, n2}
  NoNode = NoNode
  LB = {b1, b2}
  Strategy = "round-robin"
  MaxAttempts = 2
  MaxRetries = 1
  MaxCalls = 2
  MaxFaults = 1
  MaxHandoffs = 1
CHECK_DEADLOCK FALSE
INVARIANTS
  LastWriteWins
  HandoffEndsWrites
PROPERTIES
  EveryCallReturns
