SPECIFICATION Spec
CONSTANTS
  Node = {n1, n2}
  NoNode = none
  RF = 2
  JoinLag = 1
  Retain = 4
  Batch = 2
  FlushSize = 2
  PromptServe = FALSE
  MaxSeq = 4
  MaxEpoch = 3
  MaxVersion = 6
  MaxFaults = 0
  MaxRequests = 2
SYMMETRY NodeSymmetry
INVARIANT HandoffLosesNothing
