SPECIFICATION Spec
CONSTANTS
  Node = {n1, n2, n3}
  NoNode = none
  RF = 3
  JoinLag = 1
  Retain = 2
  Batch = 2
  FlushSize = 3
  PromptServe = FALSE
  MaxSeq = 4
  MaxEpoch = 2
  MaxVersion = 3
  MaxFaults = 1
  MaxRequests = 0
SYMMETRY NodeSymmetry
INVARIANTS TypeOK OneLeaderPerEpoch DataIsPrefix
