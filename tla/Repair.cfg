SPECIFICATION FairSpec
CONSTANTS
  Node = {n1, n2}
  NoNode = none
  RF = 2
  JoinLag = 0
  Retain = 4
  Batch = 2
  FlushSize = 3
  PromptServe = FALSE
  MaxSeq = 4
  MaxEpoch = 3
  MaxVersion = 6
  MaxFaults = 1
  MaxRequests = 0
PROPERTIES
  Heals
