SPECIFICATION FairSpec
CONSTANTS
  TargetNode = {n1, n2}
  Pull = {p1}
  NoPull = NoPull
  FreezeOutlasts = TRUE
  FreshPoll = TRUE
  CaughtUpCrash = TRUE
  MaxWrites = 2
  MaxEvents = 1
CHECK_DEADLOCK FALSE
INVARIANTS
  MigrationLosesNothing
  NoTwoWriters
PROPERTIES
  MigrationCompletes
