SPECIFICATION FairSpec
CONSTANTS
  Hash = {1, 5}
  Count = {2, 3}
  Factor = {1, 2}
  Gcd <- GcdTable
  Admin = {a1}
  MaxRequests = 2
  MaxWrites = 2
  MaxFaults = 1
CHECK_DEADLOCK FALSE
INVARIANTS
  TypeOK
  KeysFollowRoute
  RefsMeanTheSame
PROPERTIES
  OwnersMoveForward
  Converges
