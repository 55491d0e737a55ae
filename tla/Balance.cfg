SPECIFICATION FairSpec
CONSTANTS
  Node = {1, 2, 3}
  NoNode = NoNode
  RF = 2
  JoinLag = 0
  Partitions = 2
  MaxMovesPerRound = 2
  Requests = {"leave", "join", "drain", "transfer", "move", "unpin", "late"}
  MaxRequests = 2
CHECK_DEADLOCK FALSE

  
PROPERTIES
  FollowersOutlastMoves
  Settles
