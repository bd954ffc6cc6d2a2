SPECIFICATION TimelySpec
CONSTANTS
  n1 = n1
  n2 = n2
  n3 = n3
  m1 = m1
  m2 = m2
  a1 = a1
  b1 = b1
  c1 = c1
  Genesis = Genesis
  None = None
  Node <- Trio
  Peers <- Mesh
  Member = {m1, m2}
  Holder <- PairHolder
  Block <- LoneBlock
  Coordinator <- LoneCoordinator
  Parent <- LoneParent
  Hash <- LoneHash
  Height <- LoneHeight
  Quorum <- AllMembers
  SameWindow = 1
  GuardWindow = 2
  StaleAge = 2
  ProposalWindow = 1
  RebroadcastAt = 1
  PollLimit = 3
  GuardLimit = 5
  CacheLimit = 5
  PruneAt = 5
  KeepHeights = 0
  KeepItems = 5
  MaxTime = 4
  MaxRestarts = 0
  MaxLoss = 2
PROPERTY ProposalRecovers
CHECK_DEADLOCK FALSE
