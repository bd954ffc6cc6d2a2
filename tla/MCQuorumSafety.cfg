SPECIFICATION Spec
CONSTANTS
  n1 = n1
  n2 = n2
  n3 = n3
  m1 = m1
  m2 = m2
  a1 = a1
  b1 = b1
  c1 = c1
  Genesis = Genesis
  None = None
  Node = {n1, n2}
  Peers <- Mesh
  Member = {m1, m2}
  Holder <- PairHolder
  Block <- ForkBlocks
  Coordinator <- ForkCoordinator
  Parent <- ForkParent
  Hash <- ForkHash
  Height <- ForkHeight
  Quorum <- AllMembers
  SameWindow = 1
  GuardWindow = 2
  StaleAge = 2
  ProposalWindow = 1
  RebroadcastAt = 5
  PollLimit = 1
  GuardLimit = 1
  CacheLimit = 1
  PruneAt = 1
  KeepHeights = 0
  KeepItems = 1
  MaxTime = 3
  MaxRestarts = 1
  MaxLoss = 0
INVARIANT GuardWindowRespected CertificateSound CompetingCertificatesApart
CHECK_DEADLOCK FALSE
