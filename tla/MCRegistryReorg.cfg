SPECIFICATION Spec
CONSTANTS
  a1 = a1
  a2 = a2
  a3 = a3
  b2 = b2
  b3 = b3
  b4 = b4
  k1 = k1
  k2 = k2
  k3 = k3
  k4 = k4
  c1 = c1
  c2 = c2
  Genesis = Genesis
  None = None
  Block = {a1, a2, a3, b2, b3, b4}
  Parent <- ForkParent
  Chain <- ChainOf
  Rank <- ForkRank
  Keys <- FourKeys
  Coll = {c1, c2}
  Owner <- Owners
  Content <- RotationContent
  Miners = {}
  Window = 2
  HistoryCap = 2
  MaxHeights = 2
  CheckBlocks = 1
  MaxRestart = 2
INVARIANT RegistryFollowsChain HeightsOnChain OneKeyPerCollateral LoadFollowsChain
CHECK_DEADLOCK FALSE
