SPECIFICATION FairSpec
CONSTANTS
  a1 = a1
  a2 = a2
  b1 = b1
  b2 = b2
  b3 = b3
  t1 = t1
  t2 = t2
  Genesis = Genesis
  Free = Free
  Block = {a1, b1, b2, b3}
  Parent <- TwinParent
  Hash <- TwinHash
  Chain <- ChainOf
  ChainWork <- WorkOf
  BadContext = {}
  BadConnect = {b2}
  Stake = {b1}
  MaxReorg = 9
  Thread = {t1, t2}
  Main = t1
  MaxInvalidate = 0
  MaxReconsider = 0
  MaxCrash = 1
INVARIANT LinksExact BestTip CandidatesSettled OrderIndependent ActiveChainUsable DiskUsable
PROPERTY Converges
CHECK_DEADLOCK FALSE
