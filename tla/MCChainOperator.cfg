SPECIFICATION Spec
CONSTANTS
  a1 = a1
  a2 = a2
  b1 = b1
  b2 = b2
  b3 = b3
  t1 = t1
  t2 = t2
  Genesis = Genesis
  Free = Free
  Block = {a1, a2, b1, b2}
  Parent <- SplitParent
  Hash <- SplitHash
  Chain <- ChainOf
  ChainWork <- WorkOf
  BadContext = {b2}
  BadConnect = {}
  Stake = {}
  MaxReorg = 1
  Thread = {t1, t2}
  Main = t1
  MaxInvalidate = 1
  MaxReconsider = 1
  MaxCrash = 0
INVARIANT ActiveChainUsable CandidateLeft BestTip
CHECK_DEADLOCK FALSE
