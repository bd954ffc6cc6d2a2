SPECIFICATION Spec
CONSTANTS
    g = g  a1 = a1  a2 = a2  a3 = a3  b2 = b2
    k1 = k1  k2 = k2  k3 = k3  k4 = k4
    c1 = c1  c2 = c2  m1 = m1  m2 = m2  m3 = m3  m4 = m4  p = p
    NoCoin = NoCoin
    Genesis = g
    Block <- MCBlock
    Parent <- MCParent
    Key <- MCKey
    Order <- MCOrder
    Rank <- MCRank
    Coin = {c1, c2, m1, m2, m3, m4}
    Registrations <- MCRegistrations
    Beats <- MCBeats
    Collateral <- MCCollateral
    Spent <- MCSpent
    FundSpend = {a2, a3}
    SpentBefore <- MCSpent
    Producer <- MCProducer
    AdamHeight = 2
    RegPeriod = 2
    Window = 2
    MaxAge = 2
    LastBootstrap = 2
    BootstrapLimit = 2
    MinersCount = 2
    LowThreshold = 1
    HighThreshold = 2
    ThresholdLimit = 3
    QuorumMin = 5
    PoolCacheCap = 1
    Asker = {p}
    Seeds = {a1, a2}
CHECK_DEADLOCK FALSE
INVARIANT AnswersFollowChain ElectedEnough
