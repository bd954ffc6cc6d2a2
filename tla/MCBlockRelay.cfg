SPECIFICATION FairSpec
CONSTANTS
    g = g  a1 = a1  a2 = a2  n1 = n1  p1 = p1  p2 = p2
    None = None
    Block <- MCBlock
    Genesis = g
    Parent <- MCParent
    Rank <- MCRank
    Time <- MCTime
    Signed <- MCBlock
    Refusable = {a1, a2}
    Marked = {n1}
    Unmarked = {a1, a2}
    Peer = {p1, p2}
    Preferred = {}
    Told = {a2, n1}
    Compact = {a2}
    Drift = 0
    Horizon = 2
    FutureCap = 1
    PartialCap = 1
    MaxInTransit = 1
    Window = 1
    MaxNow = 2
    MaxQueued = 2
INVARIANT TypeOK FlightExact StallersOwe FlyingMissing
PROPERTY EarliestDeferredArrives NothingFliesForever
CHECK_DEADLOCK FALSE
