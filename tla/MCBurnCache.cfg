SPECIFICATION Spec
CONSTANTS
    g = g  a1 = a1  a2 = a2  a3 = a3  a4 = a4  b2 = b2  x2 = x2  d1 = d1  d2 = d2
    Genesis = g
    Block <- MCBlock
    Parent <- MCParent
    Dest = {d1, d2}
    Amount = {1}
    Burns <- MCBurns
    Bad = {x2}
    FailsAfter <- MCFailsAfter
    Decay = 2
    MaxCrash = 2
INVARIANT WeightFollowsChain SavedBurnsReload
