SPECIFICATION FairSpec
CONSTANTS
    s = s
    a = a
    b = b
    p14 = p14
    v1 = v1
    v2 = v2
    NoSpork = NoSpork
    Node <- Nodes
    Edge <- Line
    Start <- Line
    Signer = {s}
    Id = {p14}
    MinProtocol = p14
    Value = {v1, v2}
    Default <- Defaults
    FutureLimit = 0
    Stray <- Strays
    Restartable = {b}
    MaxTime = 1
    MaxSigns = 2
    MaxFaults = 1
INVARIANT OnlySigned SavedBeforeServed
PROPERTY NeverOlder Agreement
CHECK_DEADLOCK FALSE
