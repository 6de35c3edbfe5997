CONSTANTS
    a = a
    b = b
    c = c
    d = d
    e = e
    x = x
    g = g
    t = t
    Station = {a, b, c, d, x}
    Router = {a, b, c, d}
    Position <- MCPosition
    Accurate <- MCAccurate
    Packet = {g, t}
    Type <- MCType
    Source <- MCSource
    Area <- FarArea
    Scf <- Carried
    MaxRange = 10
    Setups <- Greedy
    DplLength = 2
    MemoryCapacity = 0
    PassUpOutside = FALSE
    HopLimit = 3
    MaxRequests = 1
    CountBound = 3
SPECIFICATION FairSpec
INVARIANTS
    ForwardsOnce
    UnicastProgress
PROPERTIES
    ReachesArea
