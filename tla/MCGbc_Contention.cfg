CONSTANTS
    a = a
    b = b
    c = c
    d = d
    e = e
    x = x
    g = g
    t = t
    Station = {a, c, d, e}
    Router = {a, c, d, e}
    Position <- MCPosition
    Accurate <- MCAccurate
    Packet = {g}
    Type <- MCType
    Source <- MCSource
    Area <- FarArea
    Scf <- NotCarried
    MaxRange = 10
    Setups <- Contention
    DplLength = 2
    MemoryCapacity = 1
    PassUpOutside = FALSE
    HopLimit = 4
    MaxRequests = 1
    CountBound = 3
SPECIFICATION ProgressSpec
INVARIANTS
    ContentionBounded
    SilentOnlyIfCovered
    PassedUpOnce
PROPERTIES
    ComesToRest
    ReachesArea
CHECK_DEADLOCK FALSE
