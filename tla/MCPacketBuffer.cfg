CONSTANTS
    p1 = p1
    p2 = p2
    p3 = p3
    p4 = p4
    PendingPacket = {p1, p2, p3, p4}
    Length <- MCLength
    Capacity = 4
    Lifetimes <- MCLifetimes
    Steps = {20, 40}
    MaxTime = 120
    MaxTries = 3
SPECIFICATION BufferSpec
INVARIANTS
    Consistent
PROPERTIES
    FlushLosesNothing
