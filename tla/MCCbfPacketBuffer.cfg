CONSTANTS
    p1 = p1
    p2 = p2
    p3 = p3
    Id = {p1, p2, p3}
    Length <- MCLength
    Capacity = 3
    Timeouts = {20, 60}
    MaxTimeout = 60
    Lifetimes <- MCLifetimes
    Steps = {20, 40}
    MaxTime = 80
    MaxUpdates = 2
    CounterKind = "contending"
    CounterLifetime = 80
SPECIFICATION Spec
INVARIANTS
    Consistent
    EventPending
    BoundedLateness
    LifetimeDrift
PROPERTIES
    ImplementsContentionBuffer
