CONSTANTS
    t = t
    u = u
    v = v
    w = w
    x = x
    y = y
    Packet = {t, u, v, w, x, y}
    ProfileOf <- MCProfileOf
    LifetimeOf <- MCLifetimeOf
    Burst = 1
    BurstDuration = 1
    BurstPeriod = 2
    Intervals = {1, 2}
    QueueLength = 2
    MaxDelay = 2
    MaxTime = 3
SYMMETRY Alike
SPECIFICATION Spec
INVARIANTS
    NoStall
    DropsReported
PROPERTIES
    ImplementsPriorityQueues
