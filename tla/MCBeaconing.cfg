SPECIFICATION Spec

CONSTANTS
    TimestampModulus = 32
    EntryLifetime = 11
    NeighbourExpiry = 0
    NoEntry = NoEntry
    Never <- MCNever
    Period = 2
    Jitter = 1
    UpdateInterval = 1
    Requests <- MCRequests
    Off <- MCOff
    InitialClock = 28
    SetBack = 10
    MaxLatency = 1
    MaxStep = 2
    MaxTime = 15
    MaxRequests = 1
    MaxFaults = 1

INVARIANTS
    SilentOnlyAfterFailure
    RepetitionsBounded
    NeighbourKept
    Heals

CHECK_DEADLOCK FALSE
