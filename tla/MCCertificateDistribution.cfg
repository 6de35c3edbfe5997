CONSTANTS
    a = a
    b = b
    ta = ta
    tb = tb
    te = te
    A = A
    Nobody = Nobody
    Station = {a, b}
    Ticket = {ta, tb, te}
    Authority = {A}
    HashedId3 = {1, 2, 3, 4}
    OwnTicket <- MCOwnTicket
    Issuer <- MCIssuer
    Short <- MCShort
    Preloaded <- MCPreloaded
    Rejected <- MCRejected
    Failing = {b}
    Aids <- MCAids
    Strange <- MCStrange
    Limit = 2
    Interval = 1
    CamPeriod = 1
    MaxAir = 1
SPECIFICATION FairSpec
INVARIANTS
    CacheSound
    RequestRemembered
PROPERTIES
    Acquainted
    RequestsDrain
