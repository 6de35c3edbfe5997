CONSTANTS
    r = r
    s = s
    a = a
    t = t
    cam = cam
    Cert = {r, s, a, t}
    Self = Self
    NoCert = NoCert
    NoRegion = NoRegion
    Aid = {cam}
    Setups <- MCSetups
    MaxChainDepth = 3
    Second = 2
    YearChecked = 3
    YearNested = 2
    TimeModulus = 8
    Places = {1, 3}
    MaxTime = 13
SPECIFICATION Spec
INVARIANTS
    PolicyOrder
    ValidIffVouchedFor
    ChainCurrent
    RegionCovered
CHECK_DEADLOCK FALSE
