CONSTANTS
    p1 = p1
    p2 = p2
    Process = {p1, p2}
    None = None
    Boot = Boot
    Alone = {"orphans"}
    MaxKeys = 2
    MaxTickets = 2
SPECIFICATION Spec
SYMMETRY ProcessSymmetry
INVARIANTS
    CertificatesUsable
    EcAvailable
    NoKeyLeft
PROPERTIES
    OrphansRemoved
