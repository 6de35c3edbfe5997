CONSTANTS
    p1 = p1
    p2 = p2
    Process = {p1, p2}
    None = None
    Boot = Boot
    Alone = {}
    MaxKeys = 2
    MaxTickets = 2
SPECIFICATION Spec
SYMMETRY ProcessSymmetry
PROPERTIES
    OnlyOrphansPruned
