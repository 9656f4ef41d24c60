CONSTANTS
    K = 2
    N = 3
    Deadline = 1
    MaxGroups = 2
    Window = 200
    KeyframeRelax = TRUE
    RelaxMs = 100
    MaxFragments = 8
    Peers = {p1}
    GroupIds = {0, 1, 2}
    MaxTime = 2
    MaxDups = 1
SPECIFICATION Spec
INVARIANTS
    NoStrandedFragment
    GroupAccounting
PROPERTIES
    ImplementsFecChannel
CHECK_DEADLOCK FALSE
