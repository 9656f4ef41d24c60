CONSTANTS
    K = 2
    N = 3
    Deadline = 1
    MaxGroups = 2
    Window = 200
    KeyframeRelax = TRUE
    RelaxMs = 100
    MaxFragments = 8
    Peers = {p1, p2}
    GroupIds = {0, 1}
    MaxTime = 3
    MaxDups = 0
SPECIFICATION Spec
INVARIANT
    NoStrandedFragment
CHECK_DEADLOCK FALSE
