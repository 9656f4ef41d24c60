CONSTANTS
    K = 2
    N = 3
    Deadline = 1
    MaxGroups = 2
    Window = 200
    KeyframeRelax = TRUE
    RelaxMs = 100
    MaxFragments = 8
    Peers = {p1}
    GroupIds = {0, 1, 2}
    MaxTime = 3
    MaxDups = 0
SPECIFICATION Spec
PROPERTY
    FullMapEvictsExpired
CHECK_DEADLOCK FALSE
