CONSTANTS
    Handlers = {"myproto", "quic_fec_ts"}
    p1 = p1
    p2 = p2
    p3 = p3
    p4 = p4
    Peers = {p1, p2, p3, p4}
    Targets <- MCTargets
    Rands = {0}
    Builds = {"placeholder", "fallback"}
    AdapterTimeout = 1
    CleanupEvery = 2
    MaxTime = 4
    MaxPackets = 6
    MaxAdapters = 4
SPECIFICATION Spec
SYMMETRY MCSymmetry
INVARIANTS
    TypeOK
    SessionFeedsLiveAdapter
    StatsTrackLiveAdapters
CHECK_DEADLOCK FALSE
