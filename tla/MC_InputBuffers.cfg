CONSTANTS
    Levels = {"reorder", "jitter", "ts", "demux"}
    Window = 1
    KeyframeRelax = TRUE
    RelaxMs = 1
    MaxFragments = 2
    MaxSeq = 4
    MaxAdds = 6
    MaxTime = 3
    Dts = {0, 1, 2, 3, 4}
    Configs <- MCConfigs
    MaxPushes = 6
    TsPacketSize = 188
    Wires <- MCWires
    DgramLens = {3, 12, 100, 188, 376}
    Detection = {TRUE, FALSE}
    Pes <- MCPes
    MaxMsgs = 5
    MaxFails = 2
SPECIFICATION Spec
INVARIANTS
    TypeOK
    FragmentAccounting
    StoredNotBelowExpected
    PopsIncreasing
    NoFrameBeforeSequenceHeader
PROPERTIES
    ExpectedMonotonic
    ImplementsOrderedDelivery
CHECK_DEADLOCK FALSE
