CONSTANTS
    SizeofHeader = 44
    BFrameDelay = 40
    HotStarts = {FALSE}
    DropB = FALSE
    Heartbeat = 5000
    MaxTime = 2
    Wires <- ScenarioAWires
    CutOffsets = {0}
SPECIFICATION Spec
PROPERTIES
    FeedReturns
CHECK_DEADLOCK FALSE
