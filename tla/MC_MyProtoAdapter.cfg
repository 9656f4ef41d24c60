CONSTANTS
    SizeofHeader = 44
    BFrameDelay = 40
    HotStarts = {FALSE, TRUE}
    DropB = TRUE
    Heartbeat = 1
    MaxTime = 3
    Wires <- PassWires
    CutOffsets = {0, 45}
SPECIFICATION Spec
INVARIANTS
    TypeOK
    PublishedDtsMonotone
    PausedUntilKeyframe
    NewSpsBeforeKeyframe
CHECK_DEADLOCK FALSE
