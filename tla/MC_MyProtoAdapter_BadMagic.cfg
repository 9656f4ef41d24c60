CONSTANTS
    SizeofHeader = 44
    BFrameDelay = 40
    HotStarts = {FALSE}
    DropB = FALSE
    Heartbeat = 5000
    MaxTime = 2
    Wires <- BadMagicWires
    CutOffsets = {0}
SPECIFICATION Spec
INVARIANTS
    NoFramePublishedTwice
CHECK_DEADLOCK FALSE
