CONSTANTS
    Levels = {"group"}
    SolverK = 8
    MaxMissing = 4
    Vals = {3, 200}
    K = 4
    N = 5
    Bytes = {0, 1}
SPECIFICATION Spec
INVARIANT
    RepairRestoresData
CHECK_DEADLOCK FALSE
