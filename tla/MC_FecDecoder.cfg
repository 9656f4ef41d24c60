CONSTANTS
    Levels = {"field", "solver", "group"}
    SolverK = 8
    MaxMissing = 4
    Vals = {3, 200}
    K = 6
    N = 9
    Bytes = {0, 1}
SPECIFICATION Spec
INVARIANTS
    TypeOK
    GfMulMatchesReference
    GfInvIsInverse
    SolverRecoversUnknowns
    RepairShape
PROPERTIES
    RepairFailsOnlyWithoutEnoughData
CHECK_DEADLOCK FALSE
