SPECIFICATION GenSpec
CONSTANTS
    GenObjects = {1, 2}
    GenMutators = {m1}
    GenPlans = {"gencopy"}
    MODBUF_SIZE = 2
    HeaderMarks = TRUE
    MaxOperations = 3
    MaxCycles = 3
INVARIANT ReachableObjectsSurvive
CHECK_DEADLOCK FALSE
