SPECIFICATION Spec
CONSTANTS
    BlockMutators = {m1, m2}
    NoBlock = nb
    NoOwner = no
    BlocksInChunk = 2
    MaxChunks = 1
    AllocCount = 2
    StealCount = 1
    HeapBlocks = 2
    LastEpoch = 4
    MaxBlockPauses = 2
    StopsTogether = TRUE
    GenObjects = {1, 2}
    GenMutators = {m1}
    GenPlans = {"gencopy", "genimmix", "sticky"}
    MODBUF_SIZE = 2
    HeaderMarks = FALSE
    MaxOperations = 3
    MaxCycles = 2
INVARIANTS
    
    BlockAccountsAgree
    ReachableObjectsSurvive
CHECK_DEADLOCK FALSE
