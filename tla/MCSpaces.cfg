SPECIFICATION Spec
CONSTANTS
    NumImmixBlocks = 3
    LINES = 4
    GRANULES = 2
    HeapBlocks = 2
    ObjectSizes = {1, 3}
    MaxLive = 2
    MaxRequests = 4
    MaxCollections = 4
    MAX_MARK_STATE = 3
    AlwaysDefrag = {TRUE, FALSE}
    McMutators = {m1}
    McRoots = {1, 2}
    McShapes <- TwoShapes
    MAX_ALIGNMENT = 2
    BYTES_IN_PAGE = 4
    BLOCK_PAGES = 1
    PAGES_IN_CHUNK = 2
    McChunkCount = 2
    MarkInHeader = TRUE
    StressModes = {TRUE, FALSE}
    EmptyHeaps = FALSE
    MaxCompactions = 2
    MallocMutators = {m1, m2}
    SweepWorkers = {w1, w2}
    PageWords = 2
    PagesPerChunk = 2
    MallocChunks = 2
    MallocSizes = {1, 2}
    MallocOverhead = 1
    MaxObjects = 2
    MaxSweeps = 2
    MSMutators = {m1, m2}
    NumBlocks = 3
    BlocksPerChunk = 2
    BlockWords = 2
    BinWords <- TwoBins
    MaxPausesMS = 2
    MaxAllocs = 3
INVARIANTS
    HolesHoldNoObject
    SweepIsExact
    
    
    BlockListsAreExact
    ReachableCellsAreNotFree
CHECK_DEADLOCK FALSE
