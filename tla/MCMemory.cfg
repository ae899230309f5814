SPECIFICATION Spec
CONSTANTS
    NumFreeListSpaces = 1
    NumMonotoneSpaces = 1
    NumBlockSpaces = 1
    PagesInChunk = 2
    FirstChunk = 1
    LastChunk = 4
    NumChunks = 6
    LargeBoundary = 3
    PageRequests = {1, 2, 3}
    MaxGrants = 4
    FillsRegions = FALSE
    GrowThreads = {t1, t2}
    SpaceRanges <- TwoRanges
    SFTLayouts = {"space", "sparse", "dense"}
    VMChunk = 0
    MetadataBases <- TwoBases
    LOG_DATA_META_RATIO = 3
    CHUNKS_PER_SLAB = 2
    LOG_SLAB_TABLE_SIZE = 3
    MAX_SLABS = 5
    PagesPerGrowth = 2
    MaxAcquires = 3
    LOG_MAX_SPACES = 2
    log_space_extent = 5
    PagesInLayoutChunk = 2
    UnitsPerPage = 4
    MaxBlockPages = 2
    PlanSpaces <- TwoPlans
    HeapPages = 5
    LayoutRequests = {1, 3, 8}
    MaxServed = 3
    DebugAssertions = TRUE
    ChunkThreads = {t1, t2}
    NumMapChunks = 4
    BlocksPerMapChunk = 2
    TaskBins = 2
    EmptyMaps = FALSE
    MaxBlocksTaken = 4
    MaxMapPauses = 2
    Accessors = {t1, t2}
    MetadataSets <- FieldSets
    LOG_BITS_IN_BYTE = 2
    BYTES_IN_ADDRESS = 2
    MMAP_CHUNK_BYTES = 4
    DataBytes = 24
    TableSpecs <- FourSpecs
    SearchLimits = {1, 5, 20}
INVARIANTS
    
    PageListsAreExact
    GrownPagesAreUsable
    LayoutIsExact
    ChunkTasksAreExact
    MetadataIsAtomic
    
CHECK_DEADLOCK FALSE
