SPECIFICATION Spec
CONSTANTS
    LastStage = 6
    RCLineCount = 4
    LineGranules = 4
    PromotedSizes = {2, 7}
    MinReuseLines = {1}
    UnlogByteGranules = 2
    LosPageGranules = 4
    LosPageCount = 2
    LargeSizes = {3, 7}
    MaxObjectsU = 3
    MaxStoresU = 1
    MaxPausesU = 2
    JobWorkers = {w1, w2}
    MatureBlocks = {b1, b2, b3}
    MaxEpochs = 3
    MaxDecPackets = 2
    CtxMutators = {m1, m2}
    CtxWorkers = {w1, w2}
    CtxPlans <- AllPlans
    CtxFeatures <- TwoBuilds
    CtxRequests = {"Default"}
    MaxGCs = 2
    TraceWorkers = {w1, w2}
    NumObjects = 2
    NumRoots = 2
    Layouts <- SpacePairs
    BUFFER_SIZE = 1
    StatWorkers = {w1, w2}
    AllocSizes = {2, 3}
    MaxClock = 2
    MaxCollectionsSt = 1
    MaxAllocsSt = 1
    MaxHarness = 1
    StatDebug = TRUE
INVARIANTS
    LoopMeetsOperators
    RCHolesAreFree
    UnlogBitsAreExact
    SweepingFollowsDecs
    AllocatorsUseLiveMemory
    ClosureIsExact
    OneWorkerForwards
    
CHECK_DEADLOCK FALSE
