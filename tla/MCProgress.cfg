SPECIFICATION Spec
CONSTANTS
    Mutators = {m1, m2}
    NumSlots = 3
    Referents = {a}
    NullReference = null
    SlotsPerUnlogByte = 2
    SlotsPerLockBit = {1, 2}
    BUFFER_SIZE = 2
    MaxWrites = 2
    Threads = {t1, t2}
    Settings <- StartUpSettings
    Requests = {2, 3}
    StressPages = 2
    YoungPages = 4
    MinNursery = 1
    MaxAttempts = 2
INVARIANTS
    LogIsExact
    ReservationsAreExact
PROPERTIES
    
    BarrierTerminates
    
CHECK_DEADLOCK FALSE
