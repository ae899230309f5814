CONSTANTS
    LastStage = 3
    Workers = {w1, w2}
    Mutators = {m1, m2}
    Packets = {sc, sm, p1, p2, p3}
    SC = sc
    SM = sm
    NoWorker = none
    LocalCap = 1
    MaxSpawn = 3
    MaxSpurious = 1
SPECIFICATION Spec
SYMMETRY Symmetry
INVARIANTS
    
    SchedulerSafety
    SleepOnlyIfNothingToDo
 
