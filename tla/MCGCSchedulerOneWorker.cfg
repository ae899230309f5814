CONSTANTS
    LastStage = 3
    Workers = {w1}
    Mutators = {m1}
    Packets = {sc, sm, p1}
    SC = sc
    SM = sm
    NoWorker = none
    LocalCap = 1
    MaxSpawn = 1
    MaxSpurious = 0
SPECIFICATION Spec
INVARIANT SleepOnlyIfNothingToDo
