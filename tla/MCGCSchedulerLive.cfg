CONSTANTS
    LastStage = 3
    Workers = {w1, w2}
    Mutators = {m1, m2}
    Packets = {sc, sm, p1}
    SC = sc
    SM = sm
    NoWorker = none
    LocalCap = 1
    MaxSpawn = 1
    MaxSpurious = 1
SPECIFICATION FairSpec
PROPERTIES
    RequestsAreServed
    AvailablePacketsRun
