SPECIFICATION Spec
CONSTANTS
    Objects = {o1, o2, o3}
    RootSlots = {r1, r2}
    NumFields = 2
    Workers = {w1, w2}
    Null = Null
    MAX_REF_COUNT = 4
    MAX_STRONG_REF_COUNT = 2
    MaxOps = 6
    MaxPauses = 3
SYMMETRY Symmetry
INVARIANT CandidatesAreExclusive
