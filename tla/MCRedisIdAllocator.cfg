SPECIFICATION IdsSpec
CONSTANTS
    Insts = {i1, i2}
    MinId = 1
    MaxId = 2
    TTLs = {1}
    CreatorTTL = 2
    HeartbeatInterval = 1
    CleanupInterval = 1
    NoInst = NoInst
    MaxTime = 3
SYMMETRY InstSymmetry
INVARIANTS IdsIInv UniqueLease OneCreatorUnlessLapsed
