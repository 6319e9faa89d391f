SPECIFICATION Spec
CONSTANTS
    Lists = {l1, l2}
    NoList = NoList
    Readers = {r1}
    Keys = {1, 2, 3}
    NoKey = NoKey
    MaxLevel = 1
    Memory = {m1, m2, m3, m4}
    Null = Null
    BlockSize = 2
    CacheMax = 1
    Outlived = FALSE
INVARIANTS IInv SearchFinds
SYMMETRY SkipListSymmetry
CHECK_DEADLOCK FALSE
