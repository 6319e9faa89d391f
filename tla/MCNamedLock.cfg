SPECIFICATION Spec
CONSTANTS
    t1 = t1
    t2 = t2
    t3 = t3
    h1 = h1
    h2 = h2
    h3 = h3
    h4 = h4
    Threads = {t1, t2, t3}
    Handles = {h1, h2, h3, h4}
    Keys = {1, 2}
    Entries = {e1, e2, e3}
    OwnerOf <- MCOwner
    After <- MCAfter
    NoThread = NoThread
    NoHandle = NoHandle
    NoEntry = NoEntry
SYMMETRY EntrySymmetry
INVARIANTS IInv MutualExclusion CountBracketed
PROPERTY ImplementsKeyedLock
