SPECIFICATION CellsSpec
CONSTANTS
    Setters = {s1, s2}
    Callbacks = {c1, c2, c3, c4}
    Threads = {t1, t2, t3}
    NoThread = NoThread
    Nothing = Nothing
    MaxVersion = 4
INVARIANTS RunExactlyOnce IInv VersionsFollowTime
