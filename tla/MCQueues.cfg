SPECIFICATION QueuesSpec
CONSTANTS
    Producers = {p1, p2}
    Consumers = {c1, c2}
    Values = {v1, v2}
    NoValue = NoValue
    MaxSize = 2
    Keys = {k1, k2}
    NoKey = NoKey
    Drainers = {d1, d2}
    MaxQueued = 3
    MaxTasks = 5
INVARIANTS IInv CallsIInv Accounted RunInOrder
PROPERTIES ImplementsFifo SleepersServed
