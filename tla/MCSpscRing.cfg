SPECIFICATION FairSpec
CONSTANTS
    Capacity = 4
    Values = {v1, v2}
    NoValue = NoValue
INVARIANTS RingIInv NoSlotRace
PROPERTIES ImplementsFifo OperationsComplete
