SPECIFICATION TimersSpec
CONSTANTS
    c2 = c2
    Callers = {c1, c2}
    Objs = {o1, o2}
    Tasks = {t1, t2}
    NoObj = NoObj
    NoTask = NoTask
    Resolution = 2
    Size = 3
    Delays = {0, 3, 7, 12}
    NoTimer = NoTimer
    MaxId = 3
    MaxTick = 8
INVARIANTS IInv RunsOnceUnlessRaced CancelHolds WheelExact
PROPERTIES ScheduleJoined PendingFires FiresWhenDue
