SPECIFICATION Spec
CONSTANTS
    a1 = a1
    a2 = a2
    noalarm = noalarm
    NoAlarm = noalarm
    Alarms = {a1}
    Word = 64
    Increments = {1}
    SortList = {FALSE}
    Offsets <- FarOffsets
    Intervals = {0, 2, 4}
    Calls = {"initialize", "enable", "disable"}
    Reentrant = FALSE
    MaxCount = 6
    MaxDepth = 3
    MaxCalls = 1
INVARIANTS
    OnSchedule
