SPECIFICATION Spec
CONSTANTS
    a1 = a1
    a2 = a2
    noalarm = noalarm
    NoAlarm = noalarm
    Alarms = {a1, a2}
    Word = 64
    Increments = {1, 3}
    SortList = {FALSE, TRUE}
    Offsets <- NearOffsets
    Intervals = {0, 2, 4}
    Calls = {"initialize", "enable", "disable"}
    Reentrant = FALSE
    MaxCount = 7
    MaxDepth = 3
    MaxCalls = 2
SYMMETRY BothAlarms
INVARIANTS
    LinkedWhileEnabled
    NoneOverdue
    OnSchedule
    CalledAtEachTrigger
