SPECIFICATION Spec
CONSTANTS
    a = a
    b = b
    idle = idle
    dev = dev
    noq = noq
    Threads = {a, b, idle}
    Idle = idle
    MinPriority = 2
    WaitQueues = {}
    NoQueue = noq
    Quantum = 2
    CountMod = 4
    Devices = {dev}
    Main = a
    InitPriority <- TwoUsers
    Slots = {}
    Calls = {"resume","counted_sleep"}
    DsrCalls = {"counted_wake"}
    MaxNest = 0
    MaxDepth = 2
    MaxWakeups = 1
    MaxSuspends = 1
INVARIANTS
    SliceWithinQuantum
