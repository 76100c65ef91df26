SPECIFICATION Spec
CONSTANTS
    a = a
    b = b
    idle = idle
    dev = dev
    noq = noq
    Threads = {a, b, idle}
    Idle = idle
    MinPriority = 2
    WaitQueues = {}
    NoQueue = noq
    Quantum = 1
    CountMod = 2
    Devices = {}
    Main = a
    InitPriority <- TwoUsers
    Slots = {0}
    Calls = {"new_data_index","resume"}
    DsrCalls = {}
    MaxNest = 0
    MaxDepth = 2
    MaxWakeups = 1
    MaxSuspends = 1
INVARIANTS
    LockIsPerThread
