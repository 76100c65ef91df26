SPECIFICATION FairSpec
CONSTANTS
    a = a
    b = b
    idle = idle
    dev = dev
    noq = noq
    Threads = {a, b, idle}
    Idle = idle
    MinPriority = 2
    WaitQueues = {}
    NoQueue = noq
    Quantum = 1
    CountMod = 2
    Devices = {dev}
    Main = a
    InitPriority <- TwoUsers
    Slots = {}
    Calls = {"lock", "resume", "set_priority", "yield", "rotate_queue"}
    DsrCalls = {"resume", "suspend"}
    MaxNest = 1
    MaxDepth = 2
    MaxWakeups = 0
    MaxSuspends = 1
PROPERTIES
    PostedDSRsRun
    BestIsDispatched
INVARIANTS
    RunQueuesAgree
    PriorityDispatch
    LockIsPerThread
