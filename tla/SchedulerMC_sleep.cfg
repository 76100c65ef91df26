SPECIFICATION Spec
CONSTANTS
    a = a
    b = b
    idle = idle
    dev = dev
    noq = noq
    Threads = {a, b, idle}
    Idle = idle
    MinPriority = 2
    WaitQueues = {}
    NoQueue = noq
    Quantum = 1
    CountMod = 2
    Devices = {dev}
    Main = a
    InitPriority <- TwoUsers
    Slots = {0}
    Calls = {"counted_sleep", "counted_wake", "timed_sleep", "delay", "release", "kill", "resume", "cancel_wake", "new_data_index", "free_data_index"}
    DsrCalls = {"counted_wake"}
    MaxNest = 0
    MaxDepth = 1
    MaxWakeups = 1
    MaxSuspends = 1
INVARIANTS
    TypeOK
    SleeperHasTimer
    UnlockInnerPrecondition
PROPERTIES
    KillIsObeyed
