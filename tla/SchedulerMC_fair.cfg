SPECIFICATION TickingSpec
CONSTANTS
    a = a
    b = b
    idle = idle
    dev = dev
    noq = noq
    Threads = {a, b, idle}
    Idle = idle
    MinPriority = 2
    WaitQueues = {}
    NoQueue = noq
    Quantum = 2
    CountMod = 4
    Devices = {dev}
    Main = a
    InitPriority <- TwoUsers
    Slots = {}
    Calls = {"lock", "resume", "suspend", "force_resume", "kill", "exit", "counted_sleep"}
    DsrCalls = {}
    MaxNest = 1
    MaxDepth = 2
    MaxWakeups = 0
    MaxSuspends = 1
INVARIANTS
    RunQueuesAgree
    SuspendedIffCounted
    SliceWithinQuantum
PROPERTIES
    ExitIsFinal
    FairShare
    SliceHandsOver
