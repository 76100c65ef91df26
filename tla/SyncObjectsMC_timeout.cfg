SPECIFICATION Spec
CONSTANTS
    hi = hi
    lo = lo
    peer = peer
    idle = idle
    sem = sem
    bin = bin
    ev = ev
    mx = mx
    mx2 = mx2
    cv = cv
    gets = gets
    puts = puts
    m1 = m1
    m2 = m2
    nothread = nothread
    noq = noq
    nomsg = nomsg
    Threads = {hi, lo, peer, idle}
    Idle = idle
    MinPriority = 3
    WaitQueues = {sem, bin, ev, mx, mx2, cv, gets, puts}
    NoQueue = noq
    Quantum = 1
    CountMod = 2
    InitPriority <- SomePriorities
    InitQueues <- SomeQueues
    Programs <- LateProgram
    MaxSuspends = 1
    Semaphores = {sem, bin}
    Binary = {bin}
    MaxCount = 2
    Bits = {1, 2}
    flag = ev
    Messages = {m1, m2}
    NoMessage = nomsg
    Size = 2
    get_threadq = gets
    put_threadq = puts
    Mutexes = {mx, mx2}
    Protocol <- TheProtocols
    Ceiling <- TheCeilings
    Conds = {cv}
    MutexOf <- TheMutex
    NoThread = nothread
SYMMETRY SameMessages
INVARIANTS
    SemTimedWaitersHaveTimers
