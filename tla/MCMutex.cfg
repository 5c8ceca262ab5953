CONSTANTS
    c0 = c0
    c1 = c1
    t1 = t1
    t2 = t2
    t3 = t3
    k0 = k0
    k1 = k1
    m = m
    Open = Open
    Cores = {c0, c1}
    Threads = {t1, t2, t3}
    Mutexes = {k0, k1, m}
    CoreOf <- MCCoreOf
    ThreadMutex <- MCThreadMutex
    Uses <- MCUses
    Tries <- MCTries
    MaxTicks = 2
SPECIFICATION Spec
INVARIANTS TypeOK MutualExclusion NoLostWakeup
PROPERTIES FreeMutexIsTaken ImplementsLock
CHECK_DEADLOCK FALSE
