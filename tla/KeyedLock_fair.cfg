\* Three fair fibers, two keys.
SPECIFICATION FairSpec
CONSTANTS
    f1 = f1
    f2 = f2
    f3 = f3
    k1 = k1
    k2 = k2
    NoFiber = NoFiber
    Fibers = {f1, f2, f3}
    Keys = {k1, k2}
    MaxSemaphores = 4
CHECK_DEADLOCK FALSE
INVARIANTS MutualExclusion EntriesAreInUse
PROPERTIES ImplementsFifoLock EveryoneGetsTheLock
