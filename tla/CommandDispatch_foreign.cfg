\* One id, two threads.
SPECIFICATION Spec
CONSTANTS
    f1 = f1
    f2 = f2
    f3 = f3
    t1 = t1
    t2 = t2
    p1 = p1
    p2 = p2
    c1 = c1
    c2 = c2
    System = System
    Fibers = {f1, f2}
    Threads = {t1, t2}
    Projects = {p1, p2}
    Commands = {c1, c2}
    Requests <- MCForeign
    MaxSent = 2
    MaxFaults = 0
CHECK_DEADLOCK FALSE
INVARIANT SuccessIsForOwnThread
