\* A server is lost between the commit of queue.resume and the start.
SPECIFICATION Spec
CONSTANTS
    f1 = f1
    f2 = f2
    f3 = f3
    t1 = t1
    t2 = t2
    p1 = p1
    p2 = p2
    c1 = c1
    c2 = c2
    System = System
    Fibers = {f1}
    Threads = {t1, t2}
    Projects = {p1, p2}
    Commands = {c1, c2}
    Requests <- MCRetried
    MaxSent = 2
    MaxFaults = 1
CHECK_DEADLOCK FALSE
PROPERTY ResumeEndsTheHold
