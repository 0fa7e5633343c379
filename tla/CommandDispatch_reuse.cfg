\* Retrying clients, two ids that are reused, fair fibers and two faults.
SPECIFICATION FairSpec
CONSTANTS
    f1 = f1
    f2 = f2
    f3 = f3
    t1 = t1
    t2 = t2
    p1 = p1
    p2 = p2
    c1 = c1
    c2 = c2
    System = System
    Fibers = {f1, f2, f3}
    Threads = {t1, t2}
    Projects = {p1, p2}
    Commands = {c1, c2}
    Requests <- MCReused
    MaxSent = 4
    MaxFaults = 2
CHECK_DEADLOCK FALSE
INVARIANTS PlansAreCurrent AnswersAgree ReceiptsMatchTheLog
PROPERTIES KeepsToTheLock AnsweredIsFinal ResumedQueueIsStarted RequestsAreAnswered
