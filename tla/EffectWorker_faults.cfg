\* Restarts, two statements that fail, a payload that does not decode, preemption everywhere.
SPECIFICATION FairSpec
CONSTANTS
    s1 = s1
    s2 = s2
    t1 = t1
    t2 = t2
    start = start
    interrupt = interrupt
    restart = restart
    detach = detach
    capture = capture
    title = title
    continue = continue
    Slots = {s1, s2}
    Effects = {start, detach, continue}
    Threads = {t1, t2}
    NoSlot = NoSlot
    NoEffect = NoEffect
    ThreadOf <- MCThreadOf
    TypeOf <- MCTypeOf
    MaxAttempts = 2
    MaxIncarnations = 2
    MaxFaults = 2
    Undecodable = {detach}
CHECK_DEADLOCK FALSE
INVARIANTS ClaimIsKept RetriesAreBounded
PROPERTIES SettlesUnlessLaneStranded
