\* An interrupt starts while the start it cancelled is still running.
SPECIFICATION Spec
CONSTANTS
    s1 = s1
    s2 = s2
    t1 = t1
    t2 = t2
    start = start
    interrupt = interrupt
    restart = restart
    detach = detach
    capture = capture
    title = title
    continue = continue
    Slots = {s1, s2}
    Effects = {start, interrupt}
    Threads = {t1, t2}
    NoSlot = NoSlot
    NoEffect = NoEffect
    ThreadOf <- MCThreadOf
    TypeOf <- MCTypeOf
    MaxAttempts = 2
    MaxIncarnations = 1
    MaxFaults = 0
    Undecodable = {}
CHECK_DEADLOCK FALSE
INVARIANT OneExecutionPerLane
