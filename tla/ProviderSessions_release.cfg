SPECIFICATION Spec
CONSTANTS
    Threads = {t1, t2}
    MaxRuntimes = 2
    MaxTurns = 2
    MaxRequests = 1
    MaxUpsets = 2
    MaxPins = 1
    Kinds = {"shared", "exclusive"}
SYMMETRY Symmetry
CHECK_DEADLOCK FALSE
INVARIANT BusyIsExact
INVARIANT LeftoversAreSettled
INVARIANT ReplacementKeepsItsRequests
INVARIANT ReadyIsLive
INVARIANT UnusedIsWatched
PROPERTY NeverCutShort
