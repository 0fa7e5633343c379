SPECIFICATION Spec
CONSTANTS
    Threads = {t1}
    MaxRuntimes = 1
    MaxTurns = 1
    MaxRequests = 1
    MaxUpsets = 1
    MaxPins = 0
    Kinds = {"exclusive"}
CHECK_DEADLOCK FALSE
INVARIANT NoRequestIsLeftBehind
