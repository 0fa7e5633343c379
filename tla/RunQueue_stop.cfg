SPECIFICATION Spec
CONSTANTS
    MaxRuns = 2
    MaxMessages = 2
    MaxAttempts = 2
    MaxTries = 2
    MaxStops = 1
    MaxEdits = 1
    MaxRestarts = 0
    MaxLosses = 0
    MaxEvents = 2
    Modes <- MCStopModes
    SteersLive = FALSE
CHECK_DEADLOCK FALSE
INVARIANT StopReachesTheTurn
