SPECIFICATION Spec
CONSTANTS
    MaxRuns = 4
    MaxMessages = 3
    MaxAttempts = 2
    MaxTries = 2
    MaxStops = 1
    MaxEdits = 1
    MaxRestarts = 1
    MaxLosses = 1
    MaxEvents = 2
    Modes <- MCModes
    SteersLive = TRUE
CHECK_DEADLOCK FALSE
INVARIANT TypeOK
INVARIANT OneBlockingRun
INVARIANT OneTurn
INVARIANT HeldTogether
INVARIANT NeverStranded
 
INVARIANT Accounted
PROPERTY EndedStaysEnded
PROPERTY ComesToRest
