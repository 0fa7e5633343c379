\* Two fair writers and a fair stream of any kind; one fault.
SPECIFICATION FairSpec
CONSTANTS
    w1 = w1
    w2 = w2
    s1 = s1
    run = run
    item = item
    Project = Project
    NoWriter = NoWriter
    Writers = {w1, w2}
    Subscribers = {s1}
    Topics <- MCTopics
    Watched = {run}
    MaxLog = 3
    MaxBatch = 2
    MaxFaults = 1
    PageSize = 1
    BufferLimit = 2
CHECK_DEADLOCK FALSE
INVARIANTS TypeOK PublishesTheEndOfTheLog NoEventIsOutOfReach
PROPERTIES ImplementsEventFeed EveryEventIsDelivered LaneIsAlwaysObtained
