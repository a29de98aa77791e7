SPECIFICATION FairSpec
CONSTANTS
    MaxMessages = 2
    MaxActions = 2
    MaxFailures = 1
    Kinds = {"local", "message", "wait", "http"}
    Waits = {"true", "timed"}
    Stoppable = TRUE
    TinyWaits = FALSE
PROPERTIES
    EveryMessageConsidered
    TimedWaitEnds
    OpenActionEnds
    StopCompletes
CHECK_DEADLOCK FALSE
