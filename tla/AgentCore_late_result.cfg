SPECIFICATION FairSpec
CONSTANTS
    MaxMessages = 1
    MaxActions = 2
    MaxFailures = 0
    Kinds = {"smart"}
    Waits = {"timed"}
    Stoppable = FALSE
    TinyWaits = FALSE
PROPERTIES
    TimedWaitEnds
CHECK_DEADLOCK FALSE
