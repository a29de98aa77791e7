SPECIFICATION FairSpec
CONSTANTS
    MaxMessages = 1
    MaxActions = 1
    MaxFailures = 0
    Kinds = {"adjust"}
    Waits = {"false"}
    Stoppable = TRUE
    TinyWaits = FALSE
PROPERTIES
    StopCompletes
CHECK_DEADLOCK FALSE
