SPECIFICATION FairSpec
CONSTANTS
    MaxMessages = 1
    MaxActions = 1
    MaxFailures = 0
    Kinds = {"wait"}
    Waits = {"false"}
    Stoppable = FALSE
    TinyWaits = FALSE
PROPERTIES
    WaitFalseContinues
CHECK_DEADLOCK FALSE
