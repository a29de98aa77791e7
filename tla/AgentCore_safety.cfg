SPECIFICATION Spec
CONSTANTS
    MaxMessages = 2
    MaxActions = 2
    MaxFailures = 3
    Kinds = {"local", "adjust", "spawn", "wait", "smart", "batch", "shell", "check"}
    Waits = {"true", "timed"}
    Stoppable = FALSE
    TinyWaits = TRUE
INVARIANTS
    TypeOK
    QueueIsGuarded
    ScheduledHasTrigger
    OpenActionIsAnswered
    EveryMessageOnce
    ResultsRecordedOnce
    ShellRoutersMonitored
    SingleFlight
    WaitTimerIsLive
CHECK_DEADLOCK FALSE
