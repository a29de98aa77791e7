SPECIFICATION Spec
CONSTANTS
    Size = 3
    Initial = 2
    MaxEvents = 2
    Kinds = {"dismiss", "pause", "resume", "delete", "reload", "crash", "spawn", "rollback", "restore", "node"}
INVARIANTS
    TypeOK
    DismissedSubtreeGone
    PausedTaskIsQuiet
    ParentKnowsChildren
    LiveAgentIsPersisted
PROPERTIES
    RestoreRebuildsTree
    PauseCompletes
CHECK_DEADLOCK FALSE
