SPECIFICATION Spec
CONSTANTS
    Size = 1
    Initial = 1
    MaxEvents = 2
    Kinds = {"pause", "delete"}
INVARIANTS
    DeletedTaskHasNoAgents
CHECK_DEADLOCK FALSE
