SPECIFICATION Spec
CONSTANTS
    Root = root
    Agents = {root, a}
    Amounts = {1}
    RootBudget = 2
    MaxOps = 2
    MaxLoad = 4
    Batching = TRUE
INVARIANTS
    SpawnCommits
CHECK_DEADLOCK FALSE
