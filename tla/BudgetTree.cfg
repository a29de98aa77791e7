SPECIFICATION Spec
CONSTANTS
    Root = root
    Agents = {root, a, b}
    Amounts = {1, 2}
    RootBudget = 2
    MaxOps = 3
    MaxLoad = 4
    Batching = TRUE
SYMMETRY SpawnedAlike
INVARIANTS
    TypeOK
    EscrowCoversChildren
    EscrowIsOwed
    CommittedWithinAllocation
    BudgetIsInherited
    CostsConservedUnlessRaced
CHECK_DEADLOCK FALSE
