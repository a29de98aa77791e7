SPECIFICATION Spec
CONSTANTS
    m1 = m1
    m2 = m2
    m3 = m3
    act = act
    ask = ask
    Default = Default
    Models = {m1, m2, m3}
    InitialPool <- MCInitialPool
    Pools <- MCPools
    Proposals = {act, ask}
    Priority <- MCPriority
    MaxRounds = 1
    ForceReflection = TRUE
    MaxCycles = 2
    MaxDisturbances = 2
INVARIANTS
    TypeOK
    KeptOrReflectedOnce
    RowAccountsForDecisions
    OldestCondensedFirst
PROPERTIES
    ImplementsMajorityRule
    EveryQuestionCloses
CHECK_DEADLOCK FALSE
