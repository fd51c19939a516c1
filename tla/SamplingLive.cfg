SPECIFICATION FairSpec
CONSTANTS
    Monitors = {m1}
    Rates <- FlowdRates
    InitialP1 = 1
    InitialP2 = 3
    Distinct = TRUE
INVARIANTS WindowExact LockReleased
PROPERTY NobodyStuck
CHECK_DEADLOCK FALSE
