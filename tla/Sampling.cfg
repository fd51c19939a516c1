SPECIFICATION Spec
CONSTANTS
    Monitors = {m1, m2}
    Rates <- MixedRates
    InitialP1 = 2
    InitialP2 = 2
    Distinct = FALSE
INVARIANTS TypeOK TableReadInBounds WindowQuota
CHECK_DEADLOCK FALSE
