SPECIFICATION FairSpec
CONSTANTS
    MaxFlows = 1
    Capacity = 2
PROPERTY SignalExits
CHECK_DEADLOCK FALSE
