SPECIFICATION Spec
CONSTANTS
    k1 = k1
    k2 = k2
    k3 = k3
    m1 = m1
    m2 = m2
    Keys = {k1, k2, k3}
    Proto <- AllProto
    Monitors = {m1, m2}
    Packets <- MixedPackets
    Timeout <- ShortTimeouts
    MaxFlows = 2
    OctetLimit = 3
    FirstTime = 2
    MaxTime = 5
    MaxPackets = 4
    MaxFailures = 1
INVARIANT CaptureFileProcessed
CHECK_DEADLOCK FALSE
