SPECIFICATION FairSpec
CONSTANTS
    s1 = s1
    s2 = s2
    s3 = s3
    Sources = {s1, s2, s3}
    Datagrams <- MixedDatagrams
    Configs <- TwoConfigs
    MaxPeers = 2
    InputMax = 3
    OutputInitial = 1
    OutputMax = 2
    ReopenErrors = 1
    MaxDatagrams = 3
    MaxSignals = 2
INVARIANTS PeersExact RecordsWritten LogsockClock
PROPERTY SignalsHonoured
CHECK_DEADLOCK FALSE
