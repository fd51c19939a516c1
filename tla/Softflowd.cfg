SPECIFICATION SoftflowdSpec
CONSTANTS
    MaxFlows = 2
    Capacity = 4
    Monitors <- MCMonitors
    Exporter = 3
    Bits = 2
    Batches <- MCBatches
    RuleLists <- MCRuleLists
    MaxScans = 1
    MaxDup = 1
    MaxCrash = 1
    QueueWords = 10
    MAXFLOWS = 3
    NF9_PACKET = 300
    NF9_INTERVAL = 2
INVARIANTS TypeOK TableExclusive ExportExact StoredAsRuled LogReadable
PROPERTIES StopsOnRequest
CHECK_DEADLOCK FALSE
