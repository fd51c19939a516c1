SPECIFICATION LoopSpec
CONSTANTS
    NbCouples = 2
    NbMonitors = 2
    Sources <- MCSources
    Threshold = 2
    Period = 2
    MaxRecords = 3
    Fine = 2
    MinRate = 2
    MaxRate = 5
    ConfInit = 3
    InitialRate = 1
    Networks <- MCNetworks
    Requests <- MCRequests
    Initial <- MCInitial
    NbClients = 2
INVARIANTS NothingLost OneResultPerFlow AckedRateInForce
PROPERTIES AllFreed AnswersStand
CHECK_DEADLOCK FALSE
