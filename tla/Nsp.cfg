SPECIFICATION NspSpec
CONSTANTS
    Ases = {1, 2}
    Packets <- MCPackets
    Traces <- MCTraces
    Prefix <- MCPrefix
    ClassOf <- MCClassOf
    AsClass <- MCAsClass
    lAsCouples <- MCCouples
    Interfaces = {11, 21}
    Route <- MCRoute
    TimeAxisSlot = 2
    MaxLoopPackets = 2
    N = 4
    Costs = {1, 2, 5}
    Monitors = {2, 3}
    Monitored <- MCMonitored
INVARIANTS SentByItsTurn ReplyReversed CostsExact ReportsFollowPath
PROPERTIES ImplementsReportQueue TailBelowSlot FreshDelivers
CHECK_DEADLOCK FALSE
