SPECIFICATION TextSpec
CONSTANTS
    Frames <- MCFrames
    Path <- MCPath
    AsOf <- MCAsOf
    Garbage = {0, 513}
    MaxFrames = 2
    Lines <- MCLines
    Wrong <- MCWrong
    Refused <- MCRefused
    Flows <- MCFlows
    CmdLine <- MCCmdLine
    Width <- MCWidth
    MaxLines = 3
    Files <- MCFiles
    MaxEdits = 2
    MaxSignals = 3
    MaxKills = 1
INVARIANTS FlowAsCaptured ConfigAsWritten ConfigAgreed BindFree
PROPERTIES NoneLeftBehind
CHECK_DEADLOCK FALSE
