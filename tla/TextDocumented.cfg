SPECIFICATION TextSpec
CONSTANTS
    Frames <- MCFrames
    Path <- MCPath
    AsOf <- MCAsOf
    Garbage = {0, 513}
    MaxFrames = 2
    Lines <- MCLines
    Wrong <- MCWrong
    Refused <- MCRefused
    Flows <- MCFlows
    CmdLine <- MCCmdLine
    Width <- MCWidth
    MaxLines = 3
    Files <- MCFiles
    MaxEdits = 0
    MaxSignals = 0
    MaxKills = 0
INVARIANT DocumentedAccepted
CHECK_DEADLOCK FALSE
