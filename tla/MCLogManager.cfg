CONSTANTS
    caller = caller
    wt = wt
    Thread <- MCThread
    LoggerMax = 2
    Writer = wt
    PushLevel <- MCPushLevel
    NameOrder <- MCNameOrder
    ConfigFiles <- MCConfigFiles
    Width = 8
    Mega = 2
    ZeroLimit = 3
    MaxPush <- MCMaxPush
    MaxStarts = 2
    MaxConfigs = 2
    MaxFailures = 1
    FileLine <- MCFileLine
    DefaultLimit = 1
    MaxLines = 4
    Size = 3
    Char <- MCChar
    Nul = 0
    MaxPieces = 3
SPECIFICATION Spec
INVARIANTS TypeOK IdsSound OrderKept AllAccounted StopFlushes ParseSound TextSound
PROPERTIES LimitKept StopReturns
CHECK_DEADLOCK FALSE
