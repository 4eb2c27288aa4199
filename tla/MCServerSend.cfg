CONSTANTS
    c1 = c1
    c2 = c2
    c3 = c3
    c4 = c4
    Ctx <- MCCtxFew
    MaxList = 0
    MaxStarts = 1
    MaxClients = 2
    MaxFailures = 1
    MaxPackets = 2
    MaxSets = 1
SPECIFICATION SendSpec
INVARIANTS SendTypeOK RepliesSound RequestsLive FoundLives
PROPERTIES SetRecvCBReturns ShutdownUnlessStuck
CHECK_DEADLOCK FALSE
