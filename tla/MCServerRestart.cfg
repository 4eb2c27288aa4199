CONSTANTS
    c1 = c1
    c2 = c2
    c3 = c3
    c4 = c4
    Ctx <- MCCtx
    MaxList = 0
    MaxStarts = 2
    MaxClients = 0
    MaxFailures = 0
SPECIFICATION Spec
PROPERTY CloseTakesEffect
CHECK_DEADLOCK FALSE
