CONSTANTS
    c1 = c1
    c2 = c2
    c3 = c3
    c4 = c4
    Ctx <- MCCtx
    MaxList = 0
    MaxStarts = 2
    MaxClients = 3
    MaxFailures = 1
SPECIFICATION Spec
INVARIANTS TypeOK CtxSound ClosedLast
PROPERTY ShutdownCompletes
CHECK_DEADLOCK FALSE
