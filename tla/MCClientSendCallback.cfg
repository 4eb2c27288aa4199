CONSTANTS
    t1 = t1
    lt = lt
    Sender <- MCLoopSender
    LoopThread = lt
    Capacity = 2
    Lengths <- MCFits
    MaxCalls <- MCLoopCalls
    MaxList = 0
    MaxBreaks = 0
SPECIFICATION PromptSpec
PROPERTY SendReturns
CHECK_DEADLOCK FALSE
