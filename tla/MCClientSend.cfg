CONSTANTS
    t1 = t1
    lt = lt
    Sender <- MCSender
    LoopThread = lt
    Capacity = 2
    Lengths <- MCLengths
    MaxCalls <- MCCalls
    MaxList = 0
    MaxBreaks = 1
SPECIFICATION Spec
INVARIANTS TypeOK InOrderOnce NothingLostWhileUp PoolSound NoLostWakeup
PROPERTY SendReturnsUnobstructed
CHECK_DEADLOCK FALSE
