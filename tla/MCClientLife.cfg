CONSTANTS
    MaxConnects = 2
    MaxFailures = 1
SPECIFICATION Spec
INVARIANTS TypeOK CastsSound RetryUnderWay AnswerSound
PROPERTIES Reconnects ClosesInTheEnd
CHECK_DEADLOCK FALSE
