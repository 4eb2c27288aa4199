CONSTANTS
    t1 = t1
    t2 = t2
    Sender <- MCSender
    LoopThread = lt
    Capacity = 11
    Lengths <- MCLengths
    MaxCalls <- MCCalls
    MaxList = 0
    MaxBreaks = 0
    HEAD = 1
    TAIL = 2
    BufferSize = 8
    Digest <- MCDigest
    Text <- MCText
    ChunkSizes <- MCChunkSizes
SPECIFICATION LinkSpec
INVARIANTS MessagesSound UntornDelivered
CHECK_DEADLOCK FALSE
