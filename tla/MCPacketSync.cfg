CONSTANTS
    ByteValues = 4
    HostOrders <- MCHostOrders
    HEAD = 1
    TAIL = 2
    BufferSize = 7
    Digest <- MCDigest
    Messages <- MCMessages
    Noise <- MCNoise
    ChunkSizes <- MCChunkSizes
    MaxPieces <- MCTwoAndOne
SPECIFICATION Spec
INVARIANTS TypeOK FramesOfStream ConversionsSound
PROPERTY RecvReturns
CHECK_DEADLOCK FALSE
