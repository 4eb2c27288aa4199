CONSTANTS
    ByteValues = 4
    HostOrders <- MCHostOrders
    HEAD = 1
    TAIL = 2
    BufferSize = 7
    Digest <- MCDigest
    Messages <- MCLongMessages
    Noise = {}
    ChunkSizes <- MCChunkSizes
    MaxPieces <- MCOneAndOne
SPECIFICATION Spec
INVARIANT EveryFrameDelivered
CHECK_DEADLOCK FALSE
