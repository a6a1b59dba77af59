SPECIFICATION FairSpec
CONSTANTS
    Kinds = {"mjpeg", "flv"}
    FrameDepth = 2
    FlvDepth = 3
    PacketSize = 2
    BufferSize = 3
    MaxPackets = 3
    Extra <- ExtraByKind
    MaxExtra = 1
INVARIANTS
    TypeOK
    WireFraming
    InOrder
    LatestFrameWins
    InterFollowsReference
PROPERTIES
    QueueDrains
CHECK_DEADLOCK FALSE
