SPECIFICATION FairSpec
CONSTANTS
    Frames = 4
    Small = {2}
    BufferBytes = {2, 3, 7}
    MinFrame = 5
    MaxFrame = 11
    MaxAssembling = 22
INVARIANTS
    TypeOK
    PartsAreImagesInOrder
PROPERTIES
    FrameIsSeen
CHECK_DEADLOCK FALSE
