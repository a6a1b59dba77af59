SPECIFICATION Spec
CONSTANTS
    MaxPictures = 5
    MaxConfigs = 2
    MaxOpenings = 2
    MinGop = 2
    Clients = {c1, c2}
    FlvDepth = 3
    Limits <- LimitsByClients
SYMMETRY ClientSymmetry
INVARIANTS
    BroadcastTypeOK
    AccessUnitIsOnePicture
PROPERTIES
    ConfigBeforeVideo
    NoPictureSkipped
    ConfigReachesClient
    RunsStartAtKeyFrames
CHECK_DEADLOCK FALSE
