SPECIFICATION TurnSpec
CONSTANTS
    Controllers = {c1, c2}
    Threads = {t1, t2}
    NoThread = none
    CreateMayFail = TRUE
    Buffers = 2
    Files <- FileContents
    Filled <- BufferContents
    Unusual <- UnusualContents
INVARIANTS
    DeviceTypeOK
    NothingLeftBehind
    DriverHasBuffers
    NalsAreUnits
PROPERTIES
    CallsInTurnAreSafe
    StopTerminates
