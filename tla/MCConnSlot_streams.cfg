SPECIFICATION Spec
CONSTANTS
    Workers = {w1, w2}
    Requests = {"mjpeg", "flv"}
    MaxConns = 2
    MaxTasks = 2
    MaxSends = 2
SYMMETRY WorkerSymmetry
INVARIANTS
    TypeOK
    SlotOwnsFd
    NoForgottenConnection
CHECK_DEADLOCK FALSE
