SPECIFICATION Spec
CONSTANTS
    Workers = {w1, w2}
    Requests = {"mjpeg"}
    MaxConns = 1
    MaxTasks = 2
    MaxSends = 1
SYMMETRY WorkerSymmetry
INVARIANTS
    ClientCountOnline
CHECK_DEADLOCK FALSE
