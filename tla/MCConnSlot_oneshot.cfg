SPECIFICATION Spec
CONSTANTS
    Workers = {w1, w2}
    Requests = {"plain", "mjpeg"}
    MaxConns = 1
    MaxTasks = 2
    MaxSends = 2
SYMMETRY WorkerSymmetry
INVARIANTS
    OneWorkerPerConnection
CHECK_DEADLOCK FALSE
