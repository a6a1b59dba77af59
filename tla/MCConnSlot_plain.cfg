SPECIFICATION FairSpec
CONSTANTS
    Workers = {w1, w2}
    Requests = {"plain"}
    MaxConns = 3
    MaxTasks = 2
    MaxSends = 3
INVARIANTS
    OneThreadPerConnection
PROPERTIES
    PeerIsServed
CHECK_DEADLOCK FALSE
