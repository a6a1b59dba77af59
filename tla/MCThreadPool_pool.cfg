SPECIFICATION FairSpec
CONSTANTS
    ThreadNumber = 3
    MaxRequests = 2
    Requests = {r1, r2}
    NoRequest = NoRequest
    MaxInterrupts = 1
INVARIANTS
    TypeOK
    NoLostWakeup
    ShutdownWakesAll
    JoinedBeforeGone
PROPERTIES
    EveryRequestServed
    ShutdownTerminates
    ImplementsTaskPool
