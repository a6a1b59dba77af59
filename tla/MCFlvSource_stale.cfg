SPECIFICATION Spec
CONSTANTS
    Controllers = {c1, c2}
    Threads = {t1, t2}
    NoThread = NoThread
    CreateMayFail = FALSE
INVARIANTS StartedMeansThread
