SPECIFICATION Spec
CONSTANTS
    w1 = w1
    w2 = w2
    Workers <- TwoWorkers
    Services <- OneService
    MaxPid = 6
    ReusePids = FALSE
    CrashPoints <- NoCrash
INVARIANT HoldersExclude
