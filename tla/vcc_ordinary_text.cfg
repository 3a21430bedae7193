SPECIFICATION VccSpec
CONSTANTS
    s1 = s1
    NoAttempt = NoAttempt
    Sessions <- OneSession
    TTL = 1
    MaxAttempts = 1
    Faults = FALSE
    MaxTime = 0
    MaxRevision = 2
    MaxCompactions = 2
    MaxParts = 2
    MaxEvents = 2
INVARIANT OrdinaryTextKept
