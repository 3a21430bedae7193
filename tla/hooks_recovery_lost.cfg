SPECIFICATION OneSpec
CONSTANTS
    s1 = s1
    s2 = s2
    NoAttempt = NoAttempt
    Sessions <- OneSession
    TTL = 1
    MaxAttempts = 1
    DedicatedModel = TRUE
    PromptEvents = TRUE
    Faults = TRUE
    MaxTime = 0
    MaxRevision <- OneRevision
    MaxCompactions <- OneCompaction
    MaxParts = 2
    MaxEvents = 2
    MaxRestarts = 0
PROPERTY RecoveryNotLost
