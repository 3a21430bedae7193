SPECIFICATION FairSpec
CONSTANTS
    w1 = w1
    w2 = w2
    f1 = f1
    f2 = f2
    Workers <- TwoWorkers
    Modes <- BothModes
    OverlapAt <- WhileUploading
    StableToken = FALSE
    CrashPoints <- Anywhere
    BatchSize = 3
    MaxBatches = 2
    MaxOutbox = 8
    MaxFaults = 1
    MaxChanges = 1
    MaxLines = 2
    MaxRecords = 2
    MCFiles <- OneFile
    Keys <- MCKeys
    Values <- MCValues
    FirstSources <- MCFirst
    SourceMoves <- MCMoves
    Fingerprint <- MCFingerprint
    NoCheckpoint <- MCStart
    Discover <- MCDiscover
INVARIANTS MirrorTypeOK TableIsReplay NothingLost
PROPERTIES MirrorsLog OutboxDrains BecomesCurrent
CONSTRAINT OverlapBound
