SPECIFICATION WorkersSpec
CONSTANTS
    NoAttempt = NoAttempt
    s1 = s1
    s2 = s2
    s3 = s3
    Sessions <- ThreeSessions
    MaxClock = 3
    MaxSets = 5
    TTL = 1
    MaxAttempts = 2
    w1 = w1
    w2 = w2
    Workers <- TwoWorkers
    Services <- OneService
    MaxPid = 6
    ReusePids = FALSE
    CrashPoints <- Everywhere
    bad = bad
    good = good
    Walk <- BadFirst
    Contents <- ThreeContents
    Refused <- BadRefused
    RetryAttempts = 2
    MaxS3Changes = 2
    MaxS3Faults = 1
    Docs <- FiveDocs
    FirstDocs <- ThreeDocs
    Supersedes <- FourSupersedes
    Chunkless <- ThreeChunkless
    PageSize = 2
    MaxRagFaults = 2
    Faults = TRUE
    MaxTime = 1
    MaxRevision = 1
    MaxCompactions = 2
    MaxParts = 2
    MaxEvents = 2
    MessageKinds = {"user", "tool", "listing", "question", "summary", "empty"}
    VccPageSize = 2
    MaxPages = 2
    MaxCandidateSize = 16
    FirstMessages = 2
    MaxSessionChanges = 2
    MaxCollections = 2
INVARIANTS WorkersTypeOK StoreIsTheMap
INVARIANTS MutualExclusion ReceiptArchived
INVARIANTS VccContinueSound OneSummaryText QuietContinues
INVARIANTS SourceCovers CandidateStable CandidateBest RecallAnswers
PROPERTIES StaleLockTaken S3FilesSettle CursorSound RagRunCatchesUp
ACTION_CONSTRAINT LeastPid
CHECK_DEADLOCK FALSE
