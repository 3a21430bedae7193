SPECIFICATION SourceSpec
CONSTANTS
    MessageKinds = {"user", "tool", "listing", "question", "summary", "empty"}
    VccPageSize = 2
    MaxPages = 2
    MaxCandidateSize = 16
    FirstMessages = 2
    MaxSessionChanges = 2
    MaxCollections = 2
INVARIANTS PairsTogether
CHECK_DEADLOCK FALSE
