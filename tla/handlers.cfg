SPECIFICATION HandlersSpec
CONSTANTS
    s1 = s1
    s2 = s2
    NoAttempt = NoAttempt
    Sessions <- TwoSessions
    TTL = 1
    MaxAttempts = 1
    DedicatedModel = TRUE
    PromptEvents = FALSE
    Faults = TRUE
    MaxTime = 1
    MaxRevision <- TwoRevision
    MaxCompactions <- TwoCompaction
    MaxParts = 2
    MaxEvents = 2
    MaxRestarts = 1
    Modes = {"offline", "hybrid"}
    Said = {"user", "answer"}
    TailTurns = 1
    OtherSessions = {"other"}
    MaxFixedPins = 1
    RecallMaxEntries = 3
    RefusedIds = {4}
    ItemBytes <- OddItemsLarger
    RecallLimits = {1, 2}
    MaxEntries = 6
    MaxPinUpdates = 2
    Requests <- TwoRequests
    RuleIn <- ThreeRules
    Results <- EditsThenFails
    TodoIDs = {1, 2}
    RequestTurns = 1
    Limits <- TwoOfEach
    Sizes <- MoreImportantLarger
    BlockBytes = 1
    Budgets = {6, 40}
    LedgerWindow = 2
    MaxMessages = 3
    MaxLedgers = 2
    MaxTodoChanges = 2
    Installers = {"i1", "i2"}
    Selectors = {"t"}
    CommitSignals = FALSE
    MaxEdits = 1
    MaxInstallFaults = 1
    Terminals = {"t1", "t2"}
    SessionFiles = {"f1"}
    MaxCommands = 2
    MaxCommandFaults = 1
INVARIANTS HandlersTypeOK HeldAttemptIsStored AutoContinueSound RecoveryLedgerFresh RefusedOnlyForCause
INVARIANTS SummaryAndTail TailKept RecallStable PinsKept
INVARIANTS LedgerFits ChainCovers
INVARIANTS EditsKept EntryResolves FailureUndone
INVARIANTS SetUpIsServed PrunedRowsKept
PROPERTIES RecoveryNotRepeated NormalTurnUnchanged AttemptsIsolated
CONSTRAINTS TroubleBound PiBound
ACTION_CONSTRAINTS TodosAtCompaction CommandsBound
CHECK_DEADLOCK FALSE
