SPECIFICATION LedgerSpec
CONSTANTS
    Requests <- ThreeRequests
    RuleIn <- NoRules
    Results <- NoResults
    TodoIDs = {}
    RequestTurns = 2
    Limits <- TwoOfEach
    Sizes <- OneByte
    BlockBytes = 1
    Budgets = {40}
    LedgerWindow = 6
    MaxMessages = 6
    MaxLedgers = 1
    MaxTodoChanges = 0
INVARIANT NewestRequestsKept
CHECK_DEADLOCK FALSE
