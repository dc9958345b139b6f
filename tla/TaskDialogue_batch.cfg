SPECIFICATION FairDialogue
CONSTANTS
    N = 3
    Files = {}
    MaxConcurrency = 2
    Asks = {q1}
    MaxPrompts = 1
CHECK_DEADLOCK FALSE
INVARIANTS
    TypeOK
    AccountsAgree
    WaitsForBlockers
    ParkedIsPending
    ReachesOnce
PROPERTIES
    WorkersResume
    CallReturns
