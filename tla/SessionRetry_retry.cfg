SPECIFICATION FairSpec
CONSTANTS
    Prompts = {p1, p2}
    MaxRetries = 1
    MaxRuns = 8
    MaxFailures = 2
    MaxAborts = 1
    MaxUnseen = 1
CHECK_DEADLOCK FALSE
INVARIANTS
    TypeOK
    NoOrphanedChain
PROPERTY PromptReturns
