SPECIFICATION FairSpec
CONSTANTS
    N = 3
    Files = {f1}
    MaxConcurrency = 2
    MaxRunning = 3
CHECK_DEADLOCK FALSE
INVARIANTS
    TypeOK
    BlockersFirst
    FilesApart
    SlotsHeld
    FailureReaches
PROPERTY BatchEnds
