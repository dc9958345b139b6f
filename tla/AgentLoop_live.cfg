SPECIFICATION FairSpec
CONSTANTS
    Msgs = {m1, m2}
    MaxRuns = 1
    MaxToolTurns = 1
    MaxCalls = 3
    SteeringMode = "all"
    FollowUpMode = "all"
    InterruptMode = "immediate"
    EarlyDispatch = TRUE
    Barrier = TRUE
    ResolveMayThrow = TRUE
CHECK_DEADLOCK FALSE
INVARIANTS
    SequentialAlone
PROPERTIES
    NoStartAfterInterrupt
    RunEnds
    TakenIsSaid
