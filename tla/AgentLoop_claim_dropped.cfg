SPECIFICATION Spec
CONSTANTS
    Msgs = {m1, m2}
    MaxRuns = 1
    MaxToolTurns = 1
    MaxCalls = 2
    SteeringMode = "one-at-a-time"
    FollowUpMode = "one-at-a-time"
    InterruptMode = "immediate"
    EarlyDispatch = TRUE
    Barrier = TRUE
    ResolveMayThrow = FALSE
SYMMETRY MsgSymmetry
CHECK_DEADLOCK FALSE
INVARIANTS
    SteeringNeverDropped
