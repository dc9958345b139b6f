SPECIFICATION DialogueSpec
CONSTANTS
    N = 2
    Files = {}
    MaxConcurrency = 2
    Asks = {q1}
    MaxPrompts = 1
CHECK_DEADLOCK FALSE
INVARIANT AllRunnersFinished
