SPECIFICATION Spec
CONSTANTS
    Prompts = {p1, p2}
    MaxRetries = 1
    MaxRuns = 4
    MaxFailures = 2
    MaxAborts = 1
    MaxUnseen = 1
CHECK_DEADLOCK FALSE
INVARIANT NeverOrphaned
