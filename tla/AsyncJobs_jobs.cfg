SPECIFICATION FairSpec
CONSTANTS
    Jobs = {j1, j2}
    Nobody = Nobody
    MaxRunning = 2
    MaxRetained = 1
    MaxPending = 1
CHECK_DEADLOCK FALSE
INVARIANT TypeOK
INVARIANT ResultsAccounted
INVARIANT DeliveredOnce
PROPERTY OutcomeIsFinal
PROPERTY WatchdogEndsJobs
PROPERTY DeliveriesEnd
PROPERTY DisposeEnds
