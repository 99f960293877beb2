CONSTANTS
    Capacity = 3
    FailureThreshold = 2
    HalfOpenMax = 1
    MaxBatchSize = 2
    MaxRetries = 1
    MaxEvents = 5
SPECIFICATION FairSpec
INVARIANTS
    StatsAddUp
PROPERTIES
    ImplementsPipe
    NothingIsStuck
CHECK_DEADLOCK FALSE
