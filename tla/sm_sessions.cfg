CONSTANTS
    s1 = s1
    s2 = s2
    s3 = s3
    c1 = c1
    c2 = c2
    c3 = c3
    Session <- TwoSessions
    Client <- TwoClients
    Backend = "memory"
    Workload = {"create", "ingest", "update", "delete"}
    Targets = {"idle", "error"}
    Faults = {"purge"}
    MaxCorrelators = 2
    EvictTarget = 1
    MaxRebuilds = 2
    MaxSessions = 1
    StoreCap = 5
    RebuildLimit = 5
    CorrelatorCap = 2
    SessionTtl = 0
    MaxBatches = 2
    MaxTime = 1
    MaxRestarts = 0
    MaxGauge = 1
SPECIFICATION Spec
SYMMETRY Symmetry
INVARIANTS
    HooksTellTheTruth
    AckedIsOnTimeline
    TimelineMatchesStorage
PROPERTIES
    ImplementsService
    DeletedStaysDeleted
