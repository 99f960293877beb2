CONSTANTS
    s1 = s1
    s2 = s2
    s3 = s3
    c1 = c1
    c2 = c2
    c3 = c3
    Session <- TwoSessions
    Client <- OneClient
    Backend = "memory"
    Workload = {"create", "ingest", "timeline"}
    Targets = {"capturing", "paused", "completed"}
    Faults = {}
    MaxCorrelators = 1
    EvictTarget = 1
    MaxRebuilds = 2
    MaxSessions = 3
    StoreCap = 5
    RebuildLimit = 5
    CorrelatorCap = 5
    SessionTtl = 0
    MaxBatches = 2
    MaxTime = 0
    MaxRestarts = 0
    MaxGauge = 3
SPECIFICATION Spec
SYMMETRY Symmetry
INVARIANTS
    TimelineMatchesStorage
