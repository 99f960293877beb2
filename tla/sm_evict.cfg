CONSTANTS
    s1 = s1
    s2 = s2
    s3 = s3
    c1 = c1
    c2 = c2
    c3 = c3
    Session <- TwoSessions
    Client <- TwoClients
    Backend = "postgres"
    Workload = {"create", "ingest", "timeline"}
    Targets = {"capturing", "paused", "completed"}
    Faults = {"request", "rebuild"}
    MaxCorrelators = 1
    EvictTarget = 1
    MaxRebuilds = 2
    MaxSessions = 3
    StoreCap = 5
    RebuildLimit = 2
    CorrelatorCap = 5
    SessionTtl = 0
    MaxBatches = 2
    MaxTime = 1
    MaxRestarts = 1
    MaxGauge = 3
SPECIFICATION Spec
SYMMETRY Symmetry
INVARIANTS
    MemoryBounded
    RebuildHasOneOwner
    AckedIsStored
PROPERTIES
    RebuildOwnerReadsAcked
