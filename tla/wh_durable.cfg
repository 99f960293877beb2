CONSTANTS
    e1 = e1
    e2 = e2
    Event <- OneEvent
    Durable = TRUE
    Faults = TRUE
    MaxRetries = 1
    RecoverLimit = 2
    MaxCrashes = 2
    MaxManual = 1
SPECIFICATION FairSpec
INVARIANTS
    SettledIsEarned
    UnfinishedIsDriven
PROPERTIES
    EventuallySettled
CHECK_DEADLOCK FALSE
