CONSTANTS
    e1 = e1
    e2 = e2
    Event <- TwoEvents
    Durable = FALSE
    Faults = FALSE
    MaxRetries = 2
    RecoverLimit = 2
    MaxCrashes = 0
    MaxManual = 0
SPECIFICATION Spec
SYMMETRY Symmetry
INVARIANTS
    BudgetIsExact
CHECK_DEADLOCK FALSE
