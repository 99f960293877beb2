CONSTANTS
    Socket = {w1, w2}
    Session = {s1}
    Ip = {a, b}
    MaxPerIp = 1
    MaxSubs = 1
    RateMax = 2
    CloseAfter = 1
    Faults = TRUE
    MaxEvents = 2
    MaxLookups = 1
SPECIFICATION FairSpec
INVARIANTS
    SlotsAreExact
    StreamHasNoGaps
    NothingLeaks
PROPERTIES
    VanishedIsForgotten
CHECK_DEADLOCK FALSE
