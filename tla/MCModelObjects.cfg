SPECIFICATION FairSpec
CONSTANTS
    a1 = a1
    a2 = a2
    b1 = b1
    s1 = s1
    s2 = s2
    None = None
    Callers = {a1, a2, b1}
    Servers = {s1, s2}
    On <- TwoServers
    Plans <- AllPlans
    MaxCalls = 3
    MaxBuilt = 2
    MaxFaults = 1
    Lagging = TRUE
INVARIANTS
    OneInstancePerId
    PatchAppliedOnce
PROPERTIES
    EveryCallEnds
    StalePatchRefused
CHECK_DEADLOCK FALSE
