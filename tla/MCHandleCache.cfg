SPECIFICATION FairSpec
CONSTANTS
    d1 = d1
    e1 = e1
    r1 = r1
    r2 = r2
    m1 = m1
    c1 = c1
    None = None
    Direct = {d1}
    Extra = {e1}
    Recovering = {r1, r2}
    Models = {m1}
    Closers = {c1}
    Teams <- HandleOrShared
    MaxPools = 5
    MaxFaults = 2
    MaxReadFaults = 1
INVARIANTS
    OpenPoolsAreServed
    OneHandleForAll
PROPERTIES
    EveryCallerSettles
CHECK_DEADLOCK FALSE
