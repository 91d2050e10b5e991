SPECIFICATION Spec
CONSTANTS
    f1 = f1
    f2 = f2
    n1 = n1
    n2 = n2
    k1 = k1
    i1 = i1
    i2 = i2
    u1 = u1
    u2 = u2
    u3 = u3
    x1 = x1
    None = None
    Finders = {f1, f2}
    Inliners = {n1, n2}
    Creators = {k1}
    Ignorers = {i1, i2}
    Upserters = {u1, u2, u3}
    Destroyers = {x1}
    Servers = {"mysql", "postgres", "sqlite"}
    Setups <- RowOrKey
    UuidIds = TRUE
    ConflictColumns = {u2, u3}
    MaxRetries = 1
    MaxIds = 2
    MaxFaults = 2
INVARIANTS
    AtMostOneRowPerCall
    RejectedFinderLeavesNoRow
    FinderTellsTheTruth
    WinnerIsReturned
    FirstAttemptsAgree
