\* Three calls contend for two pooled connections, one retry each, three failures.
CONSTANTS
    Calls = {t1, t2, t3}
    Conns = {c1, c2}
    NoConn = NoConn
    MaxRetries = 1
    MaxFaults = 3
    t1 = t1
    t2 = t2
    t3 = t3
    c1 = c1
    c2 = c2
SPECIFICATION FairSpec
INVARIANTS
    AtMostOneDurableAttempt
    OutcomeTellsTheTruth
    PoolHoldsNoOpenTransaction
PROPERTIES
    ImplementsAtomicCall
    EveryCallSettles
