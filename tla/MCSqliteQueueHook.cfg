\* Progress, when a callback (or a hook it calls) awaits a query on the parent handle.
CONSTANTS
    Txs = {t1, t2, t3}
    Queries = {q1, q2, q3}
    None = None
    AwaitsParent = {t1}
    t1 = t1
    t2 = t2
    t3 = t3
    q1 = q1
    q2 = q2
    q3 = q3
CHECK_DEADLOCK FALSE
SPECIFICATION FairSpec
PROPERTIES
    ParentQueryRuns
