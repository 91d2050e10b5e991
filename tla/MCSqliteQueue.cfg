\* A callback may await a query on the parent handle: that task hangs for good, so the
\* system may stop.
CONSTANTS
    Txs = {t1, t2, t3}
    Queries = {q1, q2, q3}
    None = None
    AwaitsParent = {t1}
    t1 = t1
    t2 = t2
    t3 = t3
    q1 = q1
    q2 = q2
    q3 = q3
SPECIFICATION FairSpec
CHECK_DEADLOCK FALSE
INVARIANTS
    NoForeignStatement
    RunsInCallOrder
PROPERTIES
    ImplementsSerialConnection
    EverythingSettles
