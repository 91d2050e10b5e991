SPECIFICATION FairSpec
CONSTANTS
    q0 = q0
    q1 = q1
    q2 = q2
    q3 = q3
    p1 = p1
    w1 = w1
    w2 = w2
    Queries = {q0, q1, q2, q3}
    Probes = {p1}
    Switchers = {w1, w2}
    Replicas <- TwoHandles
    Requests = {"random", "custom", "uncustom"}
    Fallback = TRUE
    Plans <- SomePlans
    MaxFaults = 1
INVARIANTS
    EveryReplicaServes
    BuiltOnce
    StrategyInForce
    DestroyLeavesNothing
PROPERTIES
    EveryCallIsAnswered
CHECK_DEADLOCK FALSE
