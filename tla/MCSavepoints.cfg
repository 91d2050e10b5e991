\* A sequential callback on each server, nesting two deep; it lets conflicts and failed
\* statements of its own level propagate.
CONSTANTS
    Strands = {s1}
    Servers = {"mysql", "postgres", "sqlite"}
    CatchesConflicts = FALSE
    SwallowsErrors = FALSE
    AwaitsAll = TRUE
    MaxDepth = 2
    MaxSavepoints = 3
    MaxWrites = 4
    MaxTxFaults = 2
    s1 = s1
    s2 = s2
SPECIFICATION TxSpec
INVARIANTS
    EffectMatchesOutcome
    OpenWorkIsKeptWork
