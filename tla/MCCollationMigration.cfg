\* Two columns, two processes that may overlap, one column per run; two crashes or
\* failures, and one column changed back.
CONSTANTS
    Runs = {r1, r2}
    NumColumns = 2
    StopAfter = 1
    KeepGoing = {r1}
    MaxFaults = 2
    MaxDrifts = 1
    r1 = r1
    r2 = r2
SPECIFICATION FairSpec
INVARIANTS
    StateTellsTheTruth
    CleanRunsAreComplete
    NoNeedlessRebuild
PROPERTIES
    EveryColumnConverges
