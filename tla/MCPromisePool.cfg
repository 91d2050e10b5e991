SPECIFICATION PoolFairSpec
CONSTANTS
    Total = 4
    Options <- AllOptions
INVARIANTS
    EachItemOnce
    AnswerIsComplete
PROPERTIES
    EveryItemIsTried
CHECK_DEADLOCK FALSE
