SPECIFICATION Spec
CONSTANTS
    UuidLinkedIds = TRUE
    LinkCollation = "utf8mb4_bin"
    MigrateLinkCollation = FALSE
    Schemas <- MCSchemas
    Families <- MCFamilies
    TableName = "task"
    Row = {r1, r2}
    MaxSyncs = 3
    MaxFaults = 1
    MaxWork = 4
    None = None
INVARIANTS
    DeclaredDataSurvives
    CleanSyncIsComplete
    ResyncIsQuiet
    ErrorsHaveACause
SYMMETRY Symmetry
CHECK_DEADLOCK FALSE
