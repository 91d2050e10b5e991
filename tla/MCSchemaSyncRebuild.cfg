SPECIFICATION Spec
CONSTANTS
    UuidLinkedIds = TRUE
    LinkCollation = "utf8mb4_bin"
    MigrateLinkCollation = FALSE
    Schemas <- MCSchemas
    Families <- MCFamilies
    TableName = "task"
    Row = {r1}
    MaxSyncs = 3
    MaxFaults = 0
    MaxWork = 4
    None = None
INVARIANTS
    UndeclaredDataIsKept
CHECK_DEADLOCK FALSE
