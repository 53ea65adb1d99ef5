CONSTANTS
    NONE = NONE
    Columns = {"k", "a", "b", "c"}
    Values = {v1, v2}
    Ids = {i1}
    Clients = {c1, c2}
    MaxFailures = 1
    Changes <- AllChanges
SPECIFICATION FairSpec
INVARIANTS
    GuardHolds
    GuardedUntouched
    IndexesCurrent
    PushComplete
PROPERTIES
    SchemaFollows
    RowsFollow
    DriftDetected
    PushesEnd
