CONSTANTS
    NONE = NONE
    Columns = {"k", "a", "b", "c"}
    Values = {v1}
    Ids = {i1}
    Clients = {c1}
    MaxFailures = 0
    Changes <- Mixed
SPECIFICATION Spec
INVARIANT NoTransientChange
