CONSTANTS
    NONE = NONE
    Columns = {"k", "a", "b", "c"}
    Values = {v1, v2}
    Ids = {i1}
    Clients = {c1}
    MaxFailures = 0
    Changes <- Swaps
SPECIFICATION Spec
PROPERTY SwapKeepsData
