CONSTANTS
    MaxInt = 3
    Narrow = 4
    Type <- Cols
    KeyCols <- KeyPair
    Records <- Rows
    Exprs <- AllExprs
    Depth <- Nesting
    Height <- AllHeight
    PkFilters <- Partition
    Filters <- Conditions
SPECIFICATION Spec
INVARIANT SelectsMeant
