CONSTANTS
    a1 = a1
    a2 = a2
    a3 = a3
    b1 = b1
    b2 = b2
    b3 = b3
    old = old
    new = new
    NoRow = NoRow
    Sort <- Locals
    Values = {old, new}
    Readers = {r1}
    Keys = {a1, a2, b1}
    Queries <- Scans
SPECIFICATION Spec
INVARIANT ScanComplete
