CONSTANTS
    a = a
    b = b
    m1 = m1
    m2 = m2
    alien = alien
    Keys = {a, b, m1, m2, alien}
    NoRow = NoRow
    NoTx = NoTx
    NoPred = NoPred
    Runners = {r1, r2}
    Users = {r1, r2}
    Set <- Guarded
    Malformed = {alien}
    Initial <- OneRow
    Writes <- AnyWrite
    MaxRuns = 2
    MaxTraffic = 2
    MaxFaults = 1
SPECIFICATION Spec
CHECK_DEADLOCK FALSE
SYMMETRY Interchangeable
INVARIANTS WholeInv GuardHolds
