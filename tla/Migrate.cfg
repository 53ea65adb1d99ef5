CONSTANTS
    a = a
    b = b
    m1 = m1
    m2 = m2
    alien = alien
    Keys = {a, b, m1, m2}
    NoRow = NoRow
    NoTx = NoTx
    NoPred = NoPred
    Runners = {r1, r2}
    Users = {}
    Set <- Rewrites
    Malformed = {}
    Initial <- OneRow
    Writes <- TouchOrGrow
    MaxRuns = 6
    MaxTraffic = 2
    MaxFaults = 1
SPECIFICATION FairSpec
CHECK_DEADLOCK FALSE
INVARIANTS InOrder DoneMeansApplied
PROPERTIES OneByOne AppliesWhole EveryoneMigrates
