CONSTANTS
    k1 = k1
    k2 = k2
    Keys = {k1, k2}
    NoRow = NoRow
    NoTx = NoTx
    NoPred = NoPred
    Conns = {c1, c2}
    Starts <- AllStarts
    Inserts <- AllInserts
    Updates <- AllUpdates
    Deletes <- AllDeletes
    Upserts <- AllUpserts
    Gets <- AllGets
    Queries <- AllQueries
    MaxCalls = 4
    MaxFaults = 1
SPECIFICATION Spec
SYMMETRY Interchangeable
CHECK_DEADLOCK FALSE
INVARIANTS RefInv ReadOnlyHygiene
PROPERTY ImplementsAtomicStore
