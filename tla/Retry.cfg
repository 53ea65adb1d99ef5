CONSTANTS
    Keys = {k1}
    Counter = k1
    NoRow = NoRow
    NoTx = NoTx
    NoPred = NoPred
    Conns = {c1, c2, c3}
    Starts <- Empty
    Inserts <- Empty
    Updates <- Empty
    Deletes <- Empty
    Upserts <- Empty
    Gets <- Empty
    Queries <- Empty
    MaxCalls = 30
    MaxFaults = 2
SPECIFICATION RSpec
CHECK_DEADLOCK FALSE
INVARIANTS HandleLive ExactlyOnce
PROPERTIES ImplementsAtomicStore EveryoneCommits EveryoneSettles
