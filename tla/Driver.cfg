CONSTANTS
    Clients = {c1, c2}
    MaxDisruptions = 3
    Nobody = Nobody
SPECIFICATION FairSpec
INVARIANTS
    OneStore
    StartsFresh
    Durable
PROPERTIES
    StoreKept
    CallsReturn
