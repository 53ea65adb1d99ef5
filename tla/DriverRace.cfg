CONSTANTS
    Clients = {c1, c2}
    MaxDisruptions = 1
    Nobody = Nobody
SPECIFICATION Spec
INVARIANT NextConnectFresh
