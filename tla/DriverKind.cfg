CONSTANTS
    Clients = {c1}
    MaxDisruptions = 0
    Nobody = Nobody
SPECIFICATION Spec
PROPERTY FailedConnectIsLost
