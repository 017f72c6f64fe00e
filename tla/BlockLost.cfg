CONSTANTS
    Clients = {"flooder"}
    Connections = {"k1", "k2"}
    ClientOf <- MCClientOf
    PoliteClients = {}
    Requests = 1
    WindowSize = 1
    BlockTime = 3
    CleanupInterval = 3
    MaxTime = 6
SPECIFICATION Spec
INVARIANT BlockHolds
