CONSTANTS
    Clients = {"scraper", "flooder"}
    Connections = {"k0", "k1", "k2"}
    ClientOf <- MCClientOf
    PoliteClients = {"scraper"}
    Requests = 1
    WindowSize = 1
    BlockTime = 3
    CleanupInterval = 3
    MaxTime = 5
SPECIFICATION Spec
INVARIANTS TypeOK PoliteServed BlockHoldsUnlessOverlapped
