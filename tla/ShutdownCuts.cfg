SPECIFICATION Spec
CONSTANTS
    Addresses = {"inside", "outside", "banned"}
    Connections = {"k1", "k2"}
    Environments <- LessEnvironments
    RequestsMade <- LessRequests
    MaxRestarts = 0
INVARIANT
    InFlightGetAChance
CHECK_DEADLOCK FALSE
