SPECIFICATION FairSpec
CONSTANTS
    Addresses = {"inside", "outside", "banned"}
    Connections = {"k1"}
    Environments <- MCEnvironments
    RequestsMade <- MCRequests
    MaxRestarts = 2
INVARIANTS
    TypeOK
    OnlyAdmittedReadMetrics
    StopsOnlyWhenTold
    CookieGoodUntilRestart
PROPERTIES
    FeedRecovers
    ShutdownExits
\* The process exits.
CHECK_DEADLOCK FALSE
