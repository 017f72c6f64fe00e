CONSTANTS
    Fetchers = {"mempool", "nettotals"}
    HashFetchers = {}
    MaxRetries = 2
    MaxAllowedFailures = 1
    ChannelSize = 2
    Values = {"v1"}
    MaxFailures = 2
    ResetTimeout = 1
    FailureBound = 2
SPECIFICATION FairLoopSpec
INVARIANTS LoopTypeOK OpenMeansQuiet
PROPERTIES RecoversAfterOutage ShutdownStops
