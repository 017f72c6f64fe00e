CONSTANTS
    Fetchers = {"mempool", "nettotals", "hash_1"}
    HashFetchers = {"hash_1"}
    MaxRetries = 2
    MaxAllowedFailures = 1
    ChannelSize = 3
    Values = {"v1"}
SPECIFICATION FairSpec
INVARIANT NothingInvented
