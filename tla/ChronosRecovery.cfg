SPECIFICATION FairSpec
CONSTANTS
    Nodes = {n1, n2}
    Jobs = {j1}
    Tasks = {t1}
    NoOwner = NoOwner
    NoTask = NoTask
    Shard <- MCOneShard
    MaxRetries = 1
    MaxConcurrent = 1
    FetchBatchSize = 1
    MaxCopies = 1
    MaxAcquired = 2
    MaxErrors = 1
    MaxCrashes = 1
INVARIANTS
    DeadIsRecorded
PROPERTIES
    ZombieReaped
