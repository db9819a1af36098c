SPECIFICATION Spec
CONSTANTS
    Nodes = {n1, n2}
    Jobs = {j1}
    Tasks = {t1, t2}
    NoOwner = NoOwner
    NoTask = NoTask
    Shard <- MCShard
    MaxRetries = 1
    MaxConcurrent = 1
    FetchBatchSize = 1
    MaxCopies = 1
    MaxAcquired = 2
    MaxErrors = 0
    MaxCrashes = 1
SYMMETRY Symmetry
INVARIANTS
    TypeOK
    ExecutionsRecorded
PROPERTIES
    LeaseSpec
