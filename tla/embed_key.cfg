SPECIFICATION Spec
CONSTANTS
    Callers = {c1}
    Requests <- Joined
    MaxBatchSize = {2}
    AdapterMax = 3
    MaxAttempts = 1
    Dimensions = {1}
    Counts = {0}
    CacheEnabled = TRUE
    TtlSeconds = 0
    Joiner = "soh"
    CacheKeys <- JoinedKeys
    CacheMaxBytes = 3
    CacheEntryCap = 2
    LastInstant = 1
INVARIANT
    OneVectorPerInput
