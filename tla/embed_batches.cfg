SPECIFICATION FairSpec
CONSTANTS
    Callers = {c1}
    Requests <- Plain
    MaxBatchSize = {2}
    AdapterMax = 3
    MaxAttempts = 2
    Dimensions = {0, 1, 2}
    Counts = {0, 1, 2}
    CacheEnabled = TRUE
    TtlSeconds = 1
    Joiner = "soh"
    CacheKeys <- PlainKeys
    CacheMaxBytes = 2
    CacheEntryCap = 2
    LastInstant = 2
INVARIANTS
    TypeOK
    CacheBytesExact
    OneVectorPerInput
    VectorsAreOfTheInputs
    OneDimension
PROPERTY
    CallsEnd
