SPECIFICATION MediaSpec
CONSTANTS
    Tasks = {t1, t2}
    Callers = {t2}
    Hashes = {1, 2, 3}
    Size <- SizeIsHash
    Type <- TypeOfHash
    Prompts <- SomePrompts
    Recordings <- SomeRecordings
    Generated <- SomeImages
    Aliases = {a1}
    MaxBytes = 4
    EntryCap = 2
    LastInstant = 2
    MaxAttempts = 2
    MaxInputBytes = 2
    None = None
INVARIANTS
    MediaTypeOK
    ByteCountExact
    KeptWhileItFits
    ProviderSeesTheInputs
    PaidOnce
    AnswerIsComplete
