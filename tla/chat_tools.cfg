SPECIFICATION FairSpec
CONSTANTS
    LastDay = 2
    Callers = {c1}
    Args <- OneText
    Nul = Nul
    Responses <- ToolAnswers
    ErrorKinds = {"server", "auth"}
    RetryOn = {"server"}
    MaxAttempts = 2
    MaxIterations = 3
    Allowed = {"read"}
    OnExhausted = "return_partial"
    Mode = "json_schema"
    OnMismatch = "retry_once"
    CacheEnabled = FALSE
    TokensPerCallCap = 6
    UsdDailyCap = 2
    MaxTokens = 2
    MaxU32 = 4
    Card <- Listing
    Provider <- OpenAI
    Model = "model"
INVARIANTS
    TypeOK
    ConversationWellFormed
    SentBounded
    OnlyValidAnswers
    BilledForTheLoop
PROPERTIES
    ImplementsGate
    CallsEnd
