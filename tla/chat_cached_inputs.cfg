SPECIFICATION Spec
CONSTANTS
    LastDay = 2
    Callers = {c1, c2}
    Args <- Pictures
    Nul = Nul
    Responses <- Answers
    ErrorKinds = {"server", "auth"}
    RetryOn = {"server"}
    MaxAttempts = 2
    MaxIterations = 1
    Allowed = {}
    OnExhausted = "error"
    Mode = "json_schema"
    OnMismatch = "retry_once"
    CacheEnabled = TRUE
    TokensPerCallCap = 0
    UsdDailyCap = 0
    MaxTokens = 1
    MaxU32 = 4
    Card <- Listing
    Provider <- OpenAI
    Model = "model"
SYMMETRY Symmetry
INVARIANT
    CachedAnswerIsToTheseInputs
