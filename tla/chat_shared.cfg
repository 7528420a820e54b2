SPECIFICATION Spec
CONSTANTS
    LastDay = 2
    Callers = {c1, c2}
    Args <- CutTexts
    Nul = Nul
    Responses <- Untooled
    ErrorKinds = {"server"}
    RetryOn = {"server"}
    MaxAttempts = 1
    MaxIterations = 1
    Allowed = {}
    OnExhausted = "error"
    Mode = "json_schema"
    OnMismatch = "error"
    CacheEnabled = TRUE
    TokensPerCallCap = 0
    UsdDailyCap = 1
    MaxTokens = 1
    MaxU32 = 4
    Card <- Listing
    Provider <- OpenAI
    Model = "model"
SYMMETRY Symmetry
INVARIANTS
    OnlyValidAnswers
    AnswersTheText
PROPERTY
    ImplementsGate
