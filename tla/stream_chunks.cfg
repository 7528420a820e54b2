SPECIFICATION FairSpec
CONSTANTS
    Scripts <- AnyScript
    Adapters = {"native", "default"}
    EventCapacity = 1
    DefaultCapacity = 3
    ChunkCapacity = 2
    Specs <- AnySpec
    Valid <- ValidTexts
INVARIANTS
    TypeOK
    AnswerIsTheStream
    OnlyValidAnswers
    ToolsAreAnnounced
    ConversationWellFormed
PROPERTIES
    ImplementsChunkStream
    StreamEnds
