SPECIFICATION FairSpec
CONSTANTS
    Scripts <- Whole
    Adapters = {"default"}
    EventCapacity = 1
    DefaultCapacity = 2
    ChunkCapacity = 2
    Specs <- StrictSpec
    Valid <- ValidTexts
PROPERTY
    StreamEnds
CHECK_DEADLOCK
    FALSE
