SPECIFICATION FairSpec
CONSTANTS
    Tasks = {t1, t2}
    Slots = {s1, s2}
    Hashes = {1, 2}
    Size <- SizeIsHash
    Aliases = {a1, a2}
    MaxBytes = 0
    Ops = {"put"}
    MayCrash = TRUE
    MayCancel = TRUE
    RemovalsFail = FALSE
    LastInstant = 3
    None = None
INVARIANT
    WritersAgree
PROPERTY
    OperationsEnd
