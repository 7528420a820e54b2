SPECIFICATION Spec
CONSTANTS
    Tasks = {t1}
    Slots = {s1}
    Hashes = {1, 2, 3}
    Size <- SizeIsHash
    Aliases = {a1, a2}
    MaxBytes = 3
    Ops = {"put", "get", "delete", "sweep"}
    MayCrash = TRUE
    MayCancel = FALSE
    RemovalsFail = FALSE
    LastInstant = 5
    None = None
SYMMETRY Symmetry
INVARIANTS
    TypeOK
    ByteCountExact
    DiskIsIndexWhenQuiet
    AckedIsReadable
