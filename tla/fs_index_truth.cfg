SPECIFICATION Spec
CONSTANTS
    Tasks = {t1, t2}
    Slots = {s1}
    Hashes = {1, 2}
    Size <- SizeIsHash
    Aliases = {a1}
    MaxBytes = 2
    Ops = {"put", "get", "delete", "sweep"}
    MayCrash = FALSE
    MayCancel = FALSE
    RemovalsFail = FALSE
    LastInstant = 3
    None = None
SYMMETRY Symmetry
INVARIANT
    IndexedIsReadable
