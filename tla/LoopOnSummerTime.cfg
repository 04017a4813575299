SPECIFICATION Spec
CONSTANTS
    DAY = 4
    Offset <- MCOffset
    KeepsOffset = FALSE
    NEGATIVE_INFINITY = 0
    POSITIVE_INFINITY = 26
    Klasser <- SimpleKlasser
    Changed <- SimpleKlasser
    NoParent = NoParent
    MaxChanges = 1
    Cuts = {2, 9, 15}
    FineCuts = {}
    AutumnAt = 8
    SpringAt = 17
INVARIANT
    NoSyncLoop
