SPECIFICATION Spec
CONSTANTS
    DAY = 4
    Offset <- MCOffset
    KeepsOffset = FALSE
    NEGATIVE_INFINITY = 0
    POSITIVE_INFINITY = 26
    Klasser <- AllKlasser
    Changed <- FewKlasser
    NoParent = NoParent
    MaxChanges = 1
    Cuts = {3, 5, 11, 18}
    FineCuts = {2, 7, 9, 13, 15, 17, 20}
    AutumnAt = 8
    SpringAt = 17
INVARIANTS
    TypeOK
    SplitIsFaithful
    FailsOnGapsOnly
    DesiredDisjoint
    DayShowsItsEnd
    SteadyNoSyncLoop
