SPECIFICATION FairSpec
CONSTANTS
    Uuids = {u}
    NoUuid = NoUuid
    MaxFaults = 2
INVARIANTS
    TypeOK
    DueIsKept
    ClientEntersUnopened
    ClientOutlastsItsUsers
PROPERTIES
    StopEnds
    DealtWith
