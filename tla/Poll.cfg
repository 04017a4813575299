SPECIFICATION FairSpec
CONSTANTS
    Uuids = {1, 2, 3}
    Before <- MCBefore
    Ahead = 0
    MILLISECOND = 2
    PAGE_LIMIT = 2
    NoRun = NoRun
    MaxClock = 3
    MaxVersion = 2
    MaxFaults = 1
INVARIANTS
    TypeOK
    NoLostChange
    RunCatchesUp
PROPERTY
    EventuallyNotified
