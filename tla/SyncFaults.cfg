SPECIFICATION FairSpec
CONSTANTS
    KleFacet = KleFacet
    OtherFacet = OtherFacet
    A = A
    B = B
    Gap = Gap
    Kle = KleFacet
    Facets <- MCFacets
    Attributes <- MCAttributes
    Klasser <- FewKlasser
    Faulty <- MCFaulty
    Stored <- MCStored
    Unreadable <- MCUnreadable
    Edited <- FewEdited
    NoUuid = NoUuid
    NoValidity = NoValidity
    Uuids = {u1}
    Requests = {}
    MaxChanges = 1
    MaxEdits = 1
    MaxFaults = 1
CHECK_DEADLOCK FALSE
INVARIANTS
    TypeOK
    NothingForgotten
PROPERTIES
    KeepsPromise
    Converges
