SPECIFICATION Spec
CONSTANTS
    KleFacet = KleFacet
    OtherFacet = OtherFacet
    A = A
    B = B
    Gap = Gap
    Kle = KleFacet
    Facets <- MCFacets
    Attributes <- MCAttributes
    Klasser <- MCKlasser
    Faulty <- MCFaulty
    Stored <- MCStored
    Unreadable <- MCUnreadable
    Edited <- MCEdited
    NoUuid = NoUuid
    NoValidity = NoValidity
    Uuids = {u1}
    Requests = {}
    MaxChanges = 1
    MaxEdits = 1
    MaxFaults = 0
CHECK_DEADLOCK FALSE
PROPERTY
    DeletesOnlyKle
