SPECIFICATION Spec
CONSTANTS
    Klasser = {k, odd}
    OddKlasse = odd
    Objects = {o, p}
    Absent = Absent
    Malformed = Malformed
    Nothing = Nothing
INVARIANT
    TypeOK
PROPERTY
    TruthOrError
