SPECIFICATION Spec
CONSTANTS
    Klasser <- MCKlasser
    Null = Null
INVARIANTS
    TypeOK
    NeverMisread
    RaisesOnDamageOnly
    WrittenOnce
