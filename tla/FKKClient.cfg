SPECIFICATION FairSpec
CONSTANTS
    Callers = {"handler", "request"}
    Retrying = {"handler"}
    Lifetime = 8
    FetchTimeout = 1
    RequestTimeout = 2
    MaxWaits = 2
    Window = 2
    Ahead = 1
    NoToken = NoToken
    NotAToken = NotAToken
    MaxFaults = 1
    MaxStrays = 1
INVARIANTS
    TypeOK
    FetchedTokenSuffices
PROPERTIES
    ValidWhenSent
    AnsweredEventually
