CONSTANTS
    Documents <- MCDocuments
    Text <- MCText
    Claims <- MCClaims
    Facts <- MCFacts
    F = 3
    Tries = 2
    Replies = 3
SPECIFICATION AnalysisSpec
INVARIANTS
    FabricationNeverRaises
    HigherIsSafer
    OnlyBadNewsIsLost
