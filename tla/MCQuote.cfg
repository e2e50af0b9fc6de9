CONSTANTS
    BPS = 20
    SECS_PER_YEAR = 3
    U64_MAX = 1000
    NULL = NULL
    DAY = 3
    WINDOW = 2
    MaxAmount = 5
    MaxTerm = 3
    Days = 1
    LastTime = 12
SPECIFICATION Spec
INVARIANTS
    HeadroomExact
    JuniorNeededWithinOne
    QuoteTargetWithinOne
    SplitClaimsNeverGain
    FirstLoss
    RankingIsDeterministic
    RankingMatchesDisplay
    LeadInSuffices
