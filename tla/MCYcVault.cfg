CONSTANTS
    BPS = 20
    SECS_PER_YEAR = 2
    U64_MAX = 5
    I64_MAX = 5
    u1 = u1
    u2 = u2
    Users <- MCUsers
    InitialWallet = 2
    InitialReserve = 1
    Amounts = {1}
    SeriesParams <- MCSeriesParams
    Scores = {40, 60}
    RiskTtls = {0, 2}
    Moves = {10}
    MAX_TIME = 2
SPECIFICATION FairSpec
INVARIANTS
    TypeOK
    JuniorBuffer
    Solvent
    HoldersCanExit
    ExactlyOneResolution
    StuckOnlyByTerms
PROPERTIES
    NoAdminPath
    ImplementsContract
    EventuallySettled
