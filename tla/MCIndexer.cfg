CONSTANTS
    p1 = p1
    p2 = p2
    Passes <- MCPasses
    MaxTxs = 3
    MaxFaults = 1
    MaxNulls = 1
    Cap = 2
SPECIFICATION FairSpec
INVARIANTS
    TypeOK
    CursorCovers
    AppliedExactlyOnce
PROPERTIES
    EventuallyIndexed
    EventuallyMirrors
    EventuallyClaimable
