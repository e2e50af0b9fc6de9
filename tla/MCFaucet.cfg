CONSTANTS
    r1 = r1
    r2 = r2
    Requests <- MCRequests
    MaxFaults = 3
SPECIFICATION FairSpec
INVARIANTS
    TypeOK
    ExtraDripsAreUnknown
PROPERTY KeepsServing
