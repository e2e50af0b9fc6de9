CONSTANTS
    k1 = k1
    k2 = k2
    Keepers <- MCKeepers
    MaxCrashes = 2
    MaxFaults = 2
SPECIFICATION FairSpec
INVARIANTS
    TypeOK
    ConfirmedMeansSettled
    PendingHasOwner
PROPERTIES
    EventuallySettled
CHECK_DEADLOCK FALSE
