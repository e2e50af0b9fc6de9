CONSTANTS
    MaxVersions = 2
    MaxFaults = 2
    Attempts = 2
SPECIFICATION FairSpec
INVARIANT RecordsAreTrue
PROPERTY EventuallyCurrent
