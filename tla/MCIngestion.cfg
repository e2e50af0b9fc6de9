CONSTANTS
    N = 2
    Worlds <- MCWorlds
    MinPoints = 2
    HistoryBelow = 3
    MaxFaults = 1
SPECIFICATION FairSpec
PROPERTIES
    OnceListedStaysListed
    EventuallyAnalysed
