CONSTANTS
    r1 = r1
    r2 = r2
    Requests <- MCRequests
    MaxWrites <- MCMaxWrites
    PoolsTtl = 1
    SeriesTtl = 2
    MaxLoad = 2
SPECIFICATION CacheFairSpec
INVARIANT StalenessBounded
PROPERTY EventuallyFresh
