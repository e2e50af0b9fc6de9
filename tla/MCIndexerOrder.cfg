CONSTANTS
    p1 = p1
    p2 = p2
    Passes <- MCPasses
    MaxTxs = 3
    MaxFaults = 0
    MaxNulls = 0
    Cap = 5
SPECIFICATION Spec
INVARIANT PositionFollowsChain
