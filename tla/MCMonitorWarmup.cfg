CONSTANTS
    Addrs = {a1}
    Counts <- MCCountsNoOutlier
    PipeCap = 2

SPECIFICATION Spec

INVARIANT NoWarmupMitigation
