CONSTANTS
    Addrs = {a1}
    Counts <- MCCounts
    PipeCap = 2

SPECIFICATION Spec

INVARIANT OutlierNotMitigated
