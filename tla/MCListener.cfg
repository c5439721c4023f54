CONSTANTS
    Addrs = {a1}
    Counts <- MCListenerCounts
    PipeCap = 2

SPECIFICATION SystemSpec

INVARIANT DirectiveOrder
