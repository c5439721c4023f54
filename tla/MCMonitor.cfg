CONSTANTS
    Addrs = {a1}
    Counts <- MCCounts
    PipeCap = 1

SPECIFICATION Spec

INVARIANT TypeOK
INVARIANT DirectiveOrder
INVARIANT BackoffOnlyWhenQuiet
