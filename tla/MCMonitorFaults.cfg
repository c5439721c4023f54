CONSTANTS
    Addrs = {a1}
    Counts <- MCFaultCounts
    PipeCap = 1

SPECIFICATION FaultSpec

INVARIANT FaultDirectiveOrder
PROPERTY LoopKeepsCycling FaultChannelSpec
