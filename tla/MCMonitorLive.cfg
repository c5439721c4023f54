CONSTANTS
    Addrs = {a1}
    Counts <- MCCountsNoOutlier
    PipeCap = 1

SPECIFICATION Spec

PROPERTY StopFollowsStart
PROPERTY ChannelSpec
