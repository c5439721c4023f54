SPECIFICATION Spec
INVARIANT TruncationTolerance
CHECK_DEADLOCK FALSE
