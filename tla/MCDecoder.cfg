SPECIFICATION Spec
INVARIANT DecoderRoundTrip
CHECK_DEADLOCK FALSE
