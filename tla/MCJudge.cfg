SPECIFICATION Spec
INVARIANT JudgeWithinSpec
