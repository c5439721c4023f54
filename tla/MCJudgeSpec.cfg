SPECIFICATION Spec
INVARIANT JudgeMatchesSpec
