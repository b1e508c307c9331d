SPECIFICATION Spec
INVARIANTS
    FileHoldsFirstCandidates
