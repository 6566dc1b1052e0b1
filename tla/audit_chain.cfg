SPECIFICATION Spec
CONSTANTS
    Actors = {a1, a2}
    Legacy = 2
    MaxSeq = 4
    None = None
    a1 = a1
    a2 = a2
SYMMETRY SymActors
INVARIANTS
    NoBranch
    BreaksAreGaps
    MismatchesAreScrubs
CHECK_DEADLOCK FALSE
