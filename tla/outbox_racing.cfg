SPECIFICATION Spec
CONSTANTS
    Mails = {m}
    Checks = {c}
    Workers = {w1, w2}
    MaxAttempts = 2
    MaxFaults = 1
    None = None
    m = m
    c = c
    w1 = w1
    w2 = w2
SYMMETRY SymWorkers
INVARIANTS
    DeliveredIsDone
    DuplicatesNeedFaults
    TriesBounded
PROPERTIES
    EndedStaysEnded
CHECK_DEADLOCK FALSE
