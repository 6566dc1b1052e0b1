SPECIFICATION Spec
CONSTANTS
    Requests = {a1, a2, a3, b}
    Changed = {b}
    MaxFaults = 3
    None = None
    a1 = a1
    a2 = a2
    a3 = a3
    b = b
SYMMETRY Retries
INVARIANTS
    OneReservation
    RerunsAreExplained
    ReplaysAreTrue
CHECK_DEADLOCK FALSE
