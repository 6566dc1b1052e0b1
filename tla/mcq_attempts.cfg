SPECIFICATION Spec
CONSTANTS
    Starts = {s1, s2}
    Submits = {p1, p2, p3}
    Runs = {u1}
    Questions = {q1, q2}
    MaxFaults = 2
    None = None
    p1 = p1
    p2 = p2
    p3 = p3
    q1 = q1
    q2 = q2
    s1 = s1
    s2 = s2
    u1 = u1
    Answered <- Sheets
SYMMETRY Alike
INVARIANTS
    ScoreIsOfItsResponses
    OneAttemptIsSafe
    AnswersInHand
PROPERTIES
    CompletedStays
CHECK_DEADLOCK FALSE
