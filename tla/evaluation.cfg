SPECIFICATION Spec
CONSTANTS
    RubricMax = 20
    PracticalMax = 70
    McqMax = 30
    TotalMin = 70
    BelowMin = 10
    GreenYellow = None
    YellowRed = 5
    AskTriggers = TRUE
    PracticalDelta = 8
    RubricDelta = 3
    MismatchCounts = TRUE
    ScopePercent = 50
    Cases <- Submitted
    Results <- Answers
    MaxAttempts = 2
    None = None
INVARIANTS
    HumanIsHeard
    LoneFailsAreClear
    BetterIsNotWorse
CHECK_DEADLOCK FALSE
