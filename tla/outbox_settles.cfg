SPECIFICATION FairSpec
CONSTANTS
    Mails = {m}
    Checks = {c}
    Workers = {w1}
    MaxAttempts = 2
    MaxFaults = 1
    None = None
    m = m
    c = c
    w1 = w1
PROPERTIES
    EventsSettle
CHECK_DEADLOCK FALSE
