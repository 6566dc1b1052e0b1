SPECIFICATION Spec
CONSTANTS
    s1 = s1
    s2 = s2
    w1 = w1
    w2 = w2
    q1 = q1
    web = web
    worker1 = worker1
    worker2 = worker2
    None = None
    Submissions = {s1, s2}
    McqOnly = {s1}
    Workers = {w1}
    Requests = {q1}
    Clients = {c1}
    Processes = {worker1, web}
    Host <- MCHost
    Jobs <- MCJobs2
    Fences <- MCFences2
    MaxAttempts = 2
    MaxFaults = 0
    UseRunbook = TRUE
INVARIANTS
    OneVerdict
    CheckStaysFresh
    SucceededHasVerdict
    EffectsOnce
PROPERTIES
    PromiseKept
    OnlyBlindWritesStrand
    OnlyBlindWritesRevive
CHECK_DEADLOCK FALSE
