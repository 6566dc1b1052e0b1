SPECIFICATION FairSpec
CONSTANTS
    s1 = s1
    s2 = s2
    w1 = w1
    w2 = w2
    q1 = q1
    web = web
    worker1 = worker1
    worker2 = worker2
    None = None
    Submissions = {s1}
    McqOnly = {}
    Workers = {w1}
    Requests = {}
    Clients = {c1}
    Processes = {worker1}
    Host <- MCHost
    Jobs <- MCJobs2
    Fences <- MCFences4
    MaxAttempts = 2
    MaxFaults = 1
    UseRunbook = FALSE
PROPERTY
    JobsSettle
CHECK_DEADLOCK FALSE
