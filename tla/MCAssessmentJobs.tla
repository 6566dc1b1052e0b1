------------------------ MODULE MCAssessmentJobs ------------------------
EXTENDS AssessmentJobs

CONSTANTS w1, w2, q1, s1, s2, worker1, worker2, web

HostMap == [r \in {w1, w2, q1} |->
               CASE r = w1 -> worker1 [] r = w2 -> worker2 [] OTHER -> web]
MCHost == [r \in Runners |-> HostMap[r]]
MCJobs1 == 1..1
MCJobs2 == 1..2
MCFences2 == 1..2
MCFences3 == 1..3
MCFences4 == 1..4
=============================================================================
