------------------------ MODULE AssessmentVerdict ------------------------
(***************************************************************************)
(* What automatic assessment promises a participant, with no jobs, locks,  *)
(* leases, retries or crashes in sight: a submission is judged at most     *)
(* once, the judgement is never revised by the machine, and the            *)
(* consequences of a judgement that needs no human (the result             *)
(* notification and the course-completion check) are queued at most once   *)
(* and never before the judgement exists.                                  *)
(*                                                                         *)
(* AssessmentJobs implements this specification.                           *)
(***************************************************************************)
CONSTANT Submissions

VARIABLES
    verdict,     \* per submission: no verdict, a final one, or one sent to manual review
    announced    \* per submission: the outbox rows its verdict caused

vars == <<verdict, announced>>

Consequences == {"assessmentNotification", "courseCompletionCheck"}

Init ==
    /\ verdict = [s \in Submissions |-> "none"]
    /\ announced = [s \in Submissions |-> {}]

Judge(s) ==
    /\ verdict[s] = "none"
    /\ \E v \in {"final", "review"} : verdict' = [verdict EXCEPT ![s] = v]
    /\ UNCHANGED announced

\* The completion check always goes out; the notification is left out when
\* the participant is waiting for the verdict on screen.
Announce(s) ==
    /\ verdict[s] = "final"
    /\ announced[s] = {}
    /\ \E rows \in SUBSET Consequences :
          /\ "courseCompletionCheck" \in rows
          /\ announced' = [announced EXCEPT ![s] = rows]
    /\ UNCHANGED verdict

Next == \E s \in Submissions : Judge(s) \/ Announce(s)

Spec == Init /\ [][Next]_vars
=============================================================================
