------------------------- MODULE AssessmentJobs -------------------------
(***************************************************************************)
(* The assessment job queue: rows of AssessmentJob claimed under a lease   *)
(* by the assessment workers and by requests that grade while the          *)
(* participant waits, the assessment runs those claims start, the stale    *)
(* lock scanner, and the outbox rows a verdict causes.                     *)
(*                                                                         *)
(* One step per statement that reads or writes the database.  A run that   *)
(* overstays its deadline is not cancelled: its runner goes on without it  *)
(* and the run keeps executing in the background, so runs are modelled as  *)
(* processes of their own.                                                 *)
(***************************************************************************)
EXTENDS Integers, FiniteSets

CONSTANTS
    Submissions,    \* submission rows
    McqOnly,        \* the submissions whose module version is MCQ_ONLY
    Workers,        \* one AssessmentWorker poll loop each
    Requests,       \* HTTP requests that grade synchronously
    Clients,        \* callers of enqueueAssessmentJob
    Processes,      \* operating system processes
    Host,           \* the process each worker and request lives in
    Jobs,           \* job ids, in order of createdAt
    Fences,         \* lock acquisitions: a fence is the (lockedBy, lockedAt) one of them wrote
    MaxAttempts,    \* ASSESSMENT_JOB_MAX_ATTEMPTS
    MaxFaults,      \* bound: crashes and database errors that hit a runner
    UseRunbook,     \* whether operators re-queue failed jobs with the runbook's SQL
    None            \* neither a submission nor a runner

Runners == Workers \cup Requests
NoJob == 0
NoFence == 0

ASSUME JobsAssumption ==
    /\ Jobs \subseteq Nat \ {NoJob}
    /\ Fences \subseteq Nat \ {NoFence}
    /\ MaxAttempts \in Nat \ {0}
    /\ MaxFaults \in Nat
    /\ UseRunbook \in BOOLEAN
    /\ None \notin Submissions \cup Runners
    /\ McqOnly \subseteq Submissions
    /\ Workers \cap Requests = {}
    /\ Host \in [Runners -> Processes]

VARIABLES
    job,         \* AssessmentJob rows
    run,         \* executions of runAssessment, one per lock acquisition
    runner,      \* processNextJob and its callers
    client,      \* enqueueAssessmentJob between its lookup and its create
    status,      \* Submission.submissionStatus
    decisions,   \* AssessmentDecision rows of type AUTOMATIC
    outbox,      \* OutboxEvent rows
    answered,    \* submissions a waiting request was told the assessment of is complete
    lastJob, lastFence, faults

jobVars == <<job, lastJob>>
vars == <<job, run, runner, client, status, decisions, outbox, answered,
          lastJob, lastFence, faults>>

------------------------------------------------------------------------------
JobStatus == {"ABSENT", "PENDING", "RUNNING", "SUCCEEDED", "FAILED"}
ActiveStatus == {"PENDING", "RUNNING"}
SubmissionStatus == {"SUBMITTED", "PROCESSING", "UNDER_REVIEW", "COMPLETED"}

\* A lease is running, has passed its leaseExpiresAt, or is not set.
Lease == {"none", "live", "lapsed"}

RunPc == {"unborn", "check", "mark", "decide", "effects", "done", "gone"}
RunnerPc == {"idle", "cycle", "reset", "find", "lock", "await", "catch", "retry", "fail"}
EventType == {"assessmentNotification", "courseCompletionCheck"}

StaleEntry == [job : Jobs, outcome : {"PENDING", "FAILED"}]
Decision == [sub : Submissions, run : Fences, kind : {"final", "review"}]
OutboxRow == [sub : Submissions, run : Fences, type : EventType]
JobRow == [sub : Submissions \cup {None}, status : JobStatus, attempts : Nat,
           fence : Fences \cup {NoFence}, lease : Lease, available : {"now", "later"}]
Run == [pc : RunPc, job : Jobs \cup {NoJob}, by : Runners \cup {None}]
Runner == [pc : RunnerPc, sub : Submissions \cup {None}, stale : SUBSET StaleEntry,
           cand : Jobs \cup {NoJob}, run : Fences \cup {NoFence}]

NoRow == [sub |-> None, status |-> "ABSENT", attempts |-> 0,
          fence |-> NoFence, lease |-> "none", available |-> "now"]

Idle == [pc |-> "idle", sub |-> None, stale |-> {}, cand |-> NoJob, run |-> NoFence]

\* A worker polls for ever; a request comes and goes.
Start(r) == IF r \in Workers THEN [Idle EXCEPT !.pc = "cycle"] ELSE Idle

------------------------------------------------------------------------------
Active(s) == {j \in Jobs : job[j].sub = s /\ job[j].status \in ActiveStatus}

\* Mutants of the definitions below, one plausible bug each.
HoldsByJobId(f) == job[run[f].job].status = "RUNNING"
StaleWhilePending(j) == job[j].status = "PENDING" /\ job[j].lease = "lapsed"
RetryLeftOffByOne(j) == job[j].attempts <= MaxAttempts
SeesCompleted(f) == status[job[run[f].job].sub] = "COMPLETED"
SeesNothing(f) == FALSE
HoldsAnyhow(f) == TRUE
ReturnedOrThrew(f) == run[f].pc \in {"done", "gone"}
AlwaysEffects(kind) == "effects"

\* The fence: the row is RUNNING under the very lock this run was started by.
Holds(f) ==
    LET row == job[run[f].job] IN row.status = "RUNNING" /\ row.fence = f

SubOf(f) == job[run[f].job].sub

Decided(s) == \E d \in decisions : d.sub = s

\* processNextJob returned: back to the poll loop, or to the waiting request.
Rest(r) == [Idle EXCEPT !.pc = "cycle", !.sub = runner[r].sub]

\* The partial unique index: one active job per submission.
IndexAllows(j) == Active(job[j].sub) \ {j} = {}

\* The row the scanner picks: RUNNING with an expired lease.
Stale(j) == job[j].status = "RUNNING" /\ job[j].lease = "lapsed"

RetryLeft(j) == job[j].attempts < MaxAttempts

\* What the scanner makes of a stale row.
ResetStatus(j) == IF RetryLeft(j) THEN "PENDING" ELSE "FAILED"

\* The predicate for "already judged" is the verdict, not the status.
SeesVerdict(f) == Decided(SubOf(f))

\* runAssessment returned without throwing.
Returned(f) == run[f].pc = "done"

\* A verdict that needs a human has no consequences yet.
AfterVerdict(kind) == IF kind = "review" THEN "done" ELSE "effects"

OnlyRunner == UNCHANGED <<job, run, client, status, decisions, outbox, answered,
                          lastJob, lastFence, faults>>
OnlyJob == UNCHANGED <<run, runner, client, status, decisions, outbox, answered,
                       lastJob, lastFence, faults>>
OnlyRunnerAndJob == UNCHANGED <<run, client, status, decisions, outbox, answered,
                                lastJob, lastFence, faults>>
OutsideRun == UNCHANGED <<runner, client, answered, lastJob, lastFence, faults>>

------------------------------------------------------------------------------
Init ==
    /\ job = [j \in Jobs |-> NoRow]
    /\ run = [f \in Fences |-> [pc |-> "unborn", job |-> NoJob, by |-> None]]
    /\ runner = [r \in Runners |-> Start(r)]
    /\ client = [c \in Clients |-> None]
    /\ status = [s \in Submissions |-> "SUBMITTED"]
    /\ decisions = {}
    /\ outbox = {}
    /\ answered = {}
    /\ lastJob = 0
    /\ lastFence = 0
    /\ faults = 0

------------------------------------------------------------------------------
(* enqueueAssessmentJob: POST /assessments/:id/run and the MCQ submit.      *)

\* The caller's guards and the lookup for an active job both pass.
EnqueueRead(c, s) ==
    /\ client[c] = None
    /\ ~Decided(s)
    /\ status[s] # "UNDER_REVIEW"
    /\ Active(s) = {}
    /\ client' = [client EXCEPT ![c] = s]
    /\ UNCHANGED <<job, run, runner, status, decisions, outbox, answered,
                   lastJob, lastFence, faults>>

\* The create, unless the index finds that a concurrent enqueue won.
EnqueueCreate(c) ==
    /\ client[c] # None
    /\ \/ /\ Active(client[c]) = {}
          /\ lastJob + 1 \in Jobs
          /\ lastJob' = lastJob + 1
          /\ job' = [job EXCEPT ![lastJob + 1] =
                        [NoRow EXCEPT !.sub = client[c], !.status = "PENDING", !.available = "now"]]
       \/ /\ Active(client[c]) # {}
          /\ UNCHANGED jobVars
    /\ client' = [client EXCEPT ![c] = None]
    /\ UNCHANGED <<run, runner, status, decisions, outbox, answered, lastFence, faults>>

------------------------------------------------------------------------------
(* processSubmissionJobNow: a request drives the queue for one submission.  *)

SyncStart(r, s) ==
    /\ r \in Requests
    /\ runner[r].pc = "idle"
    /\ \E j \in Jobs : job[j].sub = s
    /\ runner' = [runner EXCEPT ![r] = [Idle EXCEPT !.pc = "cycle", !.sub = s]]
    /\ OnlyRunner

\* No active job is left: the response says that the assessment is complete.
SyncReturn(r) ==
    /\ r \in Requests
    /\ runner[r].pc = "cycle"
    /\ Active(runner[r].sub) = {}
    /\ answered' = answered \cup {runner[r].sub}
    /\ runner' = [runner EXCEPT ![r] = Idle]
    /\ UNCHANGED <<job, run, client, status, decisions, outbox,
                   lastJob, lastFence, faults>>

\* maxCycles rounds went by; the job is left to the workers.
SyncGiveUp(r) ==
    /\ r \in Requests
    /\ runner[r].pc = "cycle"
    /\ Active(runner[r].sub) # {}
    /\ runner' = [runner EXCEPT ![r] = Idle]
    /\ OnlyRunner

------------------------------------------------------------------------------
(* processNextJob, and scanAndResetStaleJobs at its head.                   *)

\* Read the RUNNING jobs whose lease has expired, with their attempts.
Scan(r) ==
    /\ runner[r].pc = "cycle"
    /\ r \in Requests => Active(runner[r].sub) # {}
    /\ LET stale == {[job |-> j, outcome |-> ResetStatus(j)] : j \in {k \in Jobs : Stale(k)}}
       IN runner' = [runner EXCEPT ![r].stale = stale,
                                   ![r].pc = IF stale = {} THEN "find" ELSE "reset"]
    /\ OnlyRunner

\* Write one of them back by id alone, with the outcome decided at the read.
ResetStale(r) ==
    /\ runner[r].pc = "reset"
    /\ \E e \in runner[r].stale :
          LET left == runner[r].stale \ {e}
          IN /\ e.outcome = "PENDING" => IndexAllows(e.job)
             /\ job' = [job EXCEPT ![e.job] =
                           [@ EXCEPT !.status = e.outcome, !.fence = NoFence,
                                     !.lease = "none", !.available = "now"]]
             /\ runner' = [runner EXCEPT ![r].stale = left,
                                         ![r].pc = IF left = {} THEN "find" ELSE "reset"]
    /\ OnlyRunnerAndJob

\* The index rejects the write; the exception leaves processNextJob.
ResetRejected(r) ==
    /\ runner[r].pc = "reset"
    /\ \E e \in runner[r].stale : e.outcome = "PENDING" /\ ~IndexAllows(e.job)
    /\ runner' = [runner EXCEPT ![r] = Start(r)]
    /\ OnlyRunner

\* The oldest runnable job, of the request's submission if it is a request.
FindRunnable(r) ==
    /\ runner[r].pc = "find"
    /\ LET runnable == {j \in Jobs : /\ job[j].status = "PENDING"
                                     /\ job[j].available = "now"
                                     /\ RetryLeft(j)
                                     /\ r \in Requests => job[j].sub = runner[r].sub}
       IN \/ /\ runnable = {}
             /\ runner' = [runner EXCEPT ![r] = Rest(r)]
          \/ \E j \in runnable :
                /\ \A k \in runnable : j <= k
                /\ runner' = [runner EXCEPT ![r].cand = j, ![r].pc = "lock"]
    /\ OnlyRunner

\* tryLockPendingJob, and the run it starts.
Lock(r) ==
    /\ runner[r].pc = "lock"
    /\ job[runner[r].cand].status = "PENDING"
    /\ lastFence + 1 \in Fences
    /\ lastFence' = lastFence + 1
    /\ job' = [job EXCEPT ![runner[r].cand] =
                  [@ EXCEPT !.status = "RUNNING",
                            !.attempts = job[runner[r].cand].attempts + 1,
                            !.fence = lastFence + 1, !.lease = "live"]]
    /\ run' = [run EXCEPT ![lastFence + 1] =
                  [pc |-> "check", job |-> runner[r].cand, by |-> r]]
    /\ runner' = [runner EXCEPT ![r].pc = "await", ![r].run = lastFence + 1]
    /\ UNCHANGED <<client, status, decisions, outbox, answered, lastJob, faults>>

\* Another runner was faster.
LockLost(r) ==
    /\ runner[r].pc = "lock"
    /\ job[runner[r].cand].status # "PENDING"
    /\ runner' = [runner EXCEPT ![r] = Rest(r)]
    /\ OnlyRunner

\* The run returned in time: markJobSucceeded, which does nothing without the fence.
MarkSucceeded(r) ==
    /\ runner[r].pc = "await"
    /\ Returned(runner[r].run)
    /\ job' = IF Holds(runner[r].run)
              THEN [job EXCEPT ![run[runner[r].run].job] =
                       [@ EXCEPT !.status = "SUCCEEDED", !.lease = "none"]]
              ELSE job
    /\ runner' = [runner EXCEPT ![r] = Rest(r)]
    /\ OnlyRunnerAndJob

\* The run threw, or is abandoned at the deadline, or markJobSucceeded threw.
AwaitFails(r) ==
    /\ runner[r].pc = "await"
    /\ runner' = [runner EXCEPT ![r].pc = "catch"]
    /\ OnlyRunner

\* The failure path reads the row again to see whether a retry is left.
CatchRead(r) ==
    /\ runner[r].pc = "catch"
    /\ runner' = [runner EXCEPT ![r].pc =
                     IF RetryLeft(run[runner[r].run].job) THEN "retry" ELSE "fail"]
    /\ OnlyRunner

\* markJobForRetryOrFailure, fenced too: the lock columns stay, the lease goes.
Retry(r) ==
    /\ runner[r].pc = "retry"
    /\ job' = IF Holds(runner[r].run)
              THEN [job EXCEPT ![run[runner[r].run].job] =
                       [@ EXCEPT !.status = "PENDING", !.available = "later", !.lease = "none"]]
              ELSE job
    /\ runner' = [runner EXCEPT ![r] = Rest(r)]
    /\ OnlyRunnerAndJob

Fail(r) ==
    /\ runner[r].pc = "fail"
    /\ job' = IF Holds(runner[r].run)
              THEN [job EXCEPT ![run[runner[r].run].job] =
                       [@ EXCEPT !.status = "FAILED", !.lease = "none"]]
              ELSE job
    /\ runner' = [runner EXCEPT ![r] = Rest(r)]
    /\ OnlyRunnerAndJob

\* The heartbeat, from the claim until the runner is through with the job.
RenewLease(r) ==
    /\ runner[r].pc \in {"await", "catch", "retry", "fail"}
    /\ Holds(runner[r].run)
    /\ job[run[runner[r].run].job].lease = "lapsed"
    /\ job' = [job EXCEPT ![run[runner[r].run].job].lease = "live"]
    /\ OnlyJob

------------------------------------------------------------------------------
(* runAssessment                                                            *)

\* Load the job and look for a verdict; one that exists ends the run in peace.
CheckDecision(f) ==
    /\ run[f].pc = "check"
    /\ run' = [run EXCEPT ![f].pc = IF SeesVerdict(f) THEN "done" ELSE "mark"]
    /\ UNCHANGED <<job, status, decisions, outbox>>
    /\ OutsideRun

MarkProcessing(f) ==
    /\ run[f].pc = "mark"
    /\ status' = [status EXCEPT ![SubOf(f)] = "PROCESSING"]
    /\ run' = [run EXCEPT ![f].pc = "decide"]
    /\ UNCHANGED <<job, decisions, outbox>>
    /\ OutsideRun

\* createAssessmentDecision and createMcqOnlyDecision: claimDecisionWrite locks
\* the job row, so the fence holds until the transaction commits.
Decide(f) ==
    /\ run[f].pc = "decide"
    /\ Holds(f)
    /\ \E kind \in {"final", "review"} :
          /\ SubOf(f) \in McqOnly => kind = "final"
          /\ decisions' = decisions \cup {[sub |-> SubOf(f), run |-> f, kind |-> kind]}
          /\ status' = [status EXCEPT ![SubOf(f)] =
                           IF kind = "review" THEN "UNDER_REVIEW" ELSE "COMPLETED"]
          /\ run' = [run EXCEPT ![f].pc = AfterVerdict(kind)]
    /\ UNCHANGED <<job, outbox>>
    /\ OutsideRun

\* enqueuePostDecisionSideEffects: one createMany, after the verdict committed.
EnqueueEffects(f) ==
    /\ run[f].pc = "effects"
    /\ LET shown == SubOf(f) \in McqOnly /\ run[f].by \in Requests
           types == IF shown THEN EventType \ {"assessmentNotification"} ELSE EventType
       IN outbox' = outbox \cup {[sub |-> SubOf(f), run |-> f, type |-> t] : t \in types}
    /\ run' = [run EXCEPT ![f].pc = "done"]
    /\ UNCHANGED <<job, status, decisions>>
    /\ OutsideRun

\* The run throws: no MCQ result, the LLM, the database, or the lost fence
\* that claimDecisionWrite reports.
RunFails(f) ==
    /\ run[f].pc \in {"check", "mark", "decide", "effects"}
    /\ run' = [run EXCEPT ![f].pc = "gone"]
    /\ UNCHANGED <<job, status, decisions, outbox>>
    /\ OutsideRun

------------------------------------------------------------------------------
(* Time, operators and failures.                                            *)

\* leaseExpiresAt passes.
LeaseLapses(j) ==
    /\ job[j].status = "RUNNING"
    /\ job[j].lease = "live"
    /\ job' = [job EXCEPT ![j].lease = "lapsed"]
    /\ OnlyJob

\* availableAt passes.
BackoffElapses(j) ==
    /\ job[j].status = "PENDING"
    /\ job[j].available = "later"
    /\ job' = [job EXCEPT ![j].available = "now"]
    /\ OnlyJob

\* The runbook's SQL for re-queueing a failed job.
OperatorRequeue(j) ==
    /\ UseRunbook
    /\ job[j].status = "FAILED"
    /\ IndexAllows(j)
    /\ job' = [job EXCEPT ![j] = [@ EXCEPT !.status = "PENDING", !.available = "now",
                                           !.fence = NoFence, !.lease = "none"]]
    /\ OnlyJob

\* A database call of the runner itself throws: a worker's tick swallows it, a
\* request answers with the job left in the queue.
RunnerThrows(r) ==
    /\ faults < MaxFaults
    /\ faults' = faults + 1
    /\ runner[r].pc \in {"cycle", "reset", "find", "lock", "catch", "retry", "fail"}
    /\ runner[r] # Start(r)
    /\ runner' = [runner EXCEPT ![r] = Start(r)]
    /\ UNCHANGED <<job, run, client, status, decisions, outbox, answered, lastJob, lastFence>>

\* A process dies with every loop, request and run in it, and is restarted.
Crash(p) ==
    /\ faults < MaxFaults
    /\ faults' = faults + 1
    /\ LET dead == {r \in Runners : Host[r] = p}
       IN /\ \E r \in dead : runner[r] # Start(r)
          /\ runner' = [r \in Runners |-> IF r \in dead THEN Start(r) ELSE runner[r]]
          /\ run' = [f \in Fences |->
                        IF run[f].by \in dead /\ run[f].pc \notin {"unborn", "done"}
                        THEN [run[f] EXCEPT !.pc = "gone"] ELSE run[f]]
    /\ UNCHANGED <<job, client, status, decisions, outbox, answered, lastJob, lastFence>>

------------------------------------------------------------------------------
RunnerStep(r) ==
    \/ SyncReturn(r) \/ SyncGiveUp(r)
    \/ Scan(r) \/ ResetStale(r) \/ ResetRejected(r) \/ FindRunnable(r)
    \/ Lock(r) \/ LockLost(r) \/ MarkSucceeded(r) \/ AwaitFails(r)
    \/ CatchRead(r) \/ Retry(r) \/ Fail(r) \/ RenewLease(r) \/ RunnerThrows(r)

RunStep(f) ==
    \/ CheckDecision(f) \/ MarkProcessing(f) \/ Decide(f)
    \/ EnqueueEffects(f) \/ RunFails(f)

Next ==
    \/ \E c \in Clients : EnqueueCreate(c) \/ \E s \in Submissions : EnqueueRead(c, s)
    \/ \E r \in Runners : RunnerStep(r) \/ \E s \in Submissions : SyncStart(r, s)
    \/ \E f \in Fences : RunStep(f)
    \/ \E j \in Jobs : LeaseLapses(j) \/ BackoffElapses(j) \/ OperatorRequeue(j)
    \/ \E p \in Processes : Crash(p)

Spec == Init /\ [][Next]_vars

\* Timers and poll loops are fair.  A run is not: it may hang in a call, and
\* the deadline gets its runner out.  A lease nobody renews runs out.
Renewed(j) == \E r \in Runners : /\ runner[r].pc \in {"await", "catch", "retry", "fail"}
                                 /\ Holds(runner[r].run)
                                 /\ run[runner[r].run].job = j

OrphanLapses(j) == LeaseLapses(j) /\ ~Renewed(j)

Fairness ==
    /\ \A r \in Runners :
          /\ WF_vars(Scan(r)) /\ WF_vars(ResetStale(r) \/ ResetRejected(r))
          /\ WF_vars(FindRunnable(r)) /\ WF_vars(Lock(r) \/ LockLost(r))
          /\ WF_vars(AwaitFails(r)) /\ WF_vars(CatchRead(r)) /\ WF_vars(Retry(r) \/ Fail(r))
    /\ \A j \in Jobs : WF_vars(OrphanLapses(j)) /\ WF_vars(BackoffElapses(j))

FairSpec == Spec /\ Fairness

------------------------------------------------------------------------------
(* Properties                                                               *)

TypeOK ==
    /\ job \in [Jobs -> JobRow]
    /\ run \in [Fences -> Run]
    /\ runner \in [Runners -> Runner]
    /\ client \in [Clients -> Submissions \cup {None}]
    /\ status \in [Submissions -> SubmissionStatus]
    /\ decisions \subseteq Decision
    /\ outbox \subseteq OutboxRow
    /\ answered \subseteq Submissions
    /\ lastJob \in Nat /\ lastFence \in Nat /\ faults \in Nat

\* A submission never gets two automatic verdicts, whatever is abandoned,
\* retried, reset from under its runner or queued again (#953).
OneVerdict == \A d, e \in decisions : d.sub = e.sub => d = e

\* What a run read when it looked for a verdict is still true while it holds
\* its fence: the look-up cannot go stale under the lock.
CheckStaysFresh ==
    \A f \in Fences : run[f].pc \in {"mark", "decide"} /\ Holds(f) => ~Decided(SubOf(f))

\* A job is reported SUCCEEDED only when its submission has a verdict.
SucceededHasVerdict ==
    \A j \in Jobs : job[j].status = "SUCCEEDED" => Decided(job[j].sub)

\* A participant gets one result notification at most, and a verdict that went
\* to manual review causes neither a notification nor a completion check.
EffectsOnce ==
    /\ \A x, y \in outbox : x.sub = y.sub /\ x.type = y.type => x = y
    /\ \A x \in outbox, d \in decisions : x.sub = d.sub => d.kind = "final"

\* Two writes to a row look at its id alone, or as good as that: the reset of a
\* job that has been settled, or locked once more, since the scan that found it
\* stale, and the runbook's SQL.
Outdated(e) == job[e.job].status # "RUNNING" \/ e.outcome # ResetStatus(e.job)
WrittenBlindly(j) ==
    \/ OperatorRequeue(j)
    \/ \E r \in Runners : \E e \in runner[r].stale :
          e.job = j /\ Outdated(e) /\ runner'[r].stale = runner[r].stale \ {e}

\* A job that waits with no attempt left is passed by for ever (FindRunnable).
Stranded(j) == job[j].status = "PENDING" /\ job[j].attempts >= MaxAttempts

\* However many workers, requests and scanners race, nothing but these two
\* writes strands a job: the retry that was left when the failure path looked
\* is left when it writes, or the fence is lost (markJobForRetryOrFailure).
OnlyBlindWritesStrand ==
    [][\A j \in Jobs : Stranded(j)' => Stranded(j) \/ WrittenBlindly(j)]_vars

\* Nor does anything else touch a job that has ended: a runner that comes late
\* with its own result finds its fence gone.
OnlyBlindWritesRevive ==
    [][\A j \in Jobs : job[j].status \in {"SUCCEEDED", "FAILED"} =>
           job'[j].status = job[j].status \/ WrittenBlindly(j)]_vars

\* A queued job comes to an end.
JobsSettle ==
    \A j \in Jobs : job[j].status \in ActiveStatus ~>
                        job[j].status \in {"SUCCEEDED", "FAILED"}

\* The queue implements the promise of AssessmentVerdict.
VerdictOf(s) ==
    IF ~Decided(s) THEN "none"
    ELSE (CHOOSE d \in decisions : d.sub = s).kind

Promise == INSTANCE AssessmentVerdict WITH
    verdict <- [s \in Submissions |-> VerdictOf(s)],
    announced <- [s \in Submissions |-> {x.type : x \in {y \in outbox : y.sub = s}}]

PromiseKept == Promise!Spec
------------------------------------------------------------------------------
(* Statements of comments and docs that the code does not keep: TLC refutes *)
(* each under the configuration README.md gives, so no run lists them.      *)

\* A submission with a verdict is not put back to PROCESSING (#953, demand 2).
DecidedNotReopened == \A s \in Submissions : Decided(s) => status[s] # "PROCESSING"

\* When a job has SUCCEEDED on a verdict that needs no human, the completion
\* check the verdict calls for is in the outbox (#795).
SucceededHasEffects ==
    \A j \in Jobs, d \in decisions :
        job[j].status = "SUCCEEDED" /\ d.sub = job[j].sub /\ d.kind = "final" =>
            \E x \in outbox : x.sub = d.sub /\ x.type = "courseCompletionCheck"

\* The notification is left out only for a participant who sees the verdict on
\* screen: a request that skipped it is still there to show it, or has.
SeenOrNotified ==
    \A x \in outbox :
        x.type = "courseCompletionCheck" =>
            \/ x.sub \in answered
            \/ \E y \in outbox : y.sub = x.sub /\ y.type = "assessmentNotification"
            \/ \E r \in Requests : runner[r].sub = x.sub

\* PENDING means runnable: a retry is left for every job that waits for one.
PendingIsRunnable == \A j \in Jobs : ~Stranded(j)

\* A request that is told the assessment is complete finds a verdict.
AnsweredHasVerdict == \A s \in answered : Decided(s)
=============================================================================
