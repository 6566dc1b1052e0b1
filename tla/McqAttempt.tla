------------------------------ MODULE McqAttempt ------------------------------
(***************************************************************************)
(* The multiple-choice part of one submission: requests that open an       *)
(* attempt, requests that hand one in, requests to run the assessment, and *)
(* the assessment job they compete with.                                   *)
(*                                                                         *)
(* Transactions run at READ COMMITTED: what an open one deleted, inserted  *)
(* or updated is seen by itself alone, and a statement that needs one of   *)
(* its rows waits.  A sheet of answers is known by the request that handed *)
(* it in.  The job runs one at a time here; its leases, fences and retries *)
(* are those of AssessmentJobs.                                            *)
(***************************************************************************)
EXTENDS Integers

CONSTANTS
    Starts,        \* requests to open an attempt
    Submits,       \* requests to hand one in
    Runs,          \* requests to run the assessment
    Questions,
    Answered,      \* per Submits: the questions its sheet answers
    MaxFaults,     \* bound: lost requests and failed runs of the job
    None

ASSUME McqAssumption ==
    /\ Answered \in [Submits -> SUBSET Questions]
    /\ MaxFaults \in Nat
    /\ None \notin Starts \cup Submits
    /\ Starts \cap Submits = {} /\ Starts \cap Runs = {} /\ Submits \cap Runs = {}

\* An attempt is known by the request that opened it.
Attempts == Starts
Requests == Starts \cup Submits \cup Runs

VARIABLES
    status,     \* Submission.submissionStatus; COMPLETED stands for every terminal one
    attempt,    \* MCQAttempt rows
    response,   \* MCQResponse per attempt and question: the sheet it is from
    latest,     \* the attempt with the highest completedAt
    decision,   \* the attempt the verdict was reached on
    job,        \* the submission's newest AssessmentJob
    judge,      \* the run of the job
    req,        \* the requests
    faults      \* how many of MaxFaults have happened

vars == <<status, attempt, response, latest, decision, job, judge, req, faults>>
rows == <<status, attempt, response, latest, decision>>

------------------------------------------------------------------------------
Status == {"SUBMITTED", "PROCESSING", "COMPLETED"}
Terminal == {"COMPLETED"}
Attempt == [state : {"none", "open", "completed"}, score : Submits \cup {None}]
Judge == [pc : {"idle", "mark", "decide", "end", "throw"}, on : Attempts \cup {None}]

\* seen: the status it read.  on: the attempt it is about.  deleted, inserted,
\* completed: what its open transaction did.  after: the attempt that was
\* completed last when it took its completedAt.
Request == [pc : {"new", "look", "create", "deleting", "inserting", "completing",
                  "committing", "enqueue", "done"},
            seen : Status, on : Attempts \cup {None},
            deleted : SUBSET Questions, inserted : SUBSET Questions, completed : BOOLEAN,
            after : Attempts \cup {None}]

NewRequest == [pc |-> "new", seen |-> "SUBMITTED", on |-> None,
               deleted |-> {}, inserted |-> {}, completed |-> FALSE, after |-> None]
Blank == [q \in Questions |-> None]

Opened == {a \in Attempts : attempt[a].state # "none"}
Open == {a \in Attempts : attempt[a].state = "open"}
Stored(a) == {q \in Questions : response[a][q] # None}

Fault == faults < MaxFaults /\ faults' = faults + 1

------------------------------------------------------------------------------
\* Mutants of the definitions below, one plausible bug each.
CompletesAnyhow(r) == TRUE
CompletesAtOnce(r) == TRUE
SwallowsTheError(outcome) == job' = "none" /\ judge' = [pc |-> "idle", on |-> None]

\* The others whose transaction is on the same attempt.
Rivals(r) == {s \in Submits \ {r} : req[s].on = req[r].on}

\* A row that an open transaction deleted, inserted or updated is waited for.
RowsFree(r, qs) == \A s \in Rivals(r) : (req[s].deleted \cup req[s].inserted) \cap qs = {}
CompletionFree(r) == \A s \in Submits \ {r} : ~req[s].completed
SubmissionFree == \A s \in Submits : ~req[s].completed

\* The status read at the start still allowed what the request is about to do.
MayGoOn(r) == req[r].seen \notin Terminal

\* The unique index on (mcqAttemptId, questionId).
IndexAllows(r) == Answered[r] \cap Stored(req[r].on) \subseteq req[r].deleted

\* completeAttemptGuarded: completedAt is still null.
StillOpen(r) == attempt[req[r].on].state = "open"

\* A job is PENDING or RUNNING.
ActiveJob == job \in {"pending", "running"}

\* There is no completed attempt to judge.
NothingToJudge == latest = None

------------------------------------------------------------------------------
Init ==
    /\ status = "SUBMITTED"
    /\ attempt = [a \in Attempts |-> [state |-> "none", score |-> None]]
    /\ response = [a \in Attempts |-> Blank]
    /\ latest = None /\ decision = None
    /\ job = "none"
    /\ judge = [pc |-> "idle", on |-> None]
    /\ req = [r \in Requests |-> NewRequest]
    /\ faults = 0

Goto(r, pc) == req' = [req EXCEPT ![r].pc = pc]

\* What an ended request did not commit is undone.
Finish(r) == req' = [req EXCEPT ![r] = [NewRequest EXCEPT !.pc = "done"]]

\* Every request starts with the submission.
ReadSubmission(r) ==
    /\ req[r].pc = "new"
    /\ req' = [req EXCEPT ![r].pc = IF r \in Runs THEN "enqueue" ELSE "look", ![r].seen = status]
    /\ r \in Runs => decision = None
    /\ UNCHANGED <<rows, job, judge, faults>>

------------------------------------------------------------------------------
(* startMcqAttempt *)

\* An open attempt is answered with; else one is opened, unless there is nothing
\* to open any more.
FindOpen(r) ==
    /\ r \in Starts /\ req[r].pc = "look"
    /\ IF MayGoOn(r) /\ Open = {} /\ req[r].seen # "PROCESSING" THEN Goto(r, "create") ELSE Finish(r)
    /\ UNCHANGED <<rows, job, judge, faults>>

CreateAttempt(r) ==
    /\ r \in Starts /\ req[r].pc = "create"
    /\ attempt' = [attempt EXCEPT ![r].state = "open"]
    /\ Finish(r)
    /\ UNCHANGED <<status, response, latest, decision, job, judge, faults>>

------------------------------------------------------------------------------
(* submitMcqAttempt *)

\* The attempt is one its client was told of.
ReadAttempt(r) ==
    /\ r \in Submits /\ req[r].pc = "look"
    /\ \E a \in Opened :
          IF MayGoOn(r) /\ attempt[a].state = "open"
          THEN req' = [req EXCEPT ![r].pc = "deleting", ![r].on = a]
          ELSE Finish(r)
    /\ UNCHANGED <<rows, job, judge, faults>>

DeleteResponses(r) ==
    /\ r \in Submits /\ req[r].pc = "deleting"
    /\ LET qs == Stored(req[r].on)
       IN RowsFree(r, qs) /\ req' = [req EXCEPT ![r].pc = "inserting", ![r].deleted = qs]
    /\ UNCHANGED <<rows, job, judge, faults>>

\* The clock is read when they are in, before the row that keeps the time is
\* waited for.
CreateResponses(r) ==
    /\ r \in Submits /\ req[r].pc = "inserting"
    /\ RowsFree(r, Answered[r])
    /\ IF IndexAllows(r)
       THEN req' = [req EXCEPT ![r].pc = "completing", ![r].inserted = Answered[r], ![r].after = latest]
       ELSE Finish(r)
    /\ UNCHANGED <<rows, job, judge, faults>>

\* Nobody completed it before, or everything is rolled back.
CompleteAttempt(r) ==
    /\ r \in Submits /\ req[r].pc = "completing"
    /\ CompletionFree(r)
    /\ IF StillOpen(r)
       THEN req' = [req EXCEPT ![r].pc = "committing", ![r].completed = TRUE]
       ELSE Finish(r)
    /\ UNCHANGED <<rows, job, judge, faults>>

\* An attempt that was completed since r read its clock may bear the later time.
CompletedLast(r) ==
    IF req[r].after = latest THEN {req[r].on} ELSE {req[r].on, latest} \ {None}

\* The submission's status, written unguarded, and the rest become visible.
Commit(r) ==
    /\ r \in Submits /\ req[r].pc = "committing"
    /\ LET a == req[r].on
       IN /\ attempt' = [attempt EXCEPT ![a] = [state |-> "completed", score |-> r]]
          /\ response' = [response EXCEPT ![a] =
                [q \in Questions |-> IF q \in req[r].inserted THEN r
                                     ELSE IF q \in req[r].deleted THEN None ELSE @[q]]]
          /\ latest' \in CompletedLast(r)
    /\ status' = "PROCESSING"
    /\ req' = [req EXCEPT ![r] = [NewRequest EXCEPT !.pc = "enqueue"]]
    /\ UNCHANGED <<decision, job, judge, faults>>

\* enqueueAssessmentJob: the index lets one active job exist.
Enqueue(r) ==
    /\ req[r].pc = "enqueue"
    /\ job' = IF ActiveJob THEN job ELSE "pending"
    /\ Finish(r)
    /\ UNCHANGED <<rows, judge, faults>>

\* The request is lost, or a statement of it fails.
Lost(r) ==
    /\ req[r].pc \notin {"new", "done"}
    /\ Finish(r)
    /\ Fault
    /\ UNCHANGED <<rows, job, judge>>

------------------------------------------------------------------------------
(* The job: runAssessment. *)

JobEnds(outcome) == job' = outcome /\ judge' = [pc |-> "idle", on |-> None]

Take ==
    /\ job = "pending"
    /\ job' = "running"
    /\ UNCHANGED <<rows, judge, req, faults>>

\* It waits for the answers by failing, and leaves a decided submission alone.
Read ==
    /\ job = "running" /\ judge.pc = "idle"
    /\ judge' = [pc |-> IF NothingToJudge THEN "throw" ELSE IF decision # None THEN "end" ELSE "mark",
                 on |-> latest]
    /\ UNCHANGED <<rows, job, req, faults>>

Mark ==
    /\ judge.pc = "mark"
    /\ SubmissionFree
    /\ status' = "PROCESSING"
    /\ judge' = [judge EXCEPT !.pc = "decide"]
    /\ UNCHANGED <<attempt, response, latest, decision, job, req, faults>>

Decide ==
    /\ judge.pc = "decide"
    /\ SubmissionFree
    /\ decision' = judge.on
    /\ status' = "COMPLETED"
    /\ judge' = [judge EXCEPT !.pc = "end"]
    /\ UNCHANGED <<attempt, response, latest, job, req, faults>>

Succeed ==
    /\ judge.pc = "end"
    /\ JobEnds("none")
    /\ UNCHANGED <<rows, req, faults>>

\* Either an attempt is left to the job, or this was its last.
Throw ==
    /\ judge.pc = "throw"
    /\ \E outcome \in {"pending", "failed"} : JobEnds(outcome)
    /\ UNCHANGED <<rows, req, faults>>

RunFails ==
    /\ judge.pc \in {"mark", "decide", "end"}
    /\ judge' = [judge EXCEPT !.pc = "throw"]
    /\ Fault
    /\ UNCHANGED <<rows, job, req>>

Next ==
    \/ \E r \in Requests :
          \/ ReadSubmission(r) \/ FindOpen(r) \/ CreateAttempt(r)
          \/ ReadAttempt(r) \/ DeleteResponses(r) \/ CreateResponses(r)
          \/ CompleteAttempt(r) \/ Commit(r) \/ Enqueue(r) \/ Lost(r)
    \/ Take \/ Read \/ Mark \/ Decide \/ Succeed \/ Throw \/ RunFails

Spec == Init /\ [][Next]_vars

------------------------------------------------------------------------------
(* Properties. *)

\* Types.
TypeOK ==
    /\ status \in Status
    /\ attempt \in [Attempts -> Attempt]
    /\ response \in [Attempts -> [Questions -> Submits \cup {None}]]
    /\ latest \in Attempts \cup {None} /\ decision \in Attempts \cup {None}
    /\ job \in {"none", "pending", "running", "failed"}
    /\ judge \in Judge
    /\ req \in [Requests -> Request]
    /\ faults \in 0..MaxFaults
    /\ judge.pc # "idle" => job = "running"

\* The responses kept with an attempt are those its score was counted from, all
\* of them and no others, however many sheets were handed in for it at once.
ScoreIsOfItsResponses ==
    \A a \in Attempts :
        IF attempt[a].state = "completed"
        THEN response[a] = [q \in Questions |->
                              IF q \in Answered[attempt[a].score] THEN attempt[a].score ELSE None]
        ELSE response[a] = Blank

\* An attempt that was handed in is not handed in again.
CompletedStays ==
    [][\A a \in Attempts : attempt[a].state = "completed" =>
          attempt'[a] = attempt[a] /\ response'[a] = response[a]]_vars

\* A submission with a verdict is not put back to PROCESSING, and its verdict is
\* of the answers shown beside it: those of the attempt completed last.
VerdictStands == decision # None => status = "COMPLETED" /\ decision = latest

\* Only two attempts at once can undo that, which takes two racing starts.
OneAttemptIsSafe == (\A a, b \in Opened : a = b) => VerdictStands

\* What the check at the start of a submit is there for: no answers are taken for
\* a submission that has been assessed.
DecidedNotReopened == decision # None => status # "PROCESSING"

\* Answers that were handed in are on their way to a verdict: a job or a request
\* has them in hand, or the job has visibly FAILED, or something was lost.
AnswersInHand ==
    status = "PROCESSING" /\ decision = None =>
        \/ ActiveJob \/ \E r \in Submits : req[r].pc = "enqueue"
        \/ job = "failed" \/ faults > 0
==============================================================================
