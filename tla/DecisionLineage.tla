------------------------- MODULE DecisionLineage -------------------------
(***************************************************************************)
(* What happens to a submission after, and besides, its automatic verdict: *)
(* manual reviews, appeals, new attempts, the append-only lineage of its   *)
(* decisions and the certification status that follows from them.          *)
(*                                                                         *)
(* One participant and one module: retakes, the two queues and the         *)
(* certification row meet only within such a pair.  A request reads and    *)
(* checks before its transaction, and the transaction is open for a while: *)
(* it takes the row locks of its case and of its submission with its first *)
(* writes, reads the certification row, and becomes visible as a whole     *)
(* when it commits.  That the machine judges a submission at most once is  *)
(* the promise of AssessmentVerdict.                                       *)
(*                                                                         *)
(* A moment of the clock names the submission or decision stamped with it. *)
(***************************************************************************)
EXTENDS Integers, FiniteSets

CONSTANTS
    MaxClock,       \* bound: how many stamps the clock hands out
    Cases,          \* ids of manual reviews and appeals, in order of creation
    Requests,       \* concurrent HTTP requests and assessment runs
    People,         \* reviewers and appeal handlers
    Admins,         \* those of them with the role ADMINISTRATOR
    Nobody

Stamps == 1..MaxClock
Never == 0
NoCase == 0

ASSUME LineageAssumption ==
    /\ MaxClock \in Nat
    /\ Cases \subseteq Nat \ {NoCase}
    /\ Admins \subseteq People
    /\ Nobody \notin People

VARIABLES
    status,      \* Submission.submissionStatus; a submission is its submittedAt
    decisions,   \* AssessmentDecision rows; a decision is its finalisedAt
    case,        \* ManualReview and Appeal rows
    cert,        \* the CertificationStatus row
    outbox,      \* OutboxEvent rows that rulings cause
    request,     \* requests in flight
    lastCase, clock

vars == <<status, decisions, case, cert, outbox, request, lastCase, clock>>

------------------------------------------------------------------------------
SubmissionStatus == {"ABSENT", "SUBMITTED", "UNDER_REVIEW", "COMPLETED", "SUPERSEDED"}
CaseStatus == {"ABSENT", "OPEN", "IN_REVIEW", "RESOLVED", "SUPERSEDED"}
Live == {"OPEN", "IN_REVIEW"}

Moment == Stamps \cup {Never}
Kind == {"review", "appeal"}

\* The verdict of an automatic decision that a human must confirm is "review".
Decision == [at : Stamps, sub : Stamps, parent : Moment,
             verdict : {"pass", "fail", "review"}, case : Cases \cup {NoCase}]

CaseRow == [kind : Kind \cup {"none"}, sub : Moment, status : CaseStatus,
            handler : People \cup {Nobody}]

\* upsert: what the certification row read inside the transaction calls for.
Request == [pc : {"idle", "claim", "rule", "ruling", "notify", "judging",
                  "appeal", "reviews", "appeals"},
            by : People \cup {Nobody}, case : Cases \cup {NoCase}, sub : Moment,
            at : Moment, parent : Moment, verdict : {"none", "pass", "fail", "review"},
            upsert : {"write", "skip"}, found : SUBSET Cases]

Event == [decision : Stamps, type : {"courseCompletionCheck", "notification"}]

NoRow == [kind |-> "none", sub |-> Never, status |-> "ABSENT", handler |-> Nobody]
NoCert == [status |-> "NONE", decision |-> Never, passedAt |-> Never]
Idle == [pc |-> "idle", by |-> Nobody, case |-> NoCase, sub |-> Never, at |-> Never,
         parent |-> Never, verdict |-> "none", upsert |-> "write", found |-> {}]

------------------------------------------------------------------------------
Of(s) == {d \in decisions : d.sub = s}
Newest(ds) == CHOOSE d \in ds : \A e \in ds : e.at <= d.at

\* An open transaction has written the submission's status: the row is locked,
\* and with it the case it rules on.
Locked(s) == \E r \in Requests : request[r].pc \in {"ruling", "judging"} /\ request[r].sub = s

\* The stamp new Date() gives out next.
Now == clock + 1
Tick == Now \in Stamps /\ clock' = Now

\* Mutants of the definitions below, one plausible bug each.
UpsertAlways(s, verdict) == "write"
ParentForgotten(s) == Never
ParentOldest(s) == (CHOOSE d \in Of(s) : \A e \in Of(s) : d.at <= e.at).at
GuardedByHandler(p, c) == case[c].handler \in {Nobody, p} \/ p \in Admins
ClosedUnguarded(found) == found
CertifiedDue(at, verdict, upsert) ==
    [status |-> IF verdict = "pass" THEN "ACTIVE" ELSE "EXPIRED", decision |-> at, passedAt |-> at]

\* A case with somebody else: the check before the transaction.
ReviewTaken(p, c) == case[c].handler \notin {Nobody, p}
AppealTaken(p, c) == case[c].status = "IN_REVIEW" /\ case[c].handler \notin {Nobody, p}
Taken(p, c) == IF case[c].kind = "review" THEN ReviewTaken(p, c) ELSE AppealTaken(p, c)

\* The WHERE clause that guards a claim and a resolution.
Guarded(p, c) == case[c].status \in Live /\ (case[c].handler \in {Nobody, p} \/ p \in Admins)

\* A FAIL does not downgrade a pass that is younger than the failed submission.
Upsert(s, verdict) ==
    IF verdict = "fail" /\ cert.passedAt > s THEN "skip" ELSE "write"

Certified(at, verdict, upsert) ==
    IF upsert = "skip" THEN cert
    ELSE IF verdict = "pass" THEN [status |-> "ACTIVE", decision |-> at, passedAt |-> at]
    ELSE [status |-> "NOT_CERTIFIED", decision |-> at, passedAt |-> Never]

\* A ruling stands on the newest decision its request has seen.
ParentOf(s) == Newest(Of(s)).at

HasLiveAppeal(s) ==
    \E c \in Cases : case[c].kind = "appeal" /\ case[c].sub = s /\ case[c].status \in Live

\* The rows a new attempt closes: those it found that are live now.
Closed(found) == {c \in found : case[c].status \in Live}

\* The submissions of the reviews it found, whatever became of those.
Abandoned(found) == {case[c].sub : c \in {d \in found : case[d].kind = "review"}}

OnlyRequest == UNCHANGED <<status, decisions, case, cert, outbox, lastCase, clock>>

------------------------------------------------------------------------------
Init ==
    /\ status = [s \in Stamps |-> "ABSENT"]
    /\ decisions = {}
    /\ case = [c \in Cases |-> NoRow]
    /\ cert = NoCert
    /\ outbox = {}
    /\ request = [r \in Requests |-> Idle]
    /\ lastCase = 0
    /\ clock = 0

------------------------------------------------------------------------------
(* Claiming a case.                                                         *)

ClaimRead(r, p, c) ==
    /\ request[r].pc = "idle"
    /\ case[c].status \in Live
    /\ Taken(p, c) => p \in Admins
    /\ request' = [request EXCEPT ![r] = [Idle EXCEPT !.pc = "claim", !.by = p, !.case = c]]
    /\ OnlyRequest

\* The guarded update.
Claim(r) ==
    LET c == request[r].case  p == request[r].by
    IN /\ request[r].pc = "claim"
       /\ ~Locked(case[c].sub)
       /\ Guarded(p, c)
       /\ case' = [case EXCEPT ![c].status = "IN_REVIEW", ![c].handler = p]
       /\ request' = [request EXCEPT ![r] = Idle]
       /\ UNCHANGED <<status, decisions, cert, outbox, lastCase, clock>>

\* It updates no row: another request was faster.
ClaimRefused(r) ==
    LET c == request[r].case  p == request[r].by
    IN /\ request[r].pc = "claim"
       /\ ~Locked(case[c].sub)
       /\ ~Guarded(p, c)
       /\ request' = [request EXCEPT ![r] = Idle]
       /\ OnlyRequest

------------------------------------------------------------------------------
(* Ruling on a case: a review override or an appeal resolution.             *)

\* Before the transaction: the checks, the newest decision, the stamp.
RuleRead(r, p, c) ==
    /\ request[r].pc = "idle"
    /\ case[c].status \in Live
    /\ Taken(p, c) => p \in Admins
    /\ Tick
    /\ \E v \in {"pass", "fail"} :
          request' = [request EXCEPT ![r] =
              [Idle EXCEPT !.pc = "rule", !.by = p, !.case = c, !.sub = case[c].sub,
                           !.at = Now, !.parent = ParentOf(case[c].sub), !.verdict = v]]
    /\ UNCHANGED <<status, decisions, case, cert, outbox, lastCase>>

\* The transaction opens: the guarded update takes the case, the appended
\* decision and the status its submission; then the certification row is read.
RuleOpen(r) ==
    /\ request[r].pc = "rule"
    /\ ~Locked(request[r].sub)
    /\ Guarded(request[r].by, request[r].case)
    /\ request' = [request EXCEPT ![r].pc = "ruling",
                                  ![r].upsert = Upsert(request[r].sub, request[r].verdict)]
    /\ OnlyRequest

RuleRefused(r) ==
    /\ request[r].pc = "rule"
    /\ ~Locked(request[r].sub)
    /\ ~Guarded(request[r].by, request[r].case)
    /\ request' = [request EXCEPT ![r] = Idle]
    /\ OnlyRequest

RuleCommit(r) ==
    LET q == request[r]
    IN /\ q.pc = "ruling"
       /\ case' = [case EXCEPT ![q.case].status = "RESOLVED", ![q.case].handler = q.by]
       /\ decisions' = decisions \cup {[at |-> q.at, sub |-> q.sub, parent |-> q.parent,
                                        verdict |-> q.verdict, case |-> q.case]}
       /\ status' = [status EXCEPT ![q.sub] = "COMPLETED"]
       /\ cert' = Certified(q.at, q.verdict, q.upsert)
       /\ outbox' = outbox \cup {[decision |-> q.at, type |-> "courseCompletionCheck"]}
       /\ request' = [request EXCEPT ![r] = [Idle EXCEPT !.pc = "notify", !.at = q.at]]
       /\ UNCHANGED <<lastCase, clock>>

\* After the commit, best effort.
Notify(r) ==
    /\ request[r].pc = "notify"
    /\ outbox' = outbox \cup {[decision |-> request[r].at, type |-> "notification"]}
    /\ request' = [request EXCEPT ![r] = Idle]
    /\ UNCHANGED <<status, decisions, case, cert, lastCase, clock>>

------------------------------------------------------------------------------
(* The automatic verdict, once per submission.                              *)

JudgeOpen(r, s) ==
    /\ request[r].pc = "idle"
    /\ status[s] # "ABSENT"
    /\ Of(s) = {}
    /\ ~Locked(s)
    /\ Tick
    /\ \E v \in {"pass", "fail", "review"} :
          request' = [request EXCEPT ![r] =
              [Idle EXCEPT !.pc = "judging", !.sub = s, !.at = Now, !.verdict = v,
                           !.upsert = Upsert(s, v)]]
    /\ UNCHANGED <<status, decisions, case, cert, outbox, lastCase>>

JudgeCommit(r) ==
    LET q == request[r]
    IN /\ q.pc = "judging"
       /\ decisions' = decisions \cup {[at |-> q.at, sub |-> q.sub, parent |-> Never,
                                        verdict |-> q.verdict, case |-> NoCase]}
       /\ \/ /\ q.verdict = "review"
             /\ lastCase + 1 \in Cases
             /\ lastCase' = lastCase + 1
             /\ case' = [case EXCEPT ![lastCase + 1] =
                            [kind |-> "review", sub |-> q.sub, status |-> "OPEN", handler |-> Nobody]]
             /\ status' = [status EXCEPT ![q.sub] = "UNDER_REVIEW"]
             /\ UNCHANGED cert
          \/ /\ q.verdict # "review"
             /\ status' = [status EXCEPT ![q.sub] = "COMPLETED"]
             /\ cert' = Certified(q.at, q.verdict, q.upsert)
             /\ UNCHANGED <<case, lastCase>>
       /\ request' = [request EXCEPT ![r] = Idle]
       /\ UNCHANGED <<outbox, clock>>

------------------------------------------------------------------------------
(* The participant appeals, or hands in again.                              *)

AppealRead(r, s) ==
    /\ request[r].pc = "idle"
    /\ Of(s) # {}
    /\ ~HasLiveAppeal(s)
    /\ request' = [request EXCEPT ![r] = [Idle EXCEPT !.pc = "appeal", !.sub = s]]
    /\ OnlyRequest

AppealCreate(r) ==
    /\ request[r].pc = "appeal"
    /\ ~Locked(request[r].sub)
    /\ lastCase + 1 \in Cases
    /\ lastCase' = lastCase + 1
    /\ case' = [case EXCEPT ![lastCase + 1] =
                   [kind |-> "appeal", sub |-> request[r].sub, status |-> "OPEN", handler |-> Nobody]]
    /\ status' = [status EXCEPT ![request[r].sub] = "UNDER_REVIEW"]
    /\ request' = [request EXCEPT ![r] = Idle]
    /\ UNCHANGED <<decisions, cert, outbox, clock>>

\* A new attempt: its transaction creates the submission and looks for the
\* live reviews, then for the live appeals, of the earlier ones.
LiveOf(kind) == {c \in Cases : case[c].kind = kind /\ case[c].status \in Live}

SubmitRead(r) ==
    /\ request[r].pc = "idle"
    /\ Tick
    /\ request' = [request EXCEPT ![r] =
                      [Idle EXCEPT !.pc = "reviews", !.sub = Now, !.found = LiveOf("review")]]
    /\ UNCHANGED <<status, decisions, case, cert, outbox, lastCase>>

SubmitReadAppeals(r) ==
    /\ request[r].pc = "reviews"
    /\ request' = [request EXCEPT ![r].pc = "appeals",
                                  ![r].found = request[r].found \cup LiveOf("appeal")]
    /\ OnlyRequest

\* The live ones are superseded; the submission of every review found as well.
SubmitCommit(r) ==
    LET q == request[r]
    IN /\ q.pc = "appeals"
       /\ \A c \in q.found : ~Locked(case[c].sub)
       /\ case' = [c \in Cases |-> IF c \in Closed(q.found)
                                   THEN [case[c] EXCEPT !.status = "SUPERSEDED"] ELSE case[c]]
       /\ status' = [s \in Stamps |-> IF s = q.sub THEN "SUBMITTED"
                                      ELSE IF s \in Abandoned(q.found) THEN "SUPERSEDED"
                                      ELSE status[s]]
       /\ request' = [request EXCEPT ![r] = Idle]
       /\ UNCHANGED <<decisions, cert, outbox, lastCase, clock>>

\* An exception, a rollback or a restart: whatever was not committed is gone.
Abort(r) ==
    /\ request[r].pc # "idle"
    /\ request' = [request EXCEPT ![r] = Idle]
    /\ OnlyRequest

------------------------------------------------------------------------------
RequestStep(r) ==
    \/ \E p \in People, c \in Cases : ClaimRead(r, p, c) \/ RuleRead(r, p, c)
    \/ \E s \in Stamps : JudgeOpen(r, s) \/ AppealRead(r, s)
    \/ Claim(r) \/ ClaimRefused(r)
    \/ RuleOpen(r) \/ RuleRefused(r) \/ RuleCommit(r) \/ Notify(r)
    \/ JudgeCommit(r) \/ AppealCreate(r)
    \/ SubmitRead(r) \/ SubmitReadAppeals(r) \/ SubmitCommit(r) \/ Abort(r)

Next == \E r \in Requests : RequestStep(r)

Spec == Init /\ [][Next]_vars

------------------------------------------------------------------------------
(* Properties                                                               *)

TypeOK ==
    /\ status \in [Stamps -> SubmissionStatus]
    /\ decisions \subseteq Decision
    /\ case \in [Cases -> CaseRow]
    /\ cert \in [status : {"NONE", "ACTIVE", "NOT_CERTIFIED"}, decision : Moment, passedAt : Moment]
    /\ outbox \subseteq Event
    /\ request \in [Requests -> Request]
    /\ lastCase \in Nat /\ clock \in Nat

RulingsOf(c) == {d \in decisions : d.case = c}
SubOf(at) == (CHOOSE d \in decisions : d.at = at).sub

\* A case is RESOLVED with exactly one decision and with the completion check
\* that decision calls for, and no decision rules on any other case (#790,
\* #791, #946): a crash, a rollback or a rival request leaves no half of it.
RulingIsWhole ==
    /\ \A d, e \in decisions : d.case = e.case /\ d.case # NoCase => d = e
    /\ \A c \in Cases : case[c].status = "RESOLVED" <=> \E d \in decisions : d.case = c
    /\ \A d \in decisions : d.case # NoCase =>
           [decision |-> d.at, type |-> "courseCompletionCheck"] \in outbox

\* Following the parents of a decision leads, through older decisions of the
\* same submission, to the one automatic verdict the submission has.
LineageRooted ==
    /\ \A d \in decisions : d.parent # Never =>
           \E e \in decisions : e.at = d.parent /\ e.sub = d.sub /\ e.at < d.at
    /\ \A d, e \in decisions : d.parent = Never /\ e.parent = Never /\ d.sub = e.sub => d = e

\* A decision stands on the one before it: none lies between it and its parent.
ParentIsPrior ==
    \A d, e \in decisions : d.parent # Never /\ d.sub = e.sub => ~(d.parent < e.at /\ e.at < d.at)

\* A submission has one live appeal at most.
OneActiveAppeal ==
    \A b, c \in Cases :
        /\ case[b].kind = "appeal" /\ case[c].kind = "appeal"
        /\ case[b].sub = case[c].sub
        /\ case[b].status \in Live /\ case[c].status \in Live
        => b = c

\* A late FAIL does not take away a pass of a newer submission: only an
\* attempt newer still may have failed since.
NewerPassStands ==
    cert.status = "NOT_CERTIFIED" =>
        \A d \in decisions : d.verdict = "pass" /\ d.sub > SubOf(cert.decision) =>
            \E e \in decisions : e.verdict = "fail" /\ e.sub > d.sub

\* The certification status rests on the newest decision of its submission.
CertFollowsLatest ==
    cert.decision # Never =>
        \A d \in decisions : d.sub = SubOf(cert.decision) /\ d.verdict # "review" =>
            d.at <= cert.decision

\* UNDER_REVIEW means that somebody has, or can claim, a case about it.
UnderReviewHasCase ==
    \A s \in Stamps : status[s] = "UNDER_REVIEW" =>
        \E c \in Cases : case[c].sub = s /\ case[c].status \in Live

\* Each case goes the way CaseDesk promises.
StageOf(c) ==
    CASE case[c].status = "ABSENT" -> "absent"
      [] case[c].status \in Live -> "open"
      [] case[c].status = "RESOLVED" -> "ruled"
      [] case[c].status = "SUPERSEDED" -> "dropped"

Desk == INSTANCE CaseDesk WITH
    Rulings <- Stamps,
    stage <- [c \in Cases |-> StageOf(c)],
    holder <- [c \in Cases |-> case[c].handler],
    ruling <- [c \in Cases |-> {d.at : d \in RulingsOf(c)}]

DeskKept == Desk!Spec
------------------------------------------------------------------------------
(* Statements of comments and docs that the code does not keep: TLC refutes *)
(* each under the configuration README.md gives, so no run lists them.      *)

\* SUPERSEDED means that no human ever decided the attempt (#951).
SupersededIsUndecided ==
    \A s \in Stamps : status[s] = "SUPERSEDED" =>
        \A d \in decisions : d.sub = s => d.case = NoCase
=============================================================================
