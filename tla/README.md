# Verification of the A2 assessment platform

TLA+ modules that model the workflow core of the platform (`src/`), the TLC runs that check them on small
instances, and TLAPS proofs of what matters most for every value of the constants. Paths are relative to the
repository; issue numbers (`#953`) are the ones the source's comments use.

- [The system](#the-system): the inventory of parts, their state and what is hard about them
- [The modules](#the-modules): what each models and how it corresponds to the code
- [The runs](#the-runs): what is checked, with which bounds, and why those are enough
- [The proofs](#the-proofs): what holds for every value of the constants, and along which argument
- [Known gaps](#known-gaps): where the code and its own documentation disagree
- [Not modelled](#not-modelled) and [the plan](#the-plan)

## The system

A participant hands in a **submission** for a module (free text and a multiple-choice test, or the test alone).
An **assessment job** judges it, calling a language model, and writes an **automatic decision**: pass, fail, or
"a human must look". In the last case a **manual review** is opened; a participant who disagrees with a decision
may **appeal**. A ruling appends a further decision to the submission's **lineage** and moves the participant's
**certification** for the module. A decision leaves rows in an **outbox**, from which workers mail the
participant and issue **course certificates**. Everything lives in one PostgreSQL database; the web process and
the workers are separate Node processes, several of each, that coordinate only through its rows.

| Component | State | Operations | What is hard | Correct when |
|---|---|---|---|---|
| Assessment job queue (`src/modules/assessment/AssessmentJobRunner.ts`, `assessmentJobRepository.ts`, `staleLockScanner.ts`, `AssessmentWorker.ts`) | `AssessmentJob` rows: status, attempts, lock, lease, availableAt | enqueue, claim, heartbeat, succeed, retry, fail, reset of stale jobs, synchronous drive by a request, manual re-queue | several runners; a deadline abandons a run that goes on; leases lapse under live runs; stale reads by the scanner; crashes | one active job per submission; every job ends; no result comes too late |
| Assessment run (`assessmentJobService.ts`, `AssessmentDecisionApplicationService.ts`) | submission status, decision, outbox rows | look for a verdict, PROCESSING, verdict under the job's fence, side effects | read and write in separate statements; a crash between them; two runs of one job | one verdict; its consequences once, and not before it |
| Manual review, appeals (`src/modules/review/`, `src/modules/appeal/`) | `ManualReview` and `Appeal` rows: status, handler | open, claim, take over, resolve, supersede by a retake | checks before the transaction, guards inside; two handlers; a retake in the middle | a case is ended once, by who holds it; a ruling is whole |
| Decision lineage, certification (`decisionService.ts`, `decisionLineageService.ts`, `src/modules/certification/certificationStatusService.ts`) | `AssessmentDecision` rows with parents, `CertificationStatus` row | append, derive certification | rulings of two kinds of case on one submission; late decisions on old submissions | decisions form a chain; a newer pass is not lost |
| Submissions (`src/modules/submission/`) | `Submission` rows | create, supersede what is still open of earlier ones | races with rulings | no live case belongs to an abandoned attempt |
| Outbox (`src/modules/outbox/`) | `OutboxEvent` rows: status, attempts, lock, availableAt | enqueue, claim, deliver, settle | leases; handlers abandoned at a deadline; ambiguous sends; crashes | delivered means done; ended stays ended; no needless duplicates; everything settles |
| MCQ attempts (`mcqService.ts`, `mcqRepository.ts`) | `MCQAttempt`, `MCQResponse` rows | start, submit, what a submit does to the submission and the queue | concurrent starts and submits; the status is read at the start and written unguarded; answers commit before the job is enqueued | a score is of the answers kept with it; answers handed in are judged; a verdict stands |
| Evaluation and decision policy (`AssessmentEvaluator.ts`, `secondaryAssessmentService.ts`, `assessmentDecisionSignals.ts`, `decisionService.ts`, `mcqPassRule.ts`) | the passes of a run, the reason for a review | first pass, trigger, second pass, comparison, decision | the second pass replaces the first; bands at thresholds computed in two files; rules that suppress rules | who asks for a human gets one; no lone fail near a boundary; no step down |
| Content: modules, sections, courses (`src/modules/adminContent/adminContentCommands.ts`, `src/modules/course/`) | `Module`, `CourseSection` and their versions, `Course`, `CourseItem`: publish and archive stamps | create, edit, publish one, in a cascade or what is pending, withdraw, archive, restore, delete, purge, cascade delete | every guard is read before the transaction that writes; a cascade is many transactions | nothing archived in a course; published whole; nobody's history deleted |
| Course completion (`courseCompletionService.ts`) | passes, `CourseSectionRead`, `CourseCompletion` | mark read, check, issue | a check reads course, items, passes and reads in separate statements; several triggers of one issue | a certificate is earned in full; one per participant and course |
| Audit log (`src/services/auditService.ts`, `auditPiiScrub.ts`, `src/modules/retention/`) | `AuditEvent` rows in a hash chain, an advisory lock | append, scrub of e-mail addresses, re-seal, retention deletions, verify | concurrent writers; rows rewritten and deleted while the chain grows | no branch; verification finds nothing but what somebody did on purpose |
| Idempotency (`src/middleware/idempotency.ts`) | `IdempotencyKey` rows | reserve, replay, reuse, reclaim, store, release | retries while the first runs, after it failed, after a lost settle | one owner of a key; no effect repeated unknowingly; a replay is true |
| Reminders, enrolment, classes (`courseReminderService.ts`, `courseReminderDedup.ts`, `CourseReminderMonitor.ts`, `enrollmentService.ts`, `classService.ts`) | deadlines of enrolments and classes, `course_reminder_sent` audit rows | assign, withdraw, sweep | a sweep reads in many statements; mails before it writes the row; a sweep per worker | told once; told at all; left alone when done |
| Ownership, pseudonymisation, organisation sync, discussions, calibration, reporting, notifications, authentication, clients, infrastructure | various | sweeps, reads, I/O | mostly none | see `PROJECT.json` "components" |

The interactions that matter: a submit enqueues a job, or drives the queue itself for a module with only a test;
a verdict opens a review or queues outbox rows; a ruling queues a completion check inside its transaction and a
notification after it; a new submission supersedes the open cases of earlier ones; the outbox mails and issues, and
a completion check rests on content that authors change meanwhile. The writing requests pass the idempotency
middleware, and most of them end with an audit event, inside their transaction or after it.

`PROJECT.json` lists each component with its status, and under "hazards" each line of this code where an order,
a crash, a stale read or a boundary can go wrong, with the properties aimed at it.

## The modules

| Module | What it is |
|---|---|
| `AssessmentVerdict` | what automatic assessment promises: a submission judged at most once, consequences once and after the verdict |
| `AssessmentJobs` | the queue, its runners and runs; implements `AssessmentVerdict` |
| `AssessmentJobsProofs` | theorems about `AssessmentJobs` |
| `CaseDesk` | what the reviewers' desk promises: a case is opened once, held by one person whom only an administrator replaces, ended once |
| `DecisionLineage` | reviews, appeals, retakes, decisions and certification; implements `CaseDesk` |
| `SerialLineage` | `DecisionLineage` with a memory of whether two requests have overlapped |
| `DecisionLineageProofs` | theorems about `DecisionLineage` and `SerialLineage` |
| `Outbox` | outbox rows, delivery workers, handlers |
| `OutboxProofs` | theorems about `Outbox` |
| `AuditChain` | appends, scrub, re-seal and retention deletions of the audit log |
| `AuditChainProofs` | theorems about `AuditChain` |
| `Idempotency` | the requests that share an idempotency key |
| `IdempotencyProofs` | theorems about `Idempotency` |
| `McqAttempt` | starts and submits of a submission's multiple-choice test, and the job they race |
| `McqAttemptProofs` | theorems about `McqAttempt` |
| `CourseContent` | the life of modules, sections and courses, and the certificates earned in them |
| `SharedContent` | `CourseContent` with a memory of the authors' requests that met about an item |
| `EvaluationPipeline` | the passes of the language model and the rules that make a verdict of them |
| `EvaluationPipelineProofs` | theorems about `EvaluationPipeline` |
| `CourseReminders` | the daily sweeps that remind of a course's deadlines |
| `CourseProofs` | theorems about `CourseContent`, `SharedContent` and `CourseReminders` |
| `MC...` | definitions and symmetry sets of the TLC instances |

One action is one statement, or one transaction where the code opens one and its rows are locked until it commits.
Reads that a later write relies on are steps of their own, so everything another process can do in between, it does.
`PROJECT.json` "map" gives the lines each definition stands for. The block headed "Mutants of the definitions below" holds
plausible bugs, each substituted for a definition to see that a property notices.

### AssessmentJobs

`job` is the table. `runner` is where each caller of `processNextJob` stands: a worker's poll loop, or a request
in `processSubmissionJobNow` (then `sub` names its submission). `run` holds the executions of `runAssessment`, one
per lock acquisition, identified by the *fence* (`lockedBy`, `lockedAt`) that acquisition wrote. They are processes
of their own because the deadline (`runWithDeadline`) rejects the runner's await and leaves the run working.
`client` is an `enqueueAssessmentJob` between its look-up and its create; `answered` is what a request told a
participant. A lease is `live`, `lapsed` or `none`; `available` abstracts `availableAt`.

| Code | Actions |
|---|---|
| `enqueueAssessmentJob` and its callers' guards | `EnqueueRead`, `EnqueueCreate` (with the partial unique index) |
| `processSubmissionJobNow` | `SyncStart`, `SyncReturn`, `SyncGiveUp` |
| `scanAndResetStaleJobs` | `Scan` (reads, decides the outcomes), `ResetStale` (one row, by id alone), `ResetRejected` (the index throws) |
| `processNextJob` | `FindRunnable`, `Lock`, `LockLost`, `MarkSucceeded`, `AwaitFails`, `CatchRead`, `Retry`, `Fail`, `RenewLease` |
| `runAssessment` | `CheckDecision`, `MarkProcessing`, `Decide`, `EnqueueEffects`, `RunFails` |
| time, operators, failures | `LeaseLapses`, `BackoffElapses`, `OperatorRequeue` (the runbook's SQL), `RunnerThrows`, `Crash` |

The language model, the input and the policy are the free choice of a verdict's kind in `Decide`;
`EvaluationPipeline` says how it is made.

### DecisionLineage

One participant and one module. The clock gives out *stamps*; a stamp names the submission made at it or the
decision finalised at it, so "newest" compares stamps as the code compares `submittedAt` and `finalisedAt`.
`case` is the table of reviews and appeals in the order they were opened, `decisions` the set of decision rows,
`cert` the one `CertificationStatus` row, `outbox` what a ruling queued. `request` is where each HTTP request (or
assessment run) stands between its steps, with what it read.

| Code | Actions |
|---|---|
| `claimManualReview`, `claimAppeal` | `ClaimRead` (checks), `Claim` (guarded update), `ClaimRefused` |
| `finalizeManualReviewOverride`, `resolveAppeal` | `RuleRead` (checks, newest decision), `RuleOpen` (guarded update, certification read), `RuleRefused`, `RuleCommit`, `Notify` |
| `createAssessmentDecision`, `createMcqOnlyDecision` | `JudgeOpen`, `JudgeCommit` |
| `createSubmissionAppeal` | `AppealRead`, `AppealCreate` |
| `createSubmission`, `supersedeEligible...ForRetake` | `SubmitRead`, `SubmitReadAppeals`, `SubmitCommit` |
| exceptions, rollbacks, restarts | `Abort` at any step |

A transaction that has updated a row holds its lock until it ends: while `Locked(s)`, other writers of the
submission or its case wait. Reads do not wait (READ COMMITTED), which is what several of the gaps below rest on.
That a verdict is written once per submission is `AssessmentJobs`' theorem and is the guard of `JudgeOpen` here.

### Outbox

A row's lease is numbered: `claims` counts the claims, standing for the `availableAt` each writes and the
compare-and-set compares; `lock` is the lease the row carries (`lockedBy`, `lockedAt`). `worker` is a
`processNextOutboxEvent` call, `run` the handlers in progress by event and lease, `mails` how often somebody was
really mailed, `certificate` whether the completion row exists.

| Code | Actions |
|---|---|
| `enqueueOutboxEvents` | `Enqueue` |
| `claimNextOutboxEvent` | `FindDue`, `Claim`, `ClaimLost` |
| `processNextOutboxEvent`, `withDeadline` | `Returned`, `Threw`, `Deadline`, `MarkFails` |
| `markOutboxDelivered`, `markOutboxRetryOrFailed` | `MarkDelivered`, `MarkRetryOrFailed`, `SettleFails` (the tick swallows it) |
| the handlers: `sendViaAcs` and `notifyAssessmentResult`; `evaluateCourseCompletion` | `Send`, `Audit`; `Look`, `Issue` (with the unique index), `Audit`; `HandlerFails` |
| backoff, lease end, crash | `BecomesDue`, `Crash` |

A send is accepted, refused, or cut off by the timeout, when it may have been accepted. Two abstractions: a
notification channel that sends nothing returns at once and is left out; completion checks are those whose gates
are met, of one participant and course.

### AuditChain

`row` is the table by `chainSeq`; `actor` is the transaction or the scrub a process is in; `lock` is who holds the
advisory lock. A hash stands for what it covers, the contents of its row and of all the rows its chain runs through,
so two hashes are equal when what they cover is. `scrubbed` records, for the properties, the rows whose
content has changed since they were last sealed.

| Code | Actions |
|---|---|
| `recordAuditEvent`, `appendToAuditChain` | `AcquireLock`, `ReadHead`, `Insert` (again from `ReadHead` for a transaction that records several), `Commit`, `Rollback` |
| `scrubHistoricalAuditPii` | `FindPii`, `ScrubRow` (one row, outside the lock), `ScrubEnds`, `ScrubFails`; then the re-seal and one append |
| `backfillAuditChain`, also run by hand | `Backfill`, `SealRead`, `SealCommit`, `Rollback` |
| `deleteOperationalAuditEventsOlderThan` | `Purge` (one batch; it takes no lock) |
| `verifyAuditChain` | `LinkHolds` and the hash test in `MismatchesAreScrubs` |

### Idempotency

One row, that of a user, an endpoint and a key, and the requests that carry it. `excuses` counts the points at which
the code knowingly lets a further run through; `effects` counts what handlers committed.

| Code | Actions |
|---|---|
| the middleware's loop of two attempts | `Arrive`, `Reserve`, `Taken`, `CreateFails`, `FindNone`, `FindExpired`, `FindValid`, `Reclaim` |
| the route's handler | `Handle`, `HandlerFails` (before or after its effect) |
| the `res.json` hook, `storeOrRelease` | `Respond`, then `Store`, `Release` or `SettleFails` |
| time and failures | `Expire`, `Crash` |

A row expires only when its request is over: the TTL is 24 hours, and no request lasts that long.

### McqAttempt

One submission. Rows an open transaction wrote are in `req` until it commits; the row locks are `RowsFree`
(responses), `CompletionFree` and `SubmissionFree`. A sheet of answers is the request that handed it in and the set of
questions it answers. The job is the one of `AssessmentJobs` without its leases and fences, one run at a time.
`completedAt` is the clock of a process, read before the guarded update waits for its row: of two attempts whose
submits overlap either may be the one completed last (`CompletedLast`).

| Code | Actions |
|---|---|
| `startMcqAttempt` | `ReadSubmission`, `FindOpen`, `CreateAttempt` |
| `submitMcqAttempt` | `ReadSubmission`, `ReadAttempt`, `DeleteResponses`, `CreateResponses`, `CompleteAttempt`, `Commit`, `Enqueue` |
| the run route | `ReadSubmission`, `Enqueue` |
| the job | `Take`, `Read`, `Mark`, `Decide`, `Succeed`, `Throw`, `RunFails` |
| lost requests | `Lost` |

### CourseContent

Every guard of an author's request is read outside the transaction that writes, so a request is a read step and one or
more write steps. `author` holds where it stands and the plan its reads made; `check` holds a participant's completion
check between its statements. Foreign keys are conditions of the writes (`Unreferenced`, `AllHere`), and a transaction
that has marked a section read holds its course and section (`HeldByReader`).

| Code | Actions |
|---|---|
| creating, saving a version, editing a section, withdrawing or restoring a course | one-transaction writes: `CreateModule`, `SaveVersion`, `EditSection`, ... |
| `publishModuleVersion`, `publishSection`, their routes | `ReadModuleToPublish`, `ReadSectionToPublish`, `PublishItem` (with the passes a revision supersedes) |
| `publishCourseCascade`, `publishCourse` | `ReadToPublishCourse`, then `NextItem` and `PublishItem` per item, `ItemsPublished`, `PublishCourse` |
| publishing pending versions of a course | `ReadPending`, `NextItem`, `PublishItem`, `ItemsPublished` |
| unpublish, archive, restore, delete | `ReadTo...`, then `Unpublish`, `Archive`, `Restore`, `Delete` |
| `purgeUnpublishedModules` | `ReadToPurge`, `PurgeNext` per candidate |
| `setCourseItems`, `setCourseModules` | `ReadToSetItems`; `ReadToSetModules`, then `SetModules` (the sections, read inside the transaction); both end with `DeleteItems` and `SetItems` (its `createMany` and the commit) |
| archive, delete, cascade delete of a course | `ArchiveCourse`, `DeleteCourse`, `CascadeDelete` after their reads |
| `markSectionRead`, `evaluateCourseCompletion` | `ReadDoor`, `MarkRead`, `StartCheck`, `CheckCourse`, `CheckSections`, `CheckPasses`, `CheckReads`, `Issue` |
| submitting and passing a module, and a later fail | `HandIn`, `Pass`, `Overturn` |
| rollbacks, lost processes | `AbortRequest`, `AbortCheck` |

Nothing makes an item unique in its course, and a `deleteMany` does not see the rows of a rewrite that has not committed:
two rewrites of a course that overlap leave what both put in, and the later one's plan remembers which rows are not its
own (`Joined`). `SharedContent` adds what the two properties about courses speak of: which item was withdrawn while it was being put into
a course (`crossed`), and which was put in while the course was being published (`recast`).

What one preview reads is read at once; a hand-in is one step; which of the pending items an author owns is any subset of
them. Left out: enrolments and visibility, certificates from before they had snapshots, the import of a whole
course, and the publication of thresholds by the calibration workspace, which clones the active version and publishes it.

### EvaluationPipeline

One job's runs, each a first pass, perhaps a second, and a decision. What the model answers is any member of `Results`:
the totals it reports need not be those of its criteria, nor its flags agree with its scores. The rules are
operators over a case (policy, test score, length of the answer) and an answer; scores are counted in hundredths and
rounded as `toFixed(2)` does, but for the ties binary fractions decide. The practical part is scaled to 70, as the code
does whatever `weights.practicalMaxScore` says (`PracticalScale`). Two switches of the rules, whether a first pass that
asks for a human triggers a second and whether a mismatch of the two counts as a disagreement, are constants, on in the
shipped configuration and in the run; the theorems hold for every setting.

| Code | Definitions |
|---|---|
| `runLlmEvaluationPipeline` | `PrimaryPass`, `EvaluateTrigger`, `SecondaryPass`, `EvaluateDisagreement`, `Final` |
| `evaluateSecondaryAssessmentTrigger`, `boundaryTriggers`, `resolveZoneBoundaries` | `Triggered`, `Near`, `FailBoundary` |
| `evaluateSecondaryAssessmentDisagreement` and its suppression | `Disagree`, `Suppressed` |
| `resolveAssessmentDecision` | `Practical`, `Total`, `Window`, `GatesPass`, `PassesThresholds`, `AutoFails`, `NeedsReview`, `Verdict` |
| the job that is tried again | `RunFails` |

Left out: the reason a decision names, the shadow rules that are only logged, thresholds with decimals, weights given
for one part alone, and rubrics without criteria. A window of a module's own that lies wholly above or below its
threshold is allowed by the schema; the two properties that cannot hold for one say so (`WindowTouches`).

### CourseReminders

One course. `sweep` is the `runCourseReminderSchedule` each worker process is in: the day it began, the candidates it
still has to look at, the reminder in hand, and the keys of what was sent, read once (`loaded`). `rows` are the audit rows
by which sweeps know of each other. `mails` counts how often each reminder arrived, as its reader tells reminders apart
(`AsRead`), and `late` those sent to somebody who was done; no action reads either. A revoked enrolment, one without a deadline and none at all are the same
to a sweep and one value here; so are an unpublished and an archived course.

| Code | Actions |
|---|---|
| `CourseReminderMonitor.tick` | `Start` (one sweep at a time in a process), `BreakOff` (the error is swallowed, or the process lost) |
| `gatherCandidates` | `ReadIndividual`, `ReadClasses` |
| the loop of `runCourseReminderSchedule` | `Consider`, `Dedup`, `Send` (with `Arrives`), `Record`, `Finish` |
| enrolments, classes, publication, completion | `SetIndividual`, `SetClass`, `SetReachable`, `Complete` |
| the clock | `NextDay`, also under a sweep |

Candidates are looked at in any order. Left out: participants who are deactivated (the query's flags are tested once
per candidate), members who join or leave a class, and several courses, which share a sweep but no keys.

### Abstractions

- **Time** is a due flag or a lease state, not a number: the code compares instants with `now`, and what it
  compares may come true at any moment. The exceptions are `DecisionLineage`, where the order of instants is
  what the code computes with, and `CourseReminders`, which counts days as the code does.
- **Payloads** (answers, prompts, scores, mails, audit texts) do not appear. Audit rows written in the transaction of
  the change they record are left out; where the audit write is a separate statement that may fail between two
  others (`Audit` in the outbox), it is a step.
- **READ COMMITTED.** Every action sees what has been committed. A transaction is one action where it locks what it
  touches first; where it reads before it locks, the read is a step before it.
- **Bounds.** `MaxFaults` caps crashes and database errors, `Fences`, `Jobs`, `Cases` and `MaxClock` cap what is ever
  created, as do `MaxSeq`, `Requests`, `Starts`, `Submits` and the `Max...Versions` of content, `MaxAttempts` is the code's own constant made small. The theorems hold for every value of them.

## The runs

`tlc -config X.cfg M` with the configuration named after the run and the module of the third column. Most take
well under a minute; `jobs_racing`, `mcq_attempts`, `content` and `reminders` take up to two.

| Run | What it shows | Instance (module) |
|---|---|---|
| `jobs_racing` | one verdict, announced once, a look-up that stays fresh under the fence, and the promise of `AssessmentVerdict`, under every interleaving of two runners; only resets that have become untrue and the runbook strand a waiting job or revive an ended one | `MCAssessmentJobs`: 2 submissions (one of them `MCQ_ONLY`), 1 worker and 1 request in 2 processes, a job each, 2 lock acquisitions, 2 attempts, the runbook's re-queue, no faults; 819,948 states |
| `jobs_one_worker` | every job ends | 1 worker, 2 jobs, 4 acquisitions, 2 attempts, 1 fault, fair; 71,528 states |
| `lineage_racing` | rulings are whole, decisions are rooted, cases go the way `CaseDesk` promises; as long as no two requests have overlapped the lineage is a chain and a newer pass stands | `MCDecisionLineage`: 2 requests, 2 cases, 4 stamps, a reviewer and an administrator; requests are symmetric; 214,691 states |
| `outbox_racing` | delivered is done, ended stays ended, bounded tries, duplicates only by faults | `MCOutbox`: 1 mail, 1 completion check, 2 workers, 2 attempts, 1 fault; workers are symmetric |
| `outbox_settles` | every event is delivered or failed in the end | 1 worker, 2 attempts, 1 fault, fair |
| `audit_chain` | no branch; what verification reports was deleted or scrubbed on purpose | `MCAuditChain`: 2 symmetric actors, 4 rows, 2 of them from before the chain |
| `idempotency` | one owner of a key, a second effect only where the code allows one, true replays | `MCIdempotency`: 4 requests, one with another body, 3 faults; the retries are symmetric |
| `mcq_attempts` | a score is of the responses kept with it, answers handed in stay in hand, a verdict stands | `MCMcqAttempt`: 2 starts, 3 submits with different sheets of 2 questions, 1 run request, the job, 2 faults; 532,588 states |
| `content` | nothing archived in a course and published whole, but for items two requests met about; history kept, certificates earned | `MCCourseContent`: 1 course, module, section and participant, 2 symmetric authors, 1 module version, 2 section versions, one thing hard at a time (below); 503,315 states |
| `evaluation` | who asks for a human gets one; a lone fail is far from where a human would look; a better answer is not judged worse | `MCEvaluationPipeline`: 6 policies (standard, own threshold, own window, weights, gates, no second pass) with and without a test, 67 answers at every score and around every boundary, 2 attempts; 274,530 states |
| `reminders` | no reminder twice but for the fault; who is done gets one more at most; whoever is past the deadline that counts is told | `MCCourseReminders`: 1 participant, 2 classes, 1 process, 4 days, 1 change, 1 fault, fair; 961,150 states |
| `reminders_precedence` | a statement of the repository's docs the code does not keep: the first of the [known gaps](#known-gaps) | 1 participant, 1 class, 4 days, no change or fault |

`SerialLineage` adds a history variable, `overlapped`, to the specification: the lineage forks when two rulings on a
submission overlap, and a newer pass is lost when two certifications do (see the known gaps), so `ParentIsPriorAlone` and
`NewerPassStandsAlone` ask for both until two requests have been in flight at once, and the other properties always.

**Why these bounds are enough to be interesting.** Two attempts are the least for which a retry, an exhausted job and
a last attempt differ. Two lock acquisitions let an abandoned run and its retry, or the runs of both
runners, be alive at once; the faults, and a second job of one submission, are in `jobs_one_worker`, and the properties of `jobs_racing` are theorems for any number of each, also of the requests that enqueue at once, of which the run has one. Two cases on one submission are the least in which a review and an appeal, or a case and a retake,
meet. Four stamps are a submission, its
verdict, a retake and a ruling. One fault is one crash at any step of any process. `TriesBounded` speaks
of the same lease being claimed after a fault and after a failure, which two attempts and one fault reach.
In the audit log, two actors are a writer and the scrub, or two re-seals; two unsealed rows and two new ones are
enough for a deletion in the middle of the chain. Three equal requests are one that runs, one that waits behind it and one
that comes after the key was released or reclaimed. Two starts open two attempts, and three submits hand in one of
them twice and the other. The content run lets two authors meet, or one author and a participant who reads, hands in,
passes, loses the pass and is checked at any point of the author's requests, or one author and a section in its second version (the edit
of a published one), but not several of these at once (`Bounded`, with `MCSpec`, which leaves out the beginnings that would leave the
bounds). Where authors meet, the course is neither published nor archived, which no guard of theirs reads, and it is
not archived where there is a participant, to whom that is the same as not published. The memory of meetings holds one pair, and
once it does, the requests under way end and no other begins. The pairs the two properties excuse are reached: without
the excuse both are refuted. The theorems about this module need none of these bounds. The answers of `evaluation` are every score without a signal, and every signal and the pairs that meet
in a rule at scores in each zone. A deadline on the fourth day lies beyond the horizon of a reminder one day ahead on the first,
which is what `OverdueIsTold` has to get right, and there are three days on which the same participant can be overdue. The bound of
`RemindedOnce` is reached: with one less it is refuted. The sweeps of several processes are in the model and not in this
instance; the theorems cover any number of them.

**Deadlock.** Sweeps go on for ever, so the runs of `CourseReminders` check for deadlock. The others do not, because
each of those systems really comes to rest: when all
jobs or events have ended, or (a bound, not the program) when ids, fences, cases, stamps, rows, requests or versions
are used up. That nothing stops earlier is what `JobsSettle` and `EventsSettle` check.

**Fairness.** `AssessmentJobs!FairSpec`: a worker's poll loop and its scanner run on timers, and each statement of
`processNextJob` ends or times out, so the runner's steps are weakly fair; time passes, so a backoff elapses and a
lease that nobody renews lapses. A run is *not* fair: it may hang in a call for ever, which is why the deadline
(`AwaitFails`) is. Faults, operators and requests are never owed. `Outbox!FairSpec`: the same for the
poll timer and the deadline; no handler need ever answer. A lease ends under a live worker only at the price of
a fault: `src/config/env.ts:187-190` keeps the delivery deadline below the lease, so it takes a stopped process.
`JobsSettle` is checked with one worker: with several, the stale scanner's write by id strands jobs (see the gaps).
`CourseReminders!RemindersFairSpec`: the monitor's
timer ticks, and a statement of a sweep ends, unless it is broken off, which is a fault. Days need not pass.
The other modules are about safety only: their requests run once, and nothing in the code owes an author's or a
participant's next request.

**Mutants.** `PROJECT.json` names for each property of each passing run a definition of the model and a plausible bug
to put in its place, with which TLC finds the property violated: a fence that is not compared, an index
that is missing, a guard checked before instead of inside the transaction, an attempt not counted, a lock let go
before the commit, a band laid by the wrong threshold.

## The proofs

`tlapm M.tla` checks each of the eight modules of proofs. All rest on nothing but the assumptions each module makes about
its constants (`JobsAssumption`, `LineageAssumption`, `OutboxAssumption`, `AuditChainAssumption`,
`IdempotencyAssumption`, `KindsAreApart`, `McqAssumption`, `EvaluationAssumption`, `RemindersAssumption`: attempts are positive, ids are
numbers other than the null id, special values are not members, processes and offsets are finite in number), so they hold for any number of workers, requests, jobs, cases, events, rows,
contents, attempts and faults. Each module states an inductive invariant `IInv` in named parts, proves `Init => IInv`
and one lemma per action, and takes the theorems from it.

**`AssessmentJobsProofs`**: `TypeCorrect`, `AtMostOneVerdict`, `LookupStaysFresh`, `SuccessMeansVerdict`,
`ConsequencesOnce`, and `QueueKeepsPromise`, the refinement of `AssessmentVerdict`.
That there is one verdict does not follow from itself: two runs of one submission may both be between their
look-up and their write. `IInv` adds why this is harmless. A fence in a row is that of a run of this very job, a new
fence is new, and the partial unique index leaves a submission one active job. So of the runs past their look-up
at most one still holds its fence, only that one can write, and for that one what it found is still true.
`EffectsInv` adds that only the run that wrote the final verdict may write its outbox rows, and that once they
are written it is done. In the refinement `Decide` is the judgement, `EnqueueEffects` the announcement, and every other
action a stutter. Two more theorems, `RetriesStrandNothing` and `LateRunnersReviveNothing`, are about every step of the queue, with any number of
scanners, driving requests and operators. A waiting job without an attempt left, and an ended job that is written again, are real
(see the known gaps); the theorems say that only two writes make them: the reset of a row that has changed since it was scanned
(`WrittenBlindly`, `Outdated`) and the runbook's SQL. So everything a runner writes itself, on time or late, does neither: the
fence tells it that the retry it found left is left and that its job is still the one it started. Crashes, lapsing leases and abandoned runs are all included.

**`DecisionLineageProofs`**: `TypeCorrect`, `RulingsAreWhole`, `LineageIsRooted`, and `DeskIsKept`, the refinement of
`CaseDesk`. A ruling's guarded update and its decision are steps of one transaction. `IInv` says that a transaction that
has passed its guard holds the submission's row lock until it commits (`OneWriter`), so nobody ended the case
in between (`InFlight`) and the decision it appends is the case's first. `LineageIsRooted` needs in addition that a
parent was read from an older decision of the same submission. The refinement proof also needs that a case not yet
opened has no handler. `ParentIsPriorWhenAlone` and `NewerPassStandsWhenAlone` are about `SerialLineage`, and assume nothing: they
speak of every behaviour up to its first overlap. `SerialInv` says of the one request in flight that what it read
still holds (`Fresh`): its stamp is the newest, its parent the newest decision of the submission, and the certification row
still calls for the write it decided on. That a FAIL keeps newer passes then rests on `PassesKept`, the row is as young as every
pass unless a still newer attempt failed, and on `SubsPast`, a decision comes after the submission it is about.

**`OutboxProofs`**: `TypeCorrect`, `DeliveredMeansDone`, `TriesAreBounded`, `EndedIsFinal`. A lease is one worker's
(`LeasesInv`); a row that has ended carries none (`RowsInv`), so the fence turns every late worker away. What
a handler did is never undone, hence a result reported late is still true (`DoneInv`). For the bound on claims,
every claim of a pending row has been paid for: by an attempt when its owner gave it back, by a fault when the lease
ran out under its owner or the owner was lost (`PaidInv`). That needs `OwnersInv`, as the failure path writes an
attempt count it read at the start, and `FoundInv`, as a row still equal to what was selected must still be due.
`DuplicatesArePaid` counts over many leases. A handler abandoned at its deadline may still send, so the mails
sent *and* the handlers that have not sent yet are together at most one more than the faults, and at most the faults
unless the row is `Safe` from another claim (`MailsInv`). A row is safe when it has ended, or its owner is bound to end it
(`Sticks`): a handler that has sent, or may yet, leaves no retry, which is what the code means by writing a deadline as a
final failure. Only a refused send or a fault takes that away, and either leaves one mail fewer or one fault more.

**`AuditChainProofs`**: `TypeCorrect`, `ChainNeverBranches`, `BreaksAreDeletions`, `MismatchesAreCleaned`. Who holds the
advisory lock alone has uncommitted rows, so the head it read still covers a row at or above every older row when it
inserts, although the retention scan deletes without the lock. A `prevHash` covers that much and nothing at or above its
own row, which tells the `prevHash`es of any two rows apart.

**`IdempotencyProofs`**: `TypeCorrect`, `OneAtATime`, `RerunsExplained`, `ReplaysTrue`. The invariant says which request
holds the row and what a completed row holds. The row is worth one effect, which its request has committed or may still
commit; every other effect was excused when it was committed or when its row was reclaimed.

**`McqAttemptProofs`**: `TypeCorrect`, `ScoreMatchesResponses`, `VerdictOfOneAttemptStands`, `AnswersKeptInHand`,
`HandedInOnce`, for any order of the clocks. The submit that set `completedAt` holds that row until it commits and found the attempt open; an
open attempt has no committed responses, so what the winner inserted is all there is. The attempt a run judges
was completed and undecided when it was read, and the status does not move under it.

**`CourseProofs`** about `CourseContent`: `TypeCorrect`, `HistoryKept`, `CertificatesEarned`; about `SharedContent`, for any number of authors,
`CirculationKept` and `PublishedWhole`. `World` says that rows go from new to here to gone and that what history rests on is spared;
`Established` says for each step of a completion check what it has passed and why that cannot be undone, as a pass or
a read goes only with its content and that content is guarded by the check's own keys. For courses, `Ready` says of each request
under way that what it has read still holds, but for the items it met another request about: an item it is about to put in is
not archived, one it is about to withdraw is in no course, one it passed over in a publication is available, or the pair is in
`crossed` or `recast`. Nothing else is needed, because whoever could undo such a read is a request between its read and its
write, so the two are under way at once and the memory has noted it (`Remembered`). Neither property excuses more than those pairs; that
they do fail there is a known gap.

About `CourseReminders`: `RemindersTypeCorrect`, `RemindersArriveOnce`, `DoneParticipantsAreLeftAlone`, for any number of processes,
and `HorizonMissesNothing`. The first bound does not follow by itself, since a sweep that is broken off forgets the keys it
had loaded and its process may sweep again. `MailsAccounted` charges every mail to a fault or to a process, each process once: to the
sweep that has sent and not recorded, or, once there is a row, to every process but those that loaded the keys before it
(`Unaware`). A process charged stays charged, for the row tells its next sweep, and only a sweep lost before its row
gives the turn back, at the price of a fault. `LateAccounted` charges the reminders of somebody who is done to the sweeps that had looked
before (`Committed`), which nobody can become any more. `HorizonMissesNothing` says that the horizon of #798 leaves out no deadline
that calls for a reminder that day; its proof needs that a finite set of offsets has a greatest, shown by a smallest subset without one.

**`EvaluationPipelineProofs`**: `TypeCorrect`, `AskingIsHeard`, `LoneFailClear`, `BetterNotWorse`, for every rubric, policy,
threshold, band and answer. `IInv` says that the reason for a review is the comparison of the two passes at hand,
that a run without a second pass was not triggered, and that the outcome is the verdict on the last pass. Around it the proof is about
the rules: a pass that asked and was overruled is a disagreement or was suppressed, and a suppressed one is an evidence
fail; a lone fail was not near the boundary the window begins at; the score is monotone in the rubric through two
roundings, so a better answer leaves each zone only upwards.

Every invariant and every action property the passing runs check is stated by one of these theorems, and so are the two
refinements. The runs show each on an instance, and that a plausible bug would break it.

**Only model-checked**: liveness, `JobsSettle`, `EventsSettle` and `OverdueIsTold`. The proof system has no rules for fairness or
ENABLED. What the runs show of them holds for their bounds; the invariants their arguments rest on (what can
strand a job or revive an ended one, that a pending event finds a lease, that the horizon misses nothing) are theorems.

## Known gaps

Where the code does not do what its own documentation or comments say. The first has a run; each of the others is
stated in its module, or is a property of a passing run without the condition that makes it hold, and is refuted when
checked with the configuration named; where the last column names an action instead, the action does it by itself.

| Statement | What happens | See |
|---|---|---|
| "individuell frist vinner over klasse" (`courseReminderService.ts:32`; `doc/CONFIG_REFERENCE.md:111`) | the horizon prunes a far individual deadline, and the earlier one of a class takes its place | run `reminders_precedence` |
| UNDER_REVIEW: "Human review or appeal handling is in progress" (`doc/DOMAIN_LIFECYCLE.md:34`) | a retake supersedes the appeal and leaves the appealed submission UNDER_REVIEW | `UnderReviewHasCase`, `lineage_racing` |
| disagreement is "one or more of", among them "pass/fail mismatch" (`doc/design/ASSESSMENT_DECISION_POLICY.md:145`; `doc/CONFIG_REFERENCE.md:100`) | no rule compares `pass_fail_practical`, nor does the exception ask that "both practical passes are `false`" (line 157) | `PassFailMismatchReviewed`, `evaluation` |
| "Submission already has an open or in-review appeal" (`appealService.ts:41`) | the check precedes the transaction and no index backs it: two requests create two live appeals | `OneActiveAppeal`, `lineage_racing` |
| "Certification status is derived from the latest authoritative decision" (`doc/DOMAIN_LIFECYCLE.md:276`) | the guard for newer passes also holds back a FAIL that overrules the pass of the same submission | `CertFollowsLatest`, `lineage_racing` with `MaxClock = 5` |
| the runbook's SQL re-queues a failed job (`doc/OPERATIONS_RUNBOOK.md:549`) | it keeps `attempts`, so no worker picks the job up, and it blocks the submission's next one | `JobsSettle`, `jobs_one_worker` with `UseRunbook = TRUE` |
| "Both handlers are idempotent" (`outboxService.ts:166`) | a crash after the send and before the settled row mails again | `MailedOnce`, `outbox_racing` |
| `PENDING` is "waiting for pickup" (`doc/DOMAIN_LIFECYCLE.md`) | the scanner resets by id what it read earlier: a job on its last attempt, or failed since, becomes PENDING with none left, or an ended one PENDING again | `PendingIsRunnable`, `jobs_racing`; `OnlyBlindWritesStrand` says that only this and the runbook do it |
| a decided submission is not touched (`assessmentJobService.ts`, #953) | look-up and PROCESSING are two statements, only the verdict is fenced: an abandoned run puts a decided submission back | `DecidedNotReopened`, `jobs_racing` |
| side effects are awaited "so a crash [...] can no longer lose them" (`AssessmentDecisionApplicationService.ts`) | a crash between the verdict's transaction and the outbox rows: the retry finds the verdict and succeeds without them | `SucceededHasEffects`, `jobs_one_worker` |
| who "never saw the UI verdict is still notified" (`assessmentJobService.ts`) | the mail is dropped when the run starts in a request; the process stops before it answers | `SeenOrNotified`, `jobs_racing` with `MaxFaults = 1` |
| `assessmentComplete`: "already finalised synchronously" (`mcqService.ts`) | the drive also returns normally when the job FAILED | `AnsweredHasVerdict`, `jobs_racing` |
| a decision's parent is "the prior authoritative decision" (`doc/DOMAIN_LIFECYCLE.md`) | the newest decision is read before the transaction: of a review's and an appeal's ruling the later skips the earlier | `ParentIsPrior`, `lineage_racing` |
| "do not overwrite a passing certification established by a newer submission" (`certificationStatusService.ts`) | read and upsert without a lock: a newer pass committed in between is overwritten | `NewerPassStands`, `lineage_racing` |
| a SUPERSEDED attempt was never decided by a human (`prisma/schema.prisma`) | superseding guards the review's row, not the status write after it | `SupersededIsUndecided`, `lineage_racing` |
| no answers are taken for an assessed submission (`mcqService.ts:105`) | two overlapping starts open two attempts; a second submit that read the status earlier puts a decided submission back to PROCESSING | `DecidedNotReopened` and `VerdictStands`, `mcq_attempts` |
| a submitted test is assessed (`mcqService.ts`) | a request lost between the commit of its answers and the enqueue leaves PROCESSING without a job until somebody calls the run route | `AnswersInHand` without `faults > 0`, `mcq_attempts` |
| operational audit rows are "safe to purge" (`auditRetentionService.ts:8-11`) | `verifyAuditChain` reports a `chain_break` at the first row kept after them | `LinkHolds` of every row, `audit_chain` |
| the scrub seals the chain again (`auditPiiScrub.ts`) | a scrub that loses its process, or one of its rows to the retention scan, leaves mismatches, and a second scrub finds nothing to do and does not seal | `MismatchesAreScrubs` without `scrubbed`, `audit_chain` |
| after a failed store the "next replay re-runs the handler" (`idempotency.ts:110`) | the row stays pending: replays get 409 until its day is over | `SettleFails` of `Idempotency` |
| "Et publisert kurs inneholder aldri ..." (I1, `doc/design/CONTENT_LIFECYCLE.md:87`) | a draft item put into a published course, one request after the other | `SetItems` of `CourseContent`, which accepts what is not published |
| "arkivert men fortsatt publisert" does not exist (I3, same document, line 95) | editing an archived section publishes its new version; an archived course is published | `EditSection`, `PublishCourse` of `CourseContent` |
| the entry door and the use lock (`courseCommands.ts`, `contentLifecycle.ts`) | each reads before it writes: an archive and a `setCourseItems` that overlap leave archived content in a course, and an item put in while the course is published goes live as it is | `ItemsInCirculation` without `crossed`, `WholeWhenPublished` without `recast`, `content` |
| "A module may appear only once in a course" (`courseCommands.ts:358`) | two rewrites of a course that overlap leave the items of both, one that both put in twice | `SetItems` of `CourseContent` |
| a section in an issued certificate is not deleted (`contentLifecycle.ts:121`) | the certificate is issued by a check in flight between the guard and the delete | `Certified` in `ReadSectionToDelete` of `CourseContent` |

Four more follow from the same gap between read and write and have no document to contradict: `publishSection` puts an
older version back over a concurrent edit (`sectionCommands.ts:328`); the purge deletes a module published after it was
listed; a pass that commits between `findPassedCertificationsForModule` and the superseding update is superseded without
a notification; and one that commits between the list of pending versions and their publication escapes the question
whether passes are to be revised. A verdict about the old version that commits after the new one was published stands (#997,
`adminContentCommands.ts:1002`). The evaluation forgets: a flag that
would force a review, or a recommended outcome of manual review, in the first pass alone; both passes of a run that failed
later. It compares the totals the passes reported, not the recomputed ones. With a gate failed (`GatesPass`) the verdict has a step
down: below the threshold a human looks, above it the answer fails. A self-enrolment overwrites the deadline
somebody assigned and revives an enrolment that was revoked, and an overdue reminder is sent once per participant and course, also
when a new deadline passes later. Two audit rows are written outside the change they record: a certificate's
(`courseCompletionService.ts:100`) after it, a take-over's (`manualReviewService.ts:75`) before it.

## Not modelled

`PROJECT.json` "components" gives the reason for each part. In short: the language model, parsing, texts, reports,
authentication and configuration have no state of their own that a protocol could get wrong, and are inputs of the
models; e-mail and webhooks are the external effect of `Send`; the browser client may call any handler at any time,
which the models allow. Most lines of the repository are of this kind: the browser client and its translations, content
generation and import, reports. The modelled share of its lines is therefore small and will stay so.

Within the modelled parts are left out: statistics and alerts (they read), lock order
and deadlock aborts inside the database (an abort may strike at any step, `Abort`), more than one
participant or module in `DecisionLineage` (rows of different participants share nothing but the outbox), channels
that send nothing, which audit rows which module writes, the draw and grading of a test, the texts and parts of a
version, visibility of a course, class membership, and publishing thresholds (`publishModuleVersionWithThresholds`,
`adminContentCommands.ts:1233`), a clone of the active version that is published.

## The plan

What remains, in the order of what is most likely to be wrong.

1. `McqAttempt` composed with `AssessmentJobs` through the enqueue, with leases and fences; the verdict of
   `EvaluationPipeline` in place of the free choice in `Decide`.
2. Content ownership (last-owner rule), pseudonymisation and retention of submissions, the calibration's publication.
3. Class membership and the sources of visibility of a restricted course.
4. `Outbox!Look` composed with the completion check of `CourseContent`.

Proofs to add: the compositions above come with their own invariants. Of the present modules none of the runs' safety properties is
left; an abstract specification of what the outbox and the idempotency middleware promise, as `CaseDesk` is for the reviewers' desk, would say in
one place what their theorems say apart. Liveness, ENABLED and recursion over data stay with TLC.
