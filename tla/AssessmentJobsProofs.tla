---------------------- MODULE AssessmentJobsProofs ----------------------
(***************************************************************************)
(* Proofs about AssessmentJobs for every set of submissions, workers,      *)
(* requests, jobs and lock acquisitions, finite or not.                    *)
(*                                                                         *)
(* The argument.  A run looks for a verdict after it was given its fence.  *)
(* While it holds the fence its job is the only active one of the          *)
(* submission (the unique index), so no other run can hold a fence of that *)
(* submission, and only the holder of a fence writes a verdict.  Hence what*)
(* the look-up found is still true at the write.                           *)
(***************************************************************************)
EXTENDS AssessmentJobs, TLAPS

------------------------------------------------------------------------------
(* The inductive invariant, in parts.                                       *)

\* Rows are born once, in order, and belong to a submission from then on.
RowsInv ==
    \A j \in Jobs : /\ job[j].status # "ABSENT" => job[j].sub \in Submissions
                    /\ j > lastJob => job[j].status = "ABSENT"

\* The partial unique index.
OneActive ==
    \A j, k \in Jobs : /\ job[j].status \in ActiveStatus
                       /\ job[k].status \in ActiveStatus
                       /\ job[j].sub = job[k].sub
                       => j = k

\* A fence in a row is the one of a run of that very job; a fence is new when
\* it is given out.
FencesInv ==
    /\ \A j \in Jobs : job[j].fence # NoFence => /\ run[job[j].fence].pc # "unborn"
                                                 /\ run[job[j].fence].job = j
    /\ \A f \in Fences : f > lastFence => run[f].pc = "unborn"
    /\ \A f \in Fences : run[f].pc # "unborn" => /\ run[f].job \in Jobs
                                                 /\ job[run[f].job].status # "ABSENT"

\* A runner works on rows and runs that exist, a request on a submission.
RunnersInv ==
    \A r \in Runners :
        /\ runner[r].pc \in {"await", "catch", "retry", "fail"} =>
               /\ runner[r].run \in Fences
               /\ run[runner[r].run].pc # "unborn"
        /\ runner[r].pc = "lock" => runner[r].cand \in Jobs
        /\ \A e \in runner[r].stale : job[e.job].status # "ABSENT"
        /\ r \in Requests /\ runner[r].pc # "idle" => runner[r].sub \in Submissions

\* A verdict belongs to the submission of the run that wrote it, and that run
\* is past its transaction.
DecisionsInv ==
    \A d \in decisions : /\ run[d.run].pc \in {"effects", "done", "gone"}
                         /\ d.sub = SubOf(d.run)

\* A run that has returned, or is about to, leaves a submission with a verdict.
ReturnedInv ==
    \A f \in Fences : run[f].pc \in {"effects", "done"} => Decided(SubOf(f))

Verdicts ==
    /\ CheckStaysFresh
    /\ DecisionsInv
    /\ OneVerdict
    /\ ReturnedInv
    /\ SucceededHasVerdict

IInv == /\ TypeOK
        /\ RowsInv
        /\ OneActive
        /\ FencesInv
        /\ RunnersInv
        /\ Verdicts

------------------------------------------------------------------------------
(* The initial states.                                                      *)

LEMMA InitInvariant == Init => IInv
<1>1. SUFFICES ASSUME Init PROVE IInv
  OBVIOUS
<1>2. TypeOK
  BY <1>1, JobsAssumption DEF Init, TypeOK, NoRow, NoFence, NoJob, Start, Idle, JobStatus,
     Lease, RunPc, RunnerPc, SubmissionStatus, Runners, JobRow, Run, Runner
<1>3. RowsInv /\ OneActive /\ FencesInv
  BY <1>1, JobsAssumption DEF Init, RowsInv, OneActive, FencesInv, NoRow, ActiveStatus
<1>4. RunnersInv
  BY <1>1, JobsAssumption DEF Init, RunnersInv, Start, Idle, Runners
<1>5. Verdicts
  BY <1>1 DEF Init, Verdicts, CheckStaysFresh, DecisionsInv, OneVerdict, ReturnedInv,
     SucceededHasVerdict, NoRow
<1> QED
  BY <1>2, <1>3, <1>4, <1>5 DEF IInv

------------------------------------------------------------------------------
(* Writes to job rows that start no run.                                    *)

\* A write that creates no row, moves no row to another submission, gives out
\* no fence and revives a row only where the index allows it.
RowWrite ==
    /\ job' \in [Jobs -> JobRow]
    /\ \A j \in Jobs :
          /\ job'[j].sub = job[j].sub
          /\ job'[j].status = "ABSENT" <=> job[j].status = "ABSENT"
          /\ job'[j].fence \in {job[j].fence, NoFence}
          /\ job'[j].status = "RUNNING" => job[j].status = "RUNNING" /\ job'[j].fence = job[j].fence
          /\ job'[j].status = "SUCCEEDED" => job[j].status = "SUCCEEDED" \/ Decided(job[j].sub)
    /\ \A j \in Jobs : job'[j].status \in ActiveStatus /\ job[j].status \notin ActiveStatus =>
          /\ IndexAllows(j)
          /\ \A k \in Jobs : k # j => job'[k] = job[k]
    /\ UNCHANGED <<run, decisions, lastJob, lastFence>>

\* Such a write keeps the rows, the fences and every fact about verdicts.
LEMMA RowWriteKeeps ==
    ASSUME IInv, RowWrite
    PROVE  RowsInv' /\ OneActive' /\ FencesInv' /\ Verdicts'
<1>1. RowsInv'
  BY DEF IInv, RowWrite, RowsInv
<1>2. OneActive'
  BY DEF IInv, RowWrite, OneActive, IndexAllows, Active
<1>3. FencesInv'
  BY DEF IInv, RowWrite, FencesInv
<1>5. CheckStaysFresh'
  BY DEF IInv, RowWrite, Verdicts, CheckStaysFresh, FencesInv, Holds, SubOf, Decided
<1>6. DecisionsInv' /\ OneVerdict' /\ ReturnedInv'
  BY DEF IInv, TypeOK, Decision, RowWrite, Verdicts, DecisionsInv, OneVerdict, ReturnedInv,
     FencesInv, SubOf, Decided
<1>7. SucceededHasVerdict'
  BY DEF IInv, RowWrite, Verdicts, SucceededHasVerdict, Decided
<1> QED
  BY <1>1, <1>2, <1>3, <1>5, <1>6, <1>7 DEF Verdicts

\* A step that leaves rows, runs and verdicts alone is a RowWrite.
LEMMA QuietKeeps ==
    ASSUME IInv, UNCHANGED <<job, run, decisions, lastJob, lastFence>>
    PROVE  RowsInv' /\ OneActive' /\ FencesInv' /\ Verdicts'
<1>1. RowWrite
  BY DEF IInv, TypeOK, RowWrite
<1> QED
  BY <1>1, RowWriteKeeps

\* So is a step that writes one row, if the new row keeps what matters.
LEMMA OneRowWrite ==
    ASSUME IInv,
           NEW j \in Jobs, NEW row \in JobRow,
           job' = [job EXCEPT ![j] = row],
           UNCHANGED <<run, decisions, lastJob, lastFence>>,
           row.sub = job[j].sub,
           job[j].status # "ABSENT", row.status # "ABSENT",
           row.fence \in {job[j].fence, NoFence},
           row.status = "RUNNING" => job[j].status = "RUNNING" /\ row.fence = job[j].fence,
           row.status = "SUCCEEDED" => Decided(job[j].sub),
           row.status \in ActiveStatus /\ job[j].status \notin ActiveStatus => IndexAllows(j)
    PROVE  RowWrite
<1>1. job' \in [Jobs -> JobRow] /\ job'[j] = row
  BY DEF IInv, TypeOK
<1>2. \A k \in Jobs : k # j => job'[k] = job[k]
  BY DEF IInv, TypeOK
<1>3. \A k \in Jobs : job[k].status = "SUCCEEDED" => Decided(job[k].sub)
  BY DEF IInv, Verdicts, SucceededHasVerdict
<1>4. ASSUME NEW k \in Jobs
      PROVE  /\ job'[k].sub = job[k].sub
             /\ job'[k].status = "ABSENT" <=> job[k].status = "ABSENT"
             /\ job'[k].fence \in {job[k].fence, NoFence}
             /\ job'[k].status = "RUNNING" => /\ job[k].status = "RUNNING"
                                              /\ job'[k].fence = job[k].fence
             /\ job'[k].status = "SUCCEEDED" => \/ job[k].status = "SUCCEEDED"
                                                \/ Decided(job[k].sub)
  <2>1. CASE k = j
    BY <1>1, <2>1
  <2>2. CASE k # j
    BY <1>2, <2>2
  <2> QED
    BY <2>1, <2>2
<1>5. ASSUME NEW k \in Jobs, job'[k].status \in ActiveStatus, job[k].status \notin ActiveStatus
      PROVE  IndexAllows(k) /\ \A l \in Jobs : l # k => job'[l] = job[l]
  BY <1>1, <1>2, <1>5
<1> QED
  BY <1>1, <1>4, <1>5 DEF RowWrite

\* A runner that becomes a runner keeps the type.
LEMMA RunnerTyped ==
    ASSUME TypeOK, NEW r \in Runners, NEW x \in Runner, runner' = [runner EXCEPT ![r] = x]
    PROVE  runner' \in [Runners -> Runner]
BY DEF TypeOK

\* What is left to show of a step that writes rows, runners and bookkeeping.
LEMMA RowWriteSuffices ==
    ASSUME IInv, RowWrite, TypeOK', RunnersInv'
    PROVE  IInv'
BY RowWriteKeeps DEF IInv

------------------------------------------------------------------------------
(* One lemma per action.  First the steps that move a runner or a client only. *)

LEMMA EnqueueReadKeeps ==
    ASSUME IInv, NEW c \in Clients, NEW s \in Submissions, EnqueueRead(c, s)
    PROVE  IInv'
<1>1. TypeOK' /\ RunnersInv'
  BY DEF IInv, TypeOK, RunnersInv, EnqueueRead
<1>2. UNCHANGED <<job, run, decisions, lastJob, lastFence>>
  BY DEF EnqueueRead
<1> QED
  BY <1>1, <1>2, QuietKeeps DEF IInv

LEMMA SyncStartKeeps ==
    ASSUME IInv, NEW r \in Runners, NEW s \in Submissions, SyncStart(r, s)
    PROVE  IInv'
<1>1. runner' \in [Runners -> Runner]
  BY JobsAssumption DEF IInv, TypeOK, SyncStart, OnlyRunner, Idle, Runner, RunnerPc, StaleEntry, NoJob, NoFence
<1>2. TypeOK'
  BY <1>1, JobsAssumption DEF IInv, RunnersInv, TypeOK, SyncStart, OnlyRunner
<1>3. RunnersInv'
  BY JobsAssumption DEF RunnersInv, IInv, TypeOK, SyncStart, OnlyRunner, Idle, Runner, RunnerPc, StaleEntry
<1>4. UNCHANGED <<job, run, decisions, lastJob, lastFence>>
  BY DEF SyncStart, OnlyRunner
<1> QED
  BY <1>2, <1>3, <1>4, QuietKeeps DEF IInv

LEMMA SyncReturnKeeps ==
    ASSUME IInv, NEW r \in Runners, SyncReturn(r)
    PROVE  IInv'
<1>1. runner' \in [Runners -> Runner]
  BY JobsAssumption DEF IInv, TypeOK, SyncReturn, Idle, Runner, RunnerPc, StaleEntry, NoJob, NoFence
<1>2. TypeOK'
  BY <1>1, JobsAssumption DEF IInv, RunnersInv, TypeOK, SyncReturn
<1>3. RunnersInv'
  BY JobsAssumption DEF RunnersInv, IInv, TypeOK, SyncReturn, Idle, Runner, RunnerPc, StaleEntry
<1>4. UNCHANGED <<job, run, decisions, lastJob, lastFence>>
  BY DEF SyncReturn
<1> QED
  BY <1>2, <1>3, <1>4, QuietKeeps DEF IInv

LEMMA SyncGiveUpKeeps ==
    ASSUME IInv, NEW r \in Runners, SyncGiveUp(r)
    PROVE  IInv'
<1>1. runner' \in [Runners -> Runner]
  BY JobsAssumption DEF IInv, TypeOK, SyncGiveUp, OnlyRunner, Idle, Runner, RunnerPc, StaleEntry, NoJob, NoFence
<1>2. TypeOK'
  BY <1>1, JobsAssumption DEF IInv, RunnersInv, TypeOK, SyncGiveUp, OnlyRunner
<1>3. RunnersInv'
  BY JobsAssumption DEF RunnersInv, IInv, TypeOK, SyncGiveUp, OnlyRunner, Idle, Runner, RunnerPc, StaleEntry
<1>4. UNCHANGED <<job, run, decisions, lastJob, lastFence>>
  BY DEF SyncGiveUp, OnlyRunner
<1> QED
  BY <1>2, <1>3, <1>4, QuietKeeps DEF IInv

LEMMA ScanKeeps ==
    ASSUME IInv, NEW r \in Runners, Scan(r)
    PROVE  IInv'
<1> DEFINE stale == {[job |-> j, outcome |-> ResetStatus(j)] : j \in {k \in Jobs : Stale(k)}}
<1>1. runner' = [runner EXCEPT ![r].stale = stale,
                               ![r].pc = IF stale = {} THEN "find" ELSE "reset"]
  BY DEF Scan
<1>2. stale \subseteq StaleEntry /\ \A e \in stale : job[e.job].status # "ABSENT"
  BY DEF StaleEntry, Stale, ResetStatus
<1>3. UNCHANGED <<job, run, decisions, lastJob, lastFence>>
  BY DEF Scan, OnlyRunner
<1> HIDE DEF stale
<1>4. runner' \in [Runners -> Runner]
  <2> DEFINE pc == IF stale = {} THEN "find" ELSE "reset"
  <2> DEFINE x == [runner[r] EXCEPT !.stale = stale, !.pc = pc]
  <2>1. pc \in RunnerPc
    BY DEF RunnerPc
  <2>2. runner[r] \in Runner
    BY DEF IInv, TypeOK
  <2>3. runner' = [runner EXCEPT ![r] = x]
    BY <1>1 DEF IInv, TypeOK
  <2> HIDE DEF pc
  <2>4. x \in Runner
    BY <1>2, <2>1, <2>2 DEF Runner
  <2> HIDE DEF x
  <2> QED
    BY <2>3, <2>4, RunnerTyped DEF IInv
<1>5. TypeOK'
  BY <1>4 DEF IInv, TypeOK, Scan, OnlyRunner
<1>6. RunnersInv'
  BY <1>1, <1>2, <1>3 DEF IInv, TypeOK, RunnersInv, Runner, Scan
<1> QED
  BY <1>3, <1>5, <1>6, QuietKeeps DEF IInv

LEMMA ResetRejectedKeeps ==
    ASSUME IInv, NEW r \in Runners, ResetRejected(r)
    PROVE  IInv'
<1>1. runner' \in [Runners -> Runner]
  BY JobsAssumption DEF IInv, TypeOK, ResetRejected, OnlyRunner, Start, Idle, Runner, RunnerPc, StaleEntry, NoJob, NoFence
<1>2. TypeOK'
  BY <1>1, JobsAssumption DEF IInv, RunnersInv, TypeOK, ResetRejected, OnlyRunner
<1>3. RunnersInv'
  BY JobsAssumption DEF RunnersInv, IInv, TypeOK, ResetRejected, OnlyRunner, Start, Idle, Runner, RunnerPc, StaleEntry
<1>4. UNCHANGED <<job, run, decisions, lastJob, lastFence>>
  BY DEF ResetRejected, OnlyRunner
<1> QED
  BY <1>2, <1>3, <1>4, QuietKeeps DEF IInv

LEMMA FindRunnableKeeps ==
    ASSUME IInv, NEW r \in Runners, FindRunnable(r)
    PROVE  IInv'
<1>1. \/ runner' = [runner EXCEPT ![r] = Rest(r)]
      \/ \E j \in Jobs : runner' = [runner EXCEPT ![r].cand = j, ![r].pc = "lock"]
  BY DEF FindRunnable
<1>2. UNCHANGED <<job, run, decisions, lastJob, lastFence>> /\ runner[r].pc = "find"
  BY DEF FindRunnable, OnlyRunner
<1>3. CASE runner' = [runner EXCEPT ![r] = Rest(r)]
  <2>1. runner' \in [Runners -> Runner] /\ RunnersInv'
    BY <1>2, <1>3 DEF IInv, TypeOK, RunnersInv, Rest, Idle, Runner, RunnerPc, NoJob, NoFence
  <2>2. TypeOK'
    BY <2>1 DEF IInv, TypeOK, FindRunnable, OnlyRunner
  <2> QED
    BY <1>2, <2>1, <2>2, QuietKeeps DEF IInv
<1>4. ASSUME NEW j \in Jobs, runner' = [runner EXCEPT ![r].cand = j, ![r].pc = "lock"]
      PROVE  IInv'
  <2> DEFINE x == [runner[r] EXCEPT !.cand = j, !.pc = "lock"]
  <2>1. runner[r] \in Runner
    BY DEF IInv, TypeOK
  <2>2. x \in Runner
    BY <2>1 DEF Runner, RunnerPc
  <2>3. runner' = [runner EXCEPT ![r] = x]
    BY <1>4 DEF IInv, TypeOK
  <2> HIDE DEF x
  <2>4. runner' \in [Runners -> Runner]
    BY <2>2, <2>3, RunnerTyped DEF IInv
  <2>5. RunnersInv'
    BY <1>2, <1>4 DEF IInv, TypeOK, RunnersInv, Runner, RunnerPc
  <2>6. TypeOK'
    BY <2>4 DEF IInv, TypeOK, FindRunnable, OnlyRunner
  <2> QED
    BY <1>2, <2>5, <2>6, QuietKeeps DEF IInv
<1> QED
  BY <1>1, <1>3, <1>4

LEMMA LockLostKeeps ==
    ASSUME IInv, NEW r \in Runners, LockLost(r)
    PROVE  IInv'
<1>1. runner' \in [Runners -> Runner]
  BY JobsAssumption DEF IInv, TypeOK, LockLost, OnlyRunner, Rest, Idle, Runner, RunnerPc, StaleEntry, NoJob, NoFence
<1>2. TypeOK'
  BY <1>1, JobsAssumption DEF IInv, RunnersInv, TypeOK, LockLost, OnlyRunner
<1>3. RunnersInv'
  BY JobsAssumption DEF RunnersInv, IInv, TypeOK, LockLost, OnlyRunner, Rest, Idle, Runner, RunnerPc, StaleEntry
<1>4. UNCHANGED <<job, run, decisions, lastJob, lastFence>>
  BY DEF LockLost, OnlyRunner
<1> QED
  BY <1>2, <1>3, <1>4, QuietKeeps DEF IInv

LEMMA AwaitFailsKeeps ==
    ASSUME IInv, NEW r \in Runners, AwaitFails(r)
    PROVE  IInv'
<1>1. runner' \in [Runners -> Runner]
  <2> DEFINE x == [runner[r] EXCEPT !.pc = "catch"]
  <2>1. runner[r] \in Runner
    BY DEF IInv, TypeOK
  <2>2. x \in Runner
    BY <2>1 DEF Runner, RunnerPc
  <2>3. runner' = [runner EXCEPT ![r] = x]
    BY DEF AwaitFails, IInv, TypeOK
  <2> HIDE DEF x
  <2>4. QED
    BY <2>2, <2>3, RunnerTyped DEF IInv
<1>2. TypeOK'
  BY <1>1, JobsAssumption DEF IInv, RunnersInv, TypeOK, AwaitFails, OnlyRunner
<1>3. RunnersInv'
  BY JobsAssumption DEF RunnersInv, IInv, TypeOK, AwaitFails, OnlyRunner, Runner, RunnerPc, StaleEntry
<1>4. UNCHANGED <<job, run, decisions, lastJob, lastFence>>
  BY DEF AwaitFails, OnlyRunner
<1> QED
  BY <1>2, <1>3, <1>4, QuietKeeps DEF IInv

LEMMA CatchReadKeeps ==
    ASSUME IInv, NEW r \in Runners, CatchRead(r)
    PROVE  IInv'
<1>1. runner' \in [Runners -> Runner]
  <2> DEFINE pc == IF RetryLeft(run[runner[r].run].job) THEN "retry" ELSE "fail"
             x == [runner[r] EXCEPT !.pc = pc]
  <2>1. runner[r] \in Runner
    BY DEF IInv, TypeOK
  <2>2. pc \in RunnerPc
    BY DEF RunnerPc
  <2>3. runner' = [runner EXCEPT ![r] = x]
    BY DEF CatchRead, IInv, TypeOK
  <2> HIDE DEF pc
  <2>4. x \in Runner
    BY <2>1, <2>2 DEF Runner
  <2> HIDE DEF x
  <2>5. QED
    BY <2>3, <2>4, RunnerTyped DEF IInv
<1>2. TypeOK'
  BY <1>1, JobsAssumption DEF IInv, RunnersInv, TypeOK, CatchRead, OnlyRunner
<1>3. RunnersInv'
  BY JobsAssumption DEF RunnersInv, IInv, TypeOK, CatchRead, OnlyRunner, RetryLeft, Runner, RunnerPc, StaleEntry
<1>4. UNCHANGED <<job, run, decisions, lastJob, lastFence>>
  BY DEF CatchRead, OnlyRunner
<1> QED
  BY <1>2, <1>3, <1>4, QuietKeeps DEF IInv

LEMMA RunnerThrowsKeeps ==
    ASSUME IInv, NEW r \in Runners, RunnerThrows(r)
    PROVE  IInv'
<1>1. runner' \in [Runners -> Runner]
  BY JobsAssumption DEF IInv, TypeOK, RunnerThrows, Start, Idle, Runner, RunnerPc, StaleEntry, NoJob, NoFence
<1>2. TypeOK'
  BY <1>1, JobsAssumption DEF IInv, RunnersInv, TypeOK, RunnerThrows
<1>3. RunnersInv'
  BY JobsAssumption DEF RunnersInv, IInv, TypeOK, RunnerThrows, Start, Idle, Runner, RunnerPc, StaleEntry
<1>4. UNCHANGED <<job, run, decisions, lastJob, lastFence>>
  BY DEF RunnerThrows
<1> QED
  BY <1>2, <1>3, <1>4, QuietKeeps DEF IInv

------------------------------------------------------------------------------
(* The writes to job rows.                                                  *)

LEMMA ResetStaleKeeps ==
    ASSUME IInv, NEW r \in Runners, ResetStale(r)
    PROVE  IInv'
<1>1. PICK e \in runner[r].stale :
          /\ e.outcome = "PENDING" => IndexAllows(e.job)
          /\ job' = [job EXCEPT ![e.job] =
                        [@ EXCEPT !.status = e.outcome, !.fence = NoFence,
                                  !.lease = "none", !.available = "now"]]
          /\ runner' = [runner EXCEPT ![r].stale = runner[r].stale \ {e},
                           ![r].pc = IF runner[r].stale \ {e} = {} THEN "find" ELSE "reset"]
  BY DEF ResetStale
<1>2. e \in StaleEntry /\ e.job \in Jobs /\ job[e.job].status # "ABSENT"
  BY DEF IInv, TypeOK, Runner, RunnersInv, StaleEntry
<1> DEFINE row == [job[e.job] EXCEPT !.status = e.outcome, !.fence = NoFence,
                                     !.lease = "none", !.available = "now"]
<1>3. /\ row \in JobRow
      /\ row.sub = job[e.job].sub
      /\ row.fence = NoFence
      /\ row.status \in {"FAILED", "PENDING"}
      /\ row.status = "PENDING" => IndexAllows(e.job)
  <2>1. job[e.job] \in JobRow /\ e.outcome \in {"PENDING", "FAILED"}
    BY <1>2 DEF IInv, TypeOK, StaleEntry
  <2> QED
    BY <1>1, <2>1 DEF JobRow, JobStatus, Lease
<1>4. job' = [job EXCEPT ![e.job] = row]
  BY <1>1
<1>5. UNCHANGED <<run, decisions, lastJob, lastFence>>
  BY DEF ResetStale, OnlyRunnerAndJob
<1>6. RowWrite
  <2> HIDE DEF row
  <2> QED
    BY <1>2, <1>3, <1>4, <1>5, OneRowWrite DEF ActiveStatus
<1>7. runner' \in [Runners -> Runner]
  <2> DEFINE left == runner[r].stale \ {e}
             pc == IF left = {} THEN "find" ELSE "reset"
             x == [runner[r] EXCEPT !.stale = left, !.pc = pc]
  <2>1. runner[r] \in Runner
    BY DEF IInv, TypeOK
  <2>2. left \in SUBSET StaleEntry /\ pc \in RunnerPc
    BY <2>1 DEF Runner, RunnerPc
  <2>3. runner' = [runner EXCEPT ![r] = x]
    BY <1>1 DEF IInv, TypeOK
  <2> HIDE DEF left, pc
  <2>4. x \in Runner
    BY <2>1, <2>2 DEF Runner
  <2> HIDE DEF x
  <2> QED
    BY <2>3, <2>4, RunnerTyped DEF IInv
<1>8. TypeOK'
  BY <1>6, <1>7 DEF IInv, TypeOK, RowWrite, ResetStale, OnlyRunnerAndJob
<1>9. RunnersInv'
  <2>1. \A q \in Runners : \A d \in runner'[q].stale : d \in runner[q].stale /\ d.job \in Jobs
    BY <1>1, <1>2 DEF IInv, TypeOK, Runner, StaleEntry
  <2>2. \A j \in Jobs : job'[j].status = "ABSENT" <=> job[j].status = "ABSENT"
    BY <1>6 DEF RowWrite
  <2>3. \A q \in Runners : /\ runner'[q].pc = runner[q].pc \/ runner'[q].pc \in {"find", "reset"}
                           /\ runner'[q].run = runner[q].run
                           /\ runner'[q].cand = runner[q].cand
                           /\ runner'[q].sub = runner[q].sub
                           /\ runner'[q].pc # "idle" => runner[q].pc # "idle"
    BY <1>1 DEF IInv, TypeOK, Runner, ResetStale
  <2> QED
    BY <1>5, <2>1, <2>2, <2>3 DEF IInv, RunnersInv
<1> QED
  BY <1>6, <1>8, <1>9, RowWriteSuffices

LEMMA MarkSucceededKeeps ==
    ASSUME IInv, NEW r \in Runners, MarkSucceeded(r)
    PROVE  IInv'
<1> DEFINE f == runner[r].run
           row == [job[run[f].job] EXCEPT !.status = "SUCCEEDED", !.lease = "none"]
<1>1. f \in Fences /\ run[f].pc # "unborn" /\ run[f].job \in Jobs
  BY DEF IInv, RunnersInv, FencesInv, MarkSucceeded
<1>2. UNCHANGED <<run, decisions, lastJob, lastFence>>
  BY DEF MarkSucceeded, OnlyRunnerAndJob
<1>3. RowWrite
  <2>1. CASE Holds(f)
    <3>1. job' = [job EXCEPT ![run[f].job] = row]
      BY <2>1 DEF MarkSucceeded, Holds
    <3>2. /\ row \in JobRow
          /\ row.sub = job[run[f].job].sub
          /\ row.fence = job[run[f].job].fence
          /\ row.status = "SUCCEEDED" /\ Decided(job[run[f].job].sub)
      <4>1. job[run[f].job] \in JobRow
        BY <1>1 DEF IInv, TypeOK
      <4>2. Decided(job[run[f].job].sub)
        BY <1>1 DEF IInv, MarkSucceeded, Returned, Verdicts, ReturnedInv, SubOf
      <4> QED
        BY <4>1, <4>2 DEF JobRow, JobStatus, Lease
    <3>3. job[run[f].job].status = "RUNNING"
      BY <2>1 DEF Holds
    <3> HIDE DEF row
    <3> QED
      BY <1>1, <1>2, <3>1, <3>2, <3>3, OneRowWrite DEF ActiveStatus
  <2>2. CASE ~Holds(f)
    BY <1>2, <2>2 DEF MarkSucceeded, RowWrite, IInv, TypeOK
  <2> QED
    BY <2>1, <2>2
<1>4. runner' \in [Runners -> Runner]
  BY DEF IInv, TypeOK, MarkSucceeded, Rest, Idle, Runner, RunnerPc, StaleEntry, NoJob, NoFence
<1>5. TypeOK'
  BY <1>3, <1>4 DEF IInv, TypeOK, RowWrite, MarkSucceeded, OnlyRunnerAndJob
<1>6. RunnersInv'
  <2>1. \A j \in Jobs : job'[j].status = "ABSENT" <=> job[j].status = "ABSENT"
    BY <1>3 DEF RowWrite
  <2>2. runner' = [runner EXCEPT ![r] = Rest(r)] /\ runner \in [Runners -> Runner]
    BY DEF IInv, TypeOK, MarkSucceeded
  <2>3. \A q \in Runners : \A d \in runner[q].stale : d.job \in Jobs
    BY DEF IInv, TypeOK, Runner, StaleEntry
  <2>4. runner[r].pc # "idle"
    BY DEF MarkSucceeded
  <2> QED
    BY <1>2, <2>1, <2>2, <2>3, <2>4 DEF IInv, RunnersInv, Rest, Idle
<1> QED
  BY <1>3, <1>5, <1>6, RowWriteSuffices

LEMMA FailKeeps ==
    ASSUME IInv, NEW r \in Runners, Fail(r)
    PROVE  IInv'
<1> DEFINE f == runner[r].run
           row == [job[run[f].job] EXCEPT !.status = "FAILED", !.lease = "none"]
<1>1. f \in Fences /\ run[f].pc # "unborn" /\ run[f].job \in Jobs
  BY DEF IInv, RunnersInv, FencesInv, Fail
<1>2. UNCHANGED <<run, decisions, lastJob, lastFence>>
  BY DEF Fail, OnlyRunnerAndJob
<1>3. RowWrite
  <2>1. CASE Holds(f)
    <3>1. job' = [job EXCEPT ![run[f].job] = row]
      BY <2>1 DEF Fail, Holds
    <3>2. /\ row \in JobRow
          /\ row.sub = job[run[f].job].sub
          /\ row.fence = job[run[f].job].fence
          /\ row.status \in {"PENDING", "FAILED"}
      <4>1. job[run[f].job] \in JobRow
        BY <1>1 DEF IInv, TypeOK
      <4> QED
        BY <4>1 DEF JobRow, JobStatus, Lease
    <3>3. job[run[f].job].status = "RUNNING"
      BY <2>1 DEF Holds
    <3> HIDE DEF row
    <3> QED
      BY <1>1, <1>2, <3>1, <3>2, <3>3, OneRowWrite DEF ActiveStatus
  <2>2. CASE ~Holds(f)
    BY <1>2, <2>2 DEF Fail, RowWrite, IInv, TypeOK
  <2> QED
    BY <2>1, <2>2
<1>4. runner' \in [Runners -> Runner]
  BY DEF IInv, TypeOK, Fail, Rest, Idle, Runner, RunnerPc, StaleEntry, NoJob, NoFence
<1>5. TypeOK'
  BY <1>3, <1>4 DEF IInv, TypeOK, RowWrite, Fail, OnlyRunnerAndJob
<1>6. RunnersInv'
  <2>1. \A j \in Jobs : job'[j].status = "ABSENT" <=> job[j].status = "ABSENT"
    BY <1>3 DEF RowWrite
  <2>2. runner' = [runner EXCEPT ![r] = Rest(r)] /\ runner \in [Runners -> Runner]
    BY DEF IInv, TypeOK, Fail
  <2>3. \A q \in Runners : \A d \in runner[q].stale : d.job \in Jobs
    BY DEF IInv, TypeOK, Runner, StaleEntry
  <2>4. runner[r].pc # "idle"
    BY DEF Fail
  <2> QED
    BY <1>2, <2>1, <2>2, <2>3, <2>4 DEF IInv, RunnersInv, Rest, Idle
<1> QED
  BY <1>3, <1>5, <1>6, RowWriteSuffices

LEMMA RetryKeeps ==
    ASSUME IInv, NEW r \in Runners, Retry(r)
    PROVE  IInv'
<1> DEFINE f == runner[r].run
           row == [job[run[f].job] EXCEPT !.status = "PENDING", !.available = "later",
                                   !.lease = "none"]
<1>1. f \in Fences /\ run[f].pc # "unborn" /\ run[f].job \in Jobs
  BY DEF IInv, RunnersInv, FencesInv, Retry
<1>2. UNCHANGED <<run, decisions, lastJob, lastFence>>
  BY DEF Retry, OnlyRunnerAndJob
<1>3. RowWrite
  <2>1. CASE Holds(f)
    <3>1. job' = [job EXCEPT ![run[f].job] = row]
      BY <2>1 DEF Retry, Holds
    <3>2. /\ row \in JobRow
          /\ row.sub = job[run[f].job].sub
          /\ row.fence = job[run[f].job].fence
          /\ row.status \in {"PENDING", "FAILED"}
      <4>1. job[run[f].job] \in JobRow
        BY <1>1 DEF IInv, TypeOK
      <4> QED
        BY <4>1 DEF JobRow, JobStatus, Lease
    <3>3. job[run[f].job].status = "RUNNING"
      BY <2>1 DEF Holds
    <3> HIDE DEF row
    <3> QED
      BY <1>1, <1>2, <3>1, <3>2, <3>3, OneRowWrite DEF ActiveStatus
  <2>2. CASE ~Holds(f)
    BY <1>2, <2>2 DEF Retry, RowWrite, IInv, TypeOK
  <2> QED
    BY <2>1, <2>2
<1>4. runner' \in [Runners -> Runner]
  BY DEF IInv, TypeOK, Retry, Rest, Idle, Runner, RunnerPc, StaleEntry, NoJob, NoFence
<1>5. TypeOK'
  BY <1>3, <1>4 DEF IInv, TypeOK, RowWrite, Retry, OnlyRunnerAndJob
<1>6. RunnersInv'
  <2>1. \A j \in Jobs : job'[j].status = "ABSENT" <=> job[j].status = "ABSENT"
    BY <1>3 DEF RowWrite
  <2>2. runner' = [runner EXCEPT ![r] = Rest(r)] /\ runner \in [Runners -> Runner]
    BY DEF IInv, TypeOK, Retry
  <2>3. \A q \in Runners : \A d \in runner[q].stale : d.job \in Jobs
    BY DEF IInv, TypeOK, Runner, StaleEntry
  <2>4. runner[r].pc # "idle"
    BY DEF Retry
  <2> QED
    BY <1>2, <2>1, <2>2, <2>3, <2>4 DEF IInv, RunnersInv, Rest, Idle
<1> QED
  BY <1>3, <1>5, <1>6, RowWriteSuffices

LEMMA RenewLeaseKeeps ==
    ASSUME IInv, NEW r \in Runners, RenewLease(r)
    PROVE  IInv'
<1> DEFINE k == run[runner[r].run].job
           row == [job[k] EXCEPT !.lease = "live"]
<1>1. k \in Jobs /\ job[k].status \in JobStatus \ {"ABSENT", "SUCCEEDED"}
  BY DEF IInv, RenewLease, JobStatus, Holds, RunnersInv, FencesInv
<1>2. UNCHANGED <<run, runner, decisions, lastJob, lastFence>>
  BY DEF RenewLease, OnlyJob
<1>3. /\ row \in JobRow
      /\ row.sub = job[k].sub
      /\ row.status = job[k].status /\ row.fence = job[k].fence
  <2>1. job[k] \in JobRow
    BY <1>1 DEF IInv, TypeOK
  <2> HIDE DEF k
  <2> QED
    BY <2>1 DEF JobRow, Lease
<1>4. job' = [job EXCEPT ![k] = row]
  BY DEF RenewLease
<1>5. RowWrite
  <2> HIDE DEF row, k
  <2> QED
    BY <1>1, <1>2, <1>3, <1>4, OneRowWrite DEF ActiveStatus, JobStatus
<1>6. TypeOK'
  BY <1>5 DEF IInv, TypeOK, RowWrite, RenewLease, OnlyJob
<1>7. RunnersInv'
  <2>1. \A i \in Jobs : job'[i].status = "ABSENT" <=> job[i].status = "ABSENT"
    BY <1>5 DEF RowWrite
  <2>2. \A q \in Runners : \A d \in runner[q].stale : d.job \in Jobs
    BY DEF IInv, TypeOK, Runner, StaleEntry
  <2> QED
    BY <1>2, <2>1, <2>2 DEF IInv, RunnersInv
<1> QED
  BY <1>5, <1>6, <1>7, RowWriteSuffices

LEMMA LeaseLapsesKeeps ==
    ASSUME IInv, NEW j \in Jobs, LeaseLapses(j)
    PROVE  IInv'
<1> DEFINE k == j
           row == [job[k] EXCEPT !.lease = "lapsed"]
<1>1. k \in Jobs /\ job[k].status \in JobStatus \ {"ABSENT", "SUCCEEDED"}
  BY DEF IInv, LeaseLapses, JobStatus
<1>2. UNCHANGED <<run, runner, decisions, lastJob, lastFence>>
  BY DEF LeaseLapses, OnlyJob
<1>3. /\ row \in JobRow
      /\ row.sub = job[k].sub
      /\ row.status = job[k].status /\ row.fence = job[k].fence
  BY <1>1 DEF IInv, TypeOK, JobRow, JobStatus, Lease, LeaseLapses
<1>4. job' = [job EXCEPT ![k] = row]
  BY DEF LeaseLapses
<1>5. RowWrite
  <2> HIDE DEF row, k
  <2> QED
    BY <1>1, <1>2, <1>3, <1>4, OneRowWrite DEF ActiveStatus, JobStatus
<1>6. TypeOK'
  BY <1>5 DEF IInv, TypeOK, RowWrite, LeaseLapses, OnlyJob
<1>7. RunnersInv'
  <2>1. \A i \in Jobs : job'[i].status = "ABSENT" <=> job[i].status = "ABSENT"
    BY <1>5 DEF RowWrite
  <2>2. \A q \in Runners : \A d \in runner[q].stale : d.job \in Jobs
    BY DEF IInv, TypeOK, Runner, StaleEntry
  <2> QED
    BY <1>2, <2>1, <2>2 DEF IInv, RunnersInv
<1> QED
  BY <1>5, <1>6, <1>7, RowWriteSuffices

LEMMA BackoffElapsesKeeps ==
    ASSUME IInv, NEW j \in Jobs, BackoffElapses(j)
    PROVE  IInv'
<1> DEFINE k == j
           row == [job[k] EXCEPT !.available = "now"]
<1>1. k \in Jobs /\ job[k].status \in JobStatus \ {"ABSENT", "SUCCEEDED"}
  BY DEF IInv, BackoffElapses, JobStatus
<1>2. UNCHANGED <<run, runner, decisions, lastJob, lastFence>>
  BY DEF BackoffElapses, OnlyJob
<1>3. /\ row \in JobRow
      /\ row.sub = job[k].sub
      /\ row.status = job[k].status /\ row.fence = job[k].fence
  BY <1>1 DEF IInv, TypeOK, JobRow, JobStatus, Lease, BackoffElapses
<1>4. job' = [job EXCEPT ![k] = row]
  BY DEF BackoffElapses
<1>5. RowWrite
  <2> HIDE DEF row, k
  <2> QED
    BY <1>1, <1>2, <1>3, <1>4, OneRowWrite DEF ActiveStatus, JobStatus
<1>6. TypeOK'
  BY <1>5 DEF IInv, TypeOK, RowWrite, BackoffElapses, OnlyJob
<1>7. RunnersInv'
  <2>1. \A i \in Jobs : job'[i].status = "ABSENT" <=> job[i].status = "ABSENT"
    BY <1>5 DEF RowWrite
  <2>2. \A q \in Runners : \A d \in runner[q].stale : d.job \in Jobs
    BY DEF IInv, TypeOK, Runner, StaleEntry
  <2> QED
    BY <1>2, <2>1, <2>2 DEF IInv, RunnersInv
<1> QED
  BY <1>5, <1>6, <1>7, RowWriteSuffices

LEMMA OperatorRequeueKeeps ==
    ASSUME IInv, NEW j \in Jobs, OperatorRequeue(j)
    PROVE  IInv'
<1> DEFINE k == j
           row == [job[k] EXCEPT !.status = "PENDING", !.available = "now",
                            !.fence = NoFence, !.lease = "none"]
<1>1. k \in Jobs /\ job[k].status \in JobStatus \ {"ABSENT", "SUCCEEDED"}
  BY DEF IInv, OperatorRequeue, JobStatus
<1>2. UNCHANGED <<run, runner, decisions, lastJob, lastFence>>
  BY DEF OperatorRequeue, OnlyJob
<1>3. /\ row \in JobRow
      /\ row.sub = job[k].sub
      /\ row.status = "PENDING" /\ row.fence = NoFence /\ IndexAllows(k)
  BY <1>1 DEF IInv, TypeOK, JobRow, JobStatus, Lease, OperatorRequeue
<1>4. job' = [job EXCEPT ![k] = row]
  BY DEF OperatorRequeue
<1>5. RowWrite
  <2> HIDE DEF row, k
  <2> QED
    BY <1>1, <1>2, <1>3, <1>4, OneRowWrite DEF ActiveStatus, JobStatus
<1>6. TypeOK'
  BY <1>5 DEF IInv, TypeOK, RowWrite, OperatorRequeue, OnlyJob
<1>7. RunnersInv'
  <2>1. \A i \in Jobs : job'[i].status = "ABSENT" <=> job[i].status = "ABSENT"
    BY <1>5 DEF RowWrite
  <2>2. \A q \in Runners : \A d \in runner[q].stale : d.job \in Jobs
    BY DEF IInv, TypeOK, Runner, StaleEntry
  <2> QED
    BY <1>2, <2>1, <2>2 DEF IInv, RunnersInv
<1> QED
  BY <1>5, <1>6, <1>7, RowWriteSuffices

------------------------------------------------------------------------------
(* A new row.                                                               *)

LEMMA EnqueueCreateKeeps ==
    ASSUME IInv, NEW c \in Clients, EnqueueCreate(c)
    PROVE  IInv'
<1>1. CASE Active(client[c]) # {}
  <2>1. UNCHANGED <<job, run, decisions, lastJob, lastFence>>
    BY <1>1 DEF EnqueueCreate, jobVars
  <2>2. TypeOK' /\ RunnersInv'
    BY <2>1, JobsAssumption DEF IInv, TypeOK, RunnersInv, EnqueueCreate
  <2> QED
    BY <2>1, <2>2, QuietKeeps DEF IInv
<1>2. CASE Active(client[c]) = {}
  <2> DEFINE n == lastJob + 1
             s == client[c]
             row == [NoRow EXCEPT !.sub = s, !.status = "PENDING", !.available = "now"]
  <2>1. /\ n \in Jobs /\ lastJob' = n
        /\ s \in Submissions
        /\ job' = [job EXCEPT ![n] = row]
        /\ UNCHANGED <<run, runner, status, decisions, outbox, answered, lastFence, faults>>
        /\ client' = [client EXCEPT ![c] = None]
    BY <1>2 DEF EnqueueCreate, IInv, TypeOK
  <2>2. /\ row \in JobRow
        /\ row.sub = s /\ row.status = "PENDING" /\ row.fence = NoFence
    BY <2>1 DEF NoRow, JobRow, JobStatus, Lease, NoFence
  <2>3. job[n].status = "ABSENT" /\ n \in Nat
    BY <2>1 DEF IInv, TypeOK, RowsInv
  <2> HIDE DEF row
  <2>4. /\ job' \in [Jobs -> JobRow]
        /\ job'[n] = row
        /\ \A j \in Jobs : j # n => job'[j] = job[j]
    BY <2>1, <2>2 DEF IInv, TypeOK
  <2>5. TypeOK'
    BY <2>1, <2>3, <2>4 DEF IInv, TypeOK
  <2>6. RowsInv'
    BY <2>1, <2>2, <2>3, <2>4, JobsAssumption DEF IInv, TypeOK, RowsInv
  <2>7. OneActive'
    BY <1>2, <2>2, <2>4 DEF IInv, OneActive, Active
  <2>8. FencesInv' /\ RunnersInv'
    BY <2>1, <2>2, <2>3, <2>4 DEF IInv, TypeOK, Runner, StaleEntry, FencesInv, RunnersInv
  <2>9. \A f \in Fences : run[f].pc # "unborn" =>
            run[f].job \in Jobs /\ run[f].job # n /\ SubOf(f)' = SubOf(f) /\ Holds(f)' = Holds(f)
    BY <2>1, <2>3, <2>4 DEF IInv, FencesInv, SubOf, Holds
  <2>10. CheckStaysFresh'
    BY <2>1, <2>9 DEF IInv, Verdicts, CheckStaysFresh, Decided
  <2>11. DecisionsInv' /\ OneVerdict' /\ ReturnedInv'
    BY <2>1, <2>9 DEF IInv, TypeOK, Decision, Verdicts, DecisionsInv, OneVerdict, ReturnedInv, Decided
  <2>12. SucceededHasVerdict'
    BY <2>1, <2>2, <2>4 DEF IInv, Verdicts, SucceededHasVerdict, Decided
  <2> QED
    BY <2>5, <2>6, <2>7, <2>8, <2>10, <2>11, <2>12 DEF IInv, Verdicts
<1> QED
  BY <1>1, <1>2

------------------------------------------------------------------------------
(* A new fence, and the run it starts.                                      *)

LEMMA LockKeeps ==
    ASSUME IInv, NEW r \in Runners, Lock(r)
    PROVE  IInv'
<1> DEFINE c == runner[r].cand
           g == lastFence + 1
           row == [job[c] EXCEPT !.status = "RUNNING", !.attempts = job[c].attempts + 1,
                                 !.fence = g, !.lease = "live"]
<1>1. /\ c \in Jobs /\ job[c].status = "PENDING"
      /\ g \in Fences /\ lastFence' = g
      /\ job' = [job EXCEPT ![c] = row]
      /\ run' = [run EXCEPT ![g] = [pc |-> "check", job |-> c, by |-> r]]
      /\ runner' = [runner EXCEPT ![r].pc = "await", ![r].run = g]
      /\ UNCHANGED <<client, status, decisions, outbox, answered, lastJob, faults>>
  <2>1. c \in Jobs
    BY DEF Lock, IInv, RunnersInv
  <2>2. job' = [job EXCEPT ![c] = row]
    BY DEF Lock
  <2> HIDE DEF row
  <2> QED
    BY <2>1, <2>2 DEF Lock
<1>2. g > lastFence /\ g \in Nat /\ run[g].pc = "unborn" /\ g # NoFence
  BY <1>1, JobsAssumption DEF IInv, TypeOK, FencesInv, NoFence
<1>3. /\ row \in JobRow
      /\ row.sub = job[c].sub /\ row.status = "RUNNING" /\ row.fence = g
  <2> DEFINE a == job[c].attempts + 1
  <2>1. job[c] \in JobRow
    BY <1>1 DEF IInv, TypeOK
  <2>2. a \in Nat
    BY <2>1 DEF JobRow
  <2> HIDE DEF a
  <2> QED
    BY <1>1, <2>1, <2>2 DEF JobRow, JobStatus, Lease, a
<1> HIDE DEF row
<1>4. /\ job' \in [Jobs -> JobRow]
      /\ job'[c] = row
      /\ \A j \in Jobs : j # c => job'[j] = job[j]
  BY <1>1, <1>3 DEF IInv, TypeOK
<1>5. /\ run' \in [Fences -> Run]
      /\ run'[g] = [pc |-> "check", job |-> c, by |-> r]
      /\ \A f \in Fences : f # g => run'[f] = run[f]
  BY <1>1 DEF IInv, TypeOK, Run, RunPc
<1>6. /\ runner' \in [Runners -> Runner]
      /\ runner'[r].pc = "await" /\ runner'[r].run = g
      /\ runner'[r].sub = runner[r].sub /\ runner'[r].stale = runner[r].stale
      /\ \A q \in Runners : q # r => runner'[q] = runner[q]
  <2> DEFINE x == [runner[r] EXCEPT !.pc = "await", !.run = g]
  <2>1. runner[r] \in Runner
    BY <1>1 DEF IInv, TypeOK
  <2>2. /\ x \in Runner /\ x.pc = "await" /\ x.run = g
        /\ x.sub = runner[r].sub /\ x.stale = runner[r].stale
    BY <1>1, <2>1 DEF Runner, RunnerPc
  <2>3. runner' = [runner EXCEPT ![r] = x]
    BY <1>1 DEF IInv, TypeOK
  <2> HIDE DEF x
  <2> QED
    BY <2>2, <2>3 DEF IInv, TypeOK
<1>7. TypeOK'
  BY <1>1, <1>2, <1>4, <1>5, <1>6 DEF IInv, TypeOK
<1>8. RowsInv' /\ OneActive'
  BY <1>1, <1>3, <1>4 DEF IInv, RowsInv, OneActive, ActiveStatus
<1>9. FencesInv'
  <2>1. ASSUME NEW j \in Jobs, job'[j].fence # NoFence
        PROVE  run'[job'[j].fence].pc # "unborn" /\ run'[job'[j].fence].job = j
    <3>1. CASE j = c
      BY <1>1, <1>3, <1>4, <1>5, <3>1
    <3>2. CASE j # c
      <4>1. job[j].fence \in Fences /\ job[j].fence # g
        BY <1>2, <1>4, <2>1, <3>2 DEF IInv, TypeOK, JobRow, FencesInv
      <4> QED
        BY <1>4, <1>5, <2>1, <3>2, <4>1 DEF IInv, FencesInv
    <3> QED
      BY <3>1, <3>2
  <2>2. \A f \in Fences : f > lastFence' => run'[f].pc = "unborn"
    BY <1>1, <1>2, <1>5, JobsAssumption DEF IInv, TypeOK, FencesInv
  <2>3. \A f \in Fences : run'[f].pc # "unborn" => /\ run'[f].job \in Jobs
                                                   /\ job'[run'[f].job].status # "ABSENT"
    BY <1>1, <1>3, <1>4, <1>5 DEF IInv, FencesInv
  <2> QED
    BY <2>1, <2>2, <2>3 DEF FencesInv
<1>10. RunnersInv'
  <2>1. \A j \in Jobs : job[j].status # "ABSENT" => job'[j].status # "ABSENT"
    BY <1>3, <1>4
  <2>2. \A q \in Runners : \A d \in runner[q].stale : d.job \in Jobs
    BY DEF IInv, TypeOK, Runner, StaleEntry
  <2>3. \A f \in Fences : run[f].pc # "unborn" => run'[f].pc # "unborn"
    BY <1>2, <1>5
  <2>4. runner[r].pc = "lock" /\ run'[g].pc # "unborn"
    BY <1>5 DEF Lock
  <2> QED
    BY <1>1, <1>6, <2>1, <2>2, <2>3, <2>4 DEF IInv, RunnersInv
<1>11. \A f \in Fences : run[f].pc # "unborn" =>
            /\ f # g
            /\ run[f].job \in Jobs
            /\ SubOf(f)' = SubOf(f)
            /\ Holds(f)' => Holds(f)
  BY <1>1, <1>2, <1>3, <1>4, <1>5 DEF IInv, FencesInv, SubOf, Holds
<1>12. CheckStaysFresh'
  BY <1>1, <1>2, <1>5, <1>11 DEF IInv, Verdicts, CheckStaysFresh, Decided
<1>13. DecisionsInv' /\ OneVerdict' /\ ReturnedInv'
  BY <1>1, <1>2, <1>5, <1>11
  DEF IInv, TypeOK, Decision, Verdicts, DecisionsInv, OneVerdict, ReturnedInv, Decided
<1>14. SucceededHasVerdict'
  BY <1>1, <1>3, <1>4 DEF IInv, Verdicts, SucceededHasVerdict, Decided
<1> QED
  BY <1>7, <1>8, <1>9, <1>10, <1>12, <1>13, <1>14 DEF IInv, Verdicts

------------------------------------------------------------------------------
(* The steps of a run, and the death of a process.                          *)

\* A step that leaves the rows alone and moves runs so that none is born or
\* unborn keeps the links between rows, runs and runners.
LEMMA RunMoveKeeps ==
    ASSUME IInv,
           UNCHANGED <<job, lastJob, lastFence>>,
           \A f \in Fences : /\ run'[f].job = run[f].job
                             /\ run'[f].pc = "unborn" <=> run[f].pc = "unborn"
    PROVE  /\ RowsInv' /\ OneActive' /\ FencesInv'
           /\ \A f \in Fences : run[f].pc # "unborn" =>
                  SubOf(f)' = SubOf(f) /\ Holds(f)' = Holds(f)
<1>1. RowsInv' /\ OneActive'
  BY DEF IInv, RowsInv, OneActive
<1>2. FencesInv'
  BY DEF IInv, TypeOK, JobRow, FencesInv
<1>3. \A f \in Fences : SubOf(f)' = SubOf(f) /\ Holds(f)' = Holds(f)
  BY DEF SubOf, Holds
<1> QED
  BY <1>1, <1>2, <1>3

\* Moving runs on without a verdict is harmless if no run is put in front of a
\* look-up it has not done, and none returns without a verdict.
LEMMA RunMoveKeepsVerdicts ==
    ASSUME IInv,
           UNCHANGED <<job, decisions, lastJob, lastFence>>,
           \A f \in Fences :
               /\ run'[f].job = run[f].job
               /\ run'[f].pc = "unborn" <=> run[f].pc = "unborn"
               /\ run'[f].pc \in {"mark", "decide"} =>
                      run[f].pc \in {"mark", "decide"} \/ ~Decided(SubOf(f))
               /\ run[f].pc \in {"effects", "done", "gone"} =>
                      run'[f].pc \in {"effects", "done", "gone"}
               /\ run'[f].pc \in {"effects", "done"} => Decided(SubOf(f))
    PROVE  RowsInv' /\ OneActive' /\ FencesInv' /\ Verdicts'
<1>1. /\ RowsInv' /\ OneActive' /\ FencesInv'
      /\ \A f \in Fences : run[f].pc # "unborn" =>
             SubOf(f)' = SubOf(f) /\ Holds(f)' = Holds(f)
  BY RunMoveKeeps
<1>2. CheckStaysFresh'
  BY <1>1 DEF IInv, Verdicts, CheckStaysFresh, Decided
<1>3. DecisionsInv' /\ OneVerdict'
  BY <1>1 DEF IInv, TypeOK, Decision, Verdicts, DecisionsInv, OneVerdict
<1>4. ReturnedInv'
  BY <1>1 DEF ReturnedInv, Decided
<1>5. SucceededHasVerdict'
  BY DEF IInv, Verdicts, SucceededHasVerdict, Decided
<1> QED
  BY <1>1, <1>2, <1>3, <1>4, <1>5 DEF Verdicts

\* Runners do not care how far a run has come.
LEMMA RunMoveKeepsRunners ==
    ASSUME IInv,
           UNCHANGED <<job, runner>>,
           \A f \in Fences : run'[f].pc = "unborn" <=> run[f].pc = "unborn"
    PROVE  RunnersInv'
BY DEF IInv, RunnersInv

LEMMA CheckDecisionKeeps ==
    ASSUME IInv, NEW f \in Fences, CheckDecision(f)
    PROVE  IInv'
<1> DEFINE pc == IF SeesVerdict(f) THEN "done" ELSE "mark"
<1>1. /\ run[f].pc = "check"
      /\ run' = [run EXCEPT ![f].pc = pc]
      /\ UNCHANGED <<job, decisions, runner, lastJob, lastFence>>
  BY DEF CheckDecision, OutsideRun
<1>2. pc \in {"done", "mark"} /\ (pc = "done" => Decided(SubOf(f))) /\ (pc = "mark" => ~Decided(SubOf(f)))
  BY DEF pc, SeesVerdict
<1> HIDE DEF pc
<1>3. /\ run' \in [Fences -> Run]
      /\ run'[f].pc = pc /\ run'[f].job = run[f].job
      /\ \A g \in Fences : g # f => run'[g] = run[g]
  BY <1>1, <1>2 DEF IInv, TypeOK, Run, RunPc
<1>5. TypeOK'
  BY <1>3 DEF IInv, TypeOK, CheckDecision, OutsideRun
<1>6. \A g \in Fences : /\ run'[g].job = run[g].job
                        /\ run'[g].pc = "unborn" <=> run[g].pc = "unborn"
  BY <1>1, <1>2, <1>3
<1>7. RunnersInv'
  BY <1>1, <1>6, RunMoveKeepsRunners
<1>8. RowsInv' /\ OneActive' /\ FencesInv' /\ Verdicts'
  <2>1. \A g \in Fences :
            /\ run'[g].pc \in {"mark", "decide"} =>
                   run[g].pc \in {"mark", "decide"} \/ ~Decided(SubOf(g))
            /\ run[g].pc \in {"effects", "done", "gone"} =>
                   run'[g].pc \in {"effects", "done", "gone"}
            /\ run'[g].pc \in {"effects", "done"} => Decided(SubOf(g))
    BY <1>1, <1>2, <1>3 DEF IInv, Verdicts, ReturnedInv
  <2> QED
    BY <1>1, <1>6, <2>1, RunMoveKeepsVerdicts
<1> QED
  BY <1>5, <1>7, <1>8 DEF IInv

LEMMA MarkProcessingKeeps ==
    ASSUME IInv, NEW f \in Fences, MarkProcessing(f)
    PROVE  IInv'
<1> DEFINE pc == "decide"
<1>1. /\ run[f].pc = "mark"
      /\ run' = [run EXCEPT ![f].pc = pc]
      /\ UNCHANGED <<job, decisions, runner, lastJob, lastFence>>
  BY DEF MarkProcessing, OutsideRun
<1>2. pc = "decide"
  BY DEF pc
<1> HIDE DEF pc
<1>3. /\ run' \in [Fences -> Run]
      /\ run'[f].pc = pc /\ run'[f].job = run[f].job
      /\ \A g \in Fences : g # f => run'[g] = run[g]
  BY <1>1, <1>2 DEF IInv, TypeOK, Run, RunPc
<1>4. SubOf(f) \in Submissions
  BY <1>1 DEF IInv, RowsInv, FencesInv, SubOf
<1>5. TypeOK'
  BY <1>3, <1>4 DEF IInv, TypeOK, SubmissionStatus, MarkProcessing, OutsideRun
<1>6. \A g \in Fences : /\ run'[g].job = run[g].job
                        /\ run'[g].pc = "unborn" <=> run[g].pc = "unborn"
  BY <1>1, <1>2, <1>3
<1>7. RunnersInv'
  BY <1>1, <1>6, RunMoveKeepsRunners
<1>8. RowsInv' /\ OneActive' /\ FencesInv' /\ Verdicts'
  <2>1. \A g \in Fences :
            /\ run'[g].pc \in {"mark", "decide"} =>
                   run[g].pc \in {"mark", "decide"} \/ ~Decided(SubOf(g))
            /\ run[g].pc \in {"effects", "done", "gone"} =>
                   run'[g].pc \in {"effects", "done", "gone"}
            /\ run'[g].pc \in {"effects", "done"} => Decided(SubOf(g))
    BY <1>1, <1>2, <1>3 DEF IInv, Verdicts, ReturnedInv
  <2> QED
    BY <1>1, <1>6, <2>1, RunMoveKeepsVerdicts
<1> QED
  BY <1>5, <1>7, <1>8 DEF IInv

LEMMA EnqueueEffectsKeeps ==
    ASSUME IInv, NEW f \in Fences, EnqueueEffects(f)
    PROVE  IInv'
<1> DEFINE pc == "done"
<1>1. /\ run[f].pc = "effects"
      /\ run' = [run EXCEPT ![f].pc = pc]
      /\ UNCHANGED <<job, decisions, runner, lastJob, lastFence>>
  BY DEF EnqueueEffects, OutsideRun
<1>2. pc = "done" /\ Decided(SubOf(f))
  BY <1>1 DEF pc, IInv, Verdicts, ReturnedInv
<1> HIDE DEF pc
<1>3. /\ run' \in [Fences -> Run]
      /\ run'[f].pc = pc /\ run'[f].job = run[f].job
      /\ \A g \in Fences : g # f => run'[g] = run[g]
  BY <1>1, <1>2 DEF IInv, TypeOK, Run, RunPc
<1>4. SubOf(f) \in Submissions
  BY <1>1 DEF IInv, RowsInv, FencesInv, SubOf
<1>5. TypeOK'
  <2>1. \A T \in SUBSET EventType :
            {[sub |-> SubOf(f), run |-> f, type |-> t] : t \in T} \subseteq OutboxRow
    BY <1>4 DEF OutboxRow
  <2>2. outbox' \subseteq OutboxRow
    BY <2>1 DEF IInv, TypeOK, EnqueueEffects
  <2> QED
    BY <1>3, <2>2 DEF IInv, TypeOK, EnqueueEffects, OutsideRun
<1>6. \A g \in Fences : /\ run'[g].job = run[g].job
                        /\ run'[g].pc = "unborn" <=> run[g].pc = "unborn"
  BY <1>1, <1>2, <1>3
<1>7. RunnersInv'
  BY <1>1, <1>6, RunMoveKeepsRunners
<1>8. RowsInv' /\ OneActive' /\ FencesInv' /\ Verdicts'
  <2>1. \A g \in Fences :
            /\ run'[g].pc \in {"mark", "decide"} =>
                   run[g].pc \in {"mark", "decide"} \/ ~Decided(SubOf(g))
            /\ run[g].pc \in {"effects", "done", "gone"} =>
                   run'[g].pc \in {"effects", "done", "gone"}
            /\ run'[g].pc \in {"effects", "done"} => Decided(SubOf(g))
    BY <1>1, <1>2, <1>3 DEF IInv, Verdicts, ReturnedInv
  <2> QED
    BY <1>1, <1>6, <2>1, RunMoveKeepsVerdicts
<1> QED
  BY <1>5, <1>7, <1>8 DEF IInv

LEMMA RunFailsKeeps ==
    ASSUME IInv, NEW f \in Fences, RunFails(f)
    PROVE  IInv'
<1> DEFINE pc == "gone"
<1>1. /\ run[f].pc \in {"check", "mark", "decide", "effects"}
      /\ run' = [run EXCEPT ![f].pc = pc]
      /\ UNCHANGED <<job, decisions, runner, lastJob, lastFence>>
  BY DEF RunFails, OutsideRun
<1>2. pc = "gone"
  BY DEF pc
<1> HIDE DEF pc
<1>3. /\ run' \in [Fences -> Run]
      /\ run'[f].pc = pc /\ run'[f].job = run[f].job
      /\ \A g \in Fences : g # f => run'[g] = run[g]
  BY <1>1, <1>2 DEF IInv, TypeOK, Run, RunPc
<1>5. TypeOK'
  BY <1>3 DEF IInv, TypeOK, RunFails, OutsideRun
<1>6. \A g \in Fences : /\ run'[g].job = run[g].job
                        /\ run'[g].pc = "unborn" <=> run[g].pc = "unborn"
  BY <1>1, <1>2, <1>3
<1>7. RunnersInv'
  BY <1>1, <1>6, RunMoveKeepsRunners
<1>8. RowsInv' /\ OneActive' /\ FencesInv' /\ Verdicts'
  <2>1. \A g \in Fences :
            /\ run'[g].pc \in {"mark", "decide"} =>
                   run[g].pc \in {"mark", "decide"} \/ ~Decided(SubOf(g))
            /\ run[g].pc \in {"effects", "done", "gone"} =>
                   run'[g].pc \in {"effects", "done", "gone"}
            /\ run'[g].pc \in {"effects", "done"} => Decided(SubOf(g))
    BY <1>1, <1>2, <1>3 DEF IInv, Verdicts, ReturnedInv
  <2> QED
    BY <1>1, <1>6, <2>1, RunMoveKeepsVerdicts
<1> QED
  BY <1>5, <1>7, <1>8 DEF IInv


\* The one step that writes a verdict.
LEMMA DecideKeeps ==
    ASSUME IInv, NEW f \in Fences, Decide(f)
    PROVE  IInv'
<1>1. PICK kind \in {"final", "review"} :
          /\ decisions' = decisions \cup {[sub |-> SubOf(f), run |-> f, kind |-> kind]}
          /\ status' = [status EXCEPT ![SubOf(f)] =
                           IF kind = "review" THEN "UNDER_REVIEW" ELSE "COMPLETED"]
          /\ run' = [run EXCEPT ![f].pc = AfterVerdict(kind)]
  BY DEF Decide
<1>2. /\ run[f].pc = "decide" /\ Holds(f)
      /\ UNCHANGED <<job, outbox, runner, client, answered, lastJob, lastFence, faults>>
  BY DEF Decide, OutsideRun
<1> DEFINE pc == AfterVerdict(kind)
           d == [sub |-> SubOf(f), run |-> f, kind |-> kind]
<1>3. pc \in {"effects", "done"}
  BY DEF AfterVerdict
<1>4. SubOf(f) \in Submissions /\ run[f].job \in Jobs
  BY <1>2 DEF IInv, RowsInv, FencesInv, SubOf
<1>5. decisions' = decisions \cup {d} /\ d \in Decision /\ d.sub = SubOf(f) /\ d.run = f
  BY <1>1, <1>4 DEF Decision
<1>6. run' = [run EXCEPT ![f].pc = pc]
  BY <1>1
<1> HIDE DEF pc, d
<1>7. /\ run' \in [Fences -> Run]
      /\ run'[f].pc = pc /\ run'[f].job = run[f].job
      /\ \A g \in Fences : g # f => run'[g] = run[g]
  BY <1>3, <1>6 DEF IInv, TypeOK, Run, RunPc
<1>8. TypeOK'
  BY <1>1, <1>2, <1>4, <1>5, <1>7 DEF IInv, TypeOK, SubmissionStatus
<1>9. \A g \in Fences : /\ run'[g].job = run[g].job
                        /\ run'[g].pc = "unborn" <=> run[g].pc = "unborn"
  BY <1>2, <1>3, <1>7
<1>10. RunnersInv'
  BY <1>2, <1>9, RunMoveKeepsRunners
<1>11. /\ RowsInv' /\ OneActive' /\ FencesInv'
       /\ \A g \in Fences : run[g].pc # "unborn" =>
              SubOf(g)' = SubOf(g) /\ Holds(g)' = Holds(g)
  BY <1>2, <1>9, RunMoveKeeps
<1>12. ~Decided(SubOf(f))
  BY <1>2 DEF IInv, Verdicts, CheckStaysFresh
<1>13. OneVerdict'
  BY <1>5, <1>12 DEF IInv, Verdicts, OneVerdict, Decided
<1>14. DecisionsInv'
  BY <1>2, <1>3, <1>5, <1>7, <1>11 DEF IInv, TypeOK, Decision, Verdicts, DecisionsInv
<1>15. ReturnedInv' /\ SucceededHasVerdict'
  <2>1. \A s : Decided(s) => Decided(s)'
    BY <1>5 DEF Decided
  <2>2. Decided(SubOf(f))'
    BY <1>2, <1>5, <1>11 DEF Decided
  <2> QED
    BY <1>2, <1>7, <1>11, <2>1, <2>2 DEF IInv, Verdicts, ReturnedInv, SucceededHasVerdict
\* Another run past its look-up cannot hold a fence of this submission.
<1>16. CheckStaysFresh'
  <2>1. SUFFICES ASSUME NEW g \in Fences, run'[g].pc \in {"mark", "decide"}, Holds(g)'
                 PROVE  ~Decided(SubOf(g))'
    BY DEF CheckStaysFresh
  <2>2. g # f /\ run[g].pc \in {"mark", "decide"} /\ Holds(g)
    BY <1>3, <1>7, <1>11, <2>1
  <2>3. ~Decided(SubOf(g)) /\ SubOf(g)' = SubOf(g)
    BY <1>11, <2>2 DEF IInv, Verdicts, CheckStaysFresh
  <2>4. SubOf(g) # SubOf(f)
    <3>1. SUFFICES ASSUME SubOf(g) = SubOf(f) PROVE FALSE
      OBVIOUS
    <3>2. run[g].job \in Jobs /\ run[f].job \in Jobs
      BY <1>4, <2>2 DEF IInv, FencesInv
    <3>3. run[g].job = run[f].job
      BY <1>2, <2>2, <3>1, <3>2 DEF IInv, OneActive, ActiveStatus, Holds, SubOf
    <3> QED
      BY <1>2, <2>2, <3>3 DEF Holds
  <2> QED
    BY <1>5, <2>3, <2>4 DEF Decided
<1> QED
  BY <1>8, <1>10, <1>11, <1>13, <1>14, <1>15, <1>16 DEF IInv, Verdicts

LEMMA CrashKeeps ==
    ASSUME IInv, NEW p \in Processes, Crash(p)
    PROVE  IInv'
<1> DEFINE dead == {r \in Runners : Host[r] = p}
<1>1. /\ runner' = [r \in Runners |-> IF r \in dead THEN Start(r) ELSE runner[r]]
      /\ run' = [f \in Fences |->
                    IF run[f].by \in dead /\ run[f].pc \notin {"unborn", "done"}
                    THEN [run[f] EXCEPT !.pc = "gone"] ELSE run[f]]
      /\ UNCHANGED <<job, client, status, decisions, outbox, answered, lastJob, lastFence>>
      /\ faults' = faults + 1
  BY DEF Crash
<1>2. \A r \in Runners : Start(r) \in Runner
  BY DEF Start, Idle, Runner, RunnerPc, NoJob, NoFence
<1>3. run' \in [Fences -> Run]
  BY <1>1 DEF IInv, TypeOK, Run, RunPc
<1>4. TypeOK'
  BY <1>1, <1>2, <1>3 DEF IInv, TypeOK
<1>5. ASSUME NEW f \in Fences
      PROVE  /\ run'[f].job = run[f].job
             /\ \/ run'[f].pc = run[f].pc
                \/ run[f].pc \notin {"unborn", "done"} /\ run'[f].pc = "gone"
  <2>1. CASE run[f].by \in dead /\ run[f].pc \notin {"unborn", "done"}
    <3>1. run'[f] = [run[f] EXCEPT !.pc = "gone"] /\ run[f] \in Run
      BY <1>1, <2>1 DEF IInv, TypeOK
    <3> QED
      BY <2>1, <3>1 DEF Run
  <2>2. CASE ~(run[f].by \in dead /\ run[f].pc \notin {"unborn", "done"})
    BY <1>1, <2>2
  <2> QED
    BY <2>1, <2>2
<1>6. RowsInv' /\ OneActive' /\ FencesInv' /\ Verdicts'
  BY <1>1, <1>5, RunMoveKeepsVerdicts DEF IInv, Verdicts, ReturnedInv
<1>7. RunnersInv'
  <2>1. \A r \in Runners : runner'[r] = runner[r] \/ runner'[r] = Start(r)
    BY <1>1
  <2> QED
    BY <1>1, <1>5, <2>1, JobsAssumption DEF IInv, RunnersInv, Start, Idle, Runners
<1> QED
  BY <1>4, <1>6, <1>7 DEF IInv

------------------------------------------------------------------------------
(* The theorems.                                                            *)

LEMMA StepInvariant == IInv /\ [Next]_vars => IInv'
<1> SUFFICES ASSUME IInv, [Next]_vars PROVE IInv'
  OBVIOUS
<1>1. ASSUME NEW c \in Clients, EnqueueCreate(c) \/ \E s \in Submissions : EnqueueRead(c, s)
      PROVE  IInv'
  BY <1>1, EnqueueCreateKeeps, EnqueueReadKeeps
<1>2. ASSUME NEW r \in Runners, RunnerStep(r) \/ \E s \in Submissions : SyncStart(r, s)
      PROVE  IInv'
  BY <1>2, SyncStartKeeps, SyncReturnKeeps, SyncGiveUpKeeps, ScanKeeps, ResetStaleKeeps,
     ResetRejectedKeeps, FindRunnableKeeps, LockKeeps, LockLostKeeps, MarkSucceededKeeps,
     AwaitFailsKeeps, CatchReadKeeps, RetryKeeps, FailKeeps, RenewLeaseKeeps, RunnerThrowsKeeps
  DEF RunnerStep
<1>3. ASSUME NEW f \in Fences, RunStep(f)
      PROVE  IInv'
  BY <1>3, CheckDecisionKeeps, MarkProcessingKeeps, DecideKeeps, EnqueueEffectsKeeps, RunFailsKeeps
  DEF RunStep
<1>4. ASSUME NEW j \in Jobs, LeaseLapses(j) \/ BackoffElapses(j) \/ OperatorRequeue(j)
      PROVE  IInv'
  BY <1>4, LeaseLapsesKeeps, BackoffElapsesKeeps, OperatorRequeueKeeps
<1>5. ASSUME NEW p \in Processes, Crash(p)
      PROVE  IInv'
  BY <1>5, CrashKeeps
<1>6. CASE UNCHANGED vars
  <2>1. UNCHANGED <<job, run, decisions, lastJob, lastFence>> /\ TypeOK' /\ RunnersInv'
    BY <1>6 DEF vars, IInv, TypeOK, RunnersInv
  <2> QED
    BY <2>1, QuietKeeps DEF IInv
<1> QED
  BY <1>1, <1>2, <1>3, <1>4, <1>5, <1>6 DEF Next

\* The invariant holds in every reachable state.
THEOREM Invariant == Spec => []IInv
  BY InitInvariant, StepInvariant, PTL DEF Spec

\* Every variable stays in its type: no status is written that the schema's
\* enumerations do not have, and every link points to a row or a run.
THEOREM TypeCorrect == Spec => []TypeOK
<1>1. IInv => TypeOK
  BY DEF IInv
<1> QED
  BY <1>1, Invariant, PTL

\* #953: however many workers and requests run, whatever is abandoned at its
\* deadline, reset from under its runner, retried or queued again, a submission
\* gets at most one automatic verdict.
THEOREM AtMostOneVerdict == Spec => []OneVerdict
<1>1. IInv => OneVerdict
  BY DEF IInv, Verdicts
<1> QED
  BY <1>1, Invariant, PTL

\* The look-up for an existing verdict cannot go stale while the fence holds.
THEOREM LookupStaysFresh == Spec => []CheckStaysFresh
<1>1. IInv => CheckStaysFresh
  BY DEF IInv, Verdicts
<1> QED
  BY <1>1, Invariant, PTL

\* A job is SUCCEEDED only on a submission that has a verdict.
THEOREM SuccessMeansVerdict == Spec => []SucceededHasVerdict
<1>1. IInv => SucceededHasVerdict
  BY DEF IInv, Verdicts
<1> QED
  BY <1>1, Invariant, PTL

------------------------------------------------------------------------------
(* Consequences, and the refinement of AssessmentVerdict.                   *)

\* Outbox rows are of a run that wrote a verdict which needs no human, and that
\* run is through; a run about to write some has written such a verdict.
EffectsInv ==
    /\ \A x \in outbox :
          /\ run[x.run].pc = "done"
          /\ \E d \in decisions : d.run = x.run /\ d.sub = x.sub /\ d.kind = "final"
    /\ \A f \in Fences : run[f].pc = "effects" =>
          \E d \in decisions : d.run = f /\ d.kind = "final"

\* What any step does to the verdicts and to the runs that matter to them.
LEMMA StepsOfVerdicts ==
    ASSUME IInv, [Next]_vars
    PROVE  \/ \E f \in Fences : Decide(f) \/ EnqueueEffects(f)
           \/ /\ UNCHANGED <<decisions, outbox>>
              /\ \A f \in Fences : /\ run'[f].pc = "effects" => run[f].pc = "effects"
                                   /\ run[f].pc = "done" => run'[f].pc = "done"
<1> DEFINE Quiet == /\ UNCHANGED <<decisions, outbox>>
                    /\ \A f \in Fences : /\ run'[f].pc = "effects" => run[f].pc = "effects"
                                         /\ run[f].pc = "done" => run'[f].pc = "done"
<1>1. CASE \E c \in Clients : EnqueueCreate(c) \/ \E s \in Submissions : EnqueueRead(c, s)
  BY <1>1 DEF EnqueueCreate, EnqueueRead
<1>2. ASSUME NEW r \in Runners, RunnerStep(r) \/ \E s \in Submissions : SyncStart(r, s)
      PROVE  Quiet
  <2>1. CASE Lock(r)
    <3>1. /\ UNCHANGED <<decisions, outbox>> /\ lastFence + 1 \in Fences
          /\ run' = [run EXCEPT ![lastFence + 1] = [pc |-> "check", job |-> runner[r].cand, by |-> r]]
      BY <2>1 DEF Lock
    <3>2. run[lastFence + 1].pc = "unborn"
      BY <3>1, JobsAssumption DEF IInv, TypeOK, FencesInv
    <3> QED
      BY <3>1, <3>2 DEF IInv, TypeOK
  <2>2. CASE ~Lock(r)
    <3>1. UNCHANGED <<decisions, outbox, run>>
      BY <1>2, <2>2 DEF RunnerStep, SyncStart, SyncReturn, SyncGiveUp, Scan, ResetStale, ResetRejected,
         FindRunnable, LockLost, MarkSucceeded, AwaitFails, CatchRead, Retry, Fail, RenewLease,
         RunnerThrows, OnlyRunner, OnlyRunnerAndJob, OnlyJob
    <3> QED
      BY <3>1
  <2> QED
    BY <2>1, <2>2
<1>3. ASSUME NEW f \in Fences, CheckDecision(f) \/ MarkProcessing(f) \/ RunFails(f)
      PROVE  Quiet
  <2>1. PICK pc \in {"done", "mark", "decide", "gone"} : run' = [run EXCEPT ![f].pc = pc]
    BY <1>3 DEF CheckDecision, MarkProcessing, RunFails
  <2>2. run[f].pc # "done" /\ UNCHANGED <<decisions, outbox>>
    BY <1>3 DEF CheckDecision, MarkProcessing, RunFails
  <2>3. run'[f].pc = pc /\ \A g \in Fences : g # f => run'[g] = run[g]
    BY <2>1 DEF IInv, TypeOK, Run
  <2> QED
    BY <2>2, <2>3
<1>4. CASE \E j \in Jobs : LeaseLapses(j) \/ BackoffElapses(j) \/ OperatorRequeue(j)
  BY <1>4 DEF LeaseLapses, BackoffElapses, OperatorRequeue, OnlyJob
<1>5. ASSUME NEW p \in Processes, Crash(p)
      PROVE  Quiet
  <2>1. UNCHANGED <<decisions, outbox>>
    BY <1>5 DEF Crash
  <2>2. \A f \in Fences : run'[f] = run[f] \/ (run'[f] = [run[f] EXCEPT !.pc = "gone"] /\ run[f].pc # "done")
    BY <1>5 DEF Crash
  <2>3. \A f \in Fences : run[f] \in Run
    BY DEF IInv, TypeOK
  <2> QED
    BY <2>1, <2>2, <2>3 DEF Run
<1>6. CASE UNCHANGED vars
  BY <1>6 DEF vars
<1> QED
  BY <1>1, <1>2, <1>3, <1>4, <1>5, <1>6 DEF Next, RunStep

LEMMA EffectsOfDecide ==
    ASSUME IInv, EffectsInv, NEW f \in Fences, Decide(f)
    PROVE  EffectsInv'
<1>1. PICK kind \in {"final", "review"} :
          /\ decisions' = decisions \cup {[sub |-> SubOf(f), run |-> f, kind |-> kind]}
          /\ run' = [run EXCEPT ![f].pc = AfterVerdict(kind)]
  BY DEF Decide
<1>2. run[f].pc = "decide" /\ UNCHANGED outbox
  BY DEF Decide
<1> DEFINE d == [sub |-> SubOf(f), run |-> f, kind |-> kind]
<1>3. d \in decisions' /\ d.run = f /\ d.kind = kind /\ \A e \in decisions : e \in decisions'
  BY <1>1
<1> HIDE DEF d
<1>4. /\ run'[f].pc = "effects" => kind = "final"
      /\ \A g \in Fences : g # f => run'[g] = run[g]
  BY <1>1 DEF IInv, TypeOK, Run, AfterVerdict
<1>5. \A x \in outbox : x.run \in Fences /\ x.run # f
  BY <1>2 DEF EffectsInv, IInv, TypeOK, OutboxRow
<1> QED
  BY <1>2, <1>3, <1>4, <1>5 DEF EffectsInv

LEMMA EffectsOfEnqueue ==
    ASSUME IInv, EffectsInv, NEW f \in Fences, EnqueueEffects(f)
    PROVE  EffectsInv'
<1>1. PICK types \in SUBSET EventType :
          outbox' = outbox \cup {[sub |-> SubOf(f), run |-> f, type |-> t] : t \in types}
  BY DEF EnqueueEffects
<1>2. /\ run[f].pc = "effects" /\ UNCHANGED decisions
      /\ run' = [run EXCEPT ![f].pc = "done"]
  BY DEF EnqueueEffects
<1>3. run'[f].pc = "done" /\ \A g \in Fences : g # f => run'[g] = run[g]
  BY <1>2 DEF IInv, TypeOK, Run
<1>4. \E d \in decisions : d.run = f /\ d.sub = SubOf(f) /\ d.kind = "final"
  BY <1>2 DEF EffectsInv, IInv, Verdicts, DecisionsInv
<1>5. ASSUME NEW x \in outbox'
      PROVE  /\ run'[x.run].pc = "done"
             /\ \E d \in decisions : d.run = x.run /\ d.sub = x.sub /\ d.kind = "final"
  <2>1. CASE x \in outbox
    BY <1>3, <2>1 DEF EffectsInv, IInv, TypeOK, OutboxRow
  <2>2. CASE x \notin outbox
    <3>1. x.run = f /\ x.sub = SubOf(f)
      BY <1>1, <2>2
    <3> QED
      BY <1>3, <1>4, <3>1
  <2> QED
    BY <2>1, <2>2
<1> QED
  BY <1>2, <1>3, <1>5 DEF EffectsInv

LEMMA EffectsInvariant == Spec => []EffectsInv
<1>1. Init => EffectsInv
  BY DEF Init, EffectsInv
<1>2. ASSUME IInv, EffectsInv, [Next]_vars
      PROVE  EffectsInv'
  <2>1. CASE \E f \in Fences : Decide(f) \/ EnqueueEffects(f)
    BY <1>2, <2>1, EffectsOfDecide, EffectsOfEnqueue
  <2>2. CASE /\ UNCHANGED <<decisions, outbox>>
             /\ \A f \in Fences : /\ run'[f].pc = "effects" => run[f].pc = "effects"
                                  /\ run[f].pc = "done" => run'[f].pc = "done"
    BY <1>2, <2>2 DEF EffectsInv, IInv, TypeOK, OutboxRow
  <2> QED
    BY <1>2, <2>1, <2>2, StepsOfVerdicts
<1> QED
  BY <1>1, <1>2, Invariant, PTL DEF Spec

\* One result mail and one completion check at most for each submission, and
\* none for a verdict that went to manual review.
THEOREM ConsequencesOnce == Spec => []EffectsOnce
<1>1. IInv /\ EffectsInv => EffectsOnce
  <2> SUFFICES ASSUME IInv, EffectsInv PROVE EffectsOnce
    OBVIOUS
  <2>1. \A x \in outbox, d \in decisions : x.sub = d.sub => d.run = x.run /\ d.kind = "final"
    BY DEF EffectsInv, IInv, Verdicts, OneVerdict
  <2>2. \A x, y \in outbox : x.sub = y.sub => x.run = y.run
    BY <2>1 DEF EffectsInv
  <2>3. \A x \in outbox : x \in OutboxRow
    BY DEF IInv, TypeOK
  <2>4. \A x, y \in outbox : x.sub = y.sub /\ x.type = y.type => x = y
    BY <2>2, <2>3 DEF OutboxRow
  <2> QED
    BY <2>1, <2>4 DEF EffectsOnce
<1> QED
  BY <1>1, Invariant, EffectsInvariant, PTL

\* The verdict of a submission is that of its one decision.
LEMMA VerdictIsKind ==
    ASSUME OneVerdict, NEW d \in decisions
    PROVE  VerdictOf(d.sub) = d.kind
<1>1. Decided(d.sub)
  BY DEF Decided
<1>2. (CHOOSE e \in decisions : e.sub = d.sub) = d
  BY DEF OneVerdict
<1> QED
  BY <1>1, <1>2 DEF VerdictOf

LEMMA InitPromise == Init => Promise!Init
  BY DEF Init, Promise!Init, VerdictOf, Decided

LEMMA DecideJudges ==
    ASSUME IInv, IInv', NEW f \in Fences, Decide(f)
    PROVE  Promise!Next
<1>3. run[f].pc = "decide" /\ Holds(f) /\ SubOf(f) \in Submissions /\ ~Decided(SubOf(f))
  BY DEF Decide, IInv, Verdicts, CheckStaysFresh, RowsInv, FencesInv, SubOf
<1>0. PICK s \in Submissions : s = SubOf(f)
  BY <1>3
<1>1. PICK kind \in {"final", "review"} :
          decisions' = decisions \cup {[sub |-> s, run |-> f, kind |-> kind]}
  BY <1>0 DEF Decide
<1> DEFINE d == [sub |-> s, run |-> f, kind |-> kind]
<1>2. ~Decided(s) /\ UNCHANGED outbox
  BY <1>0, <1>3 DEF Decide
<1>4. d \in decisions' /\ d.sub = s /\ d.kind = kind /\ decisions' = decisions \cup {d}
  BY <1>1
<1> HIDE DEF d
<1>5. VerdictOf(s) = "none" /\ VerdictOf(s)' = kind
  <2>1. OneVerdict'
    BY DEF IInv, Verdicts
  <2>2. Decided(s)'
    BY <1>4 DEF Decided
  <2>3. (CHOOSE e \in decisions' : e.sub = s) = d
    BY <1>4, <2>1 DEF OneVerdict
  <2> QED
    BY <1>2, <1>4, <2>2, <2>3 DEF VerdictOf
<1>6. ASSUME NEW t \in Submissions, t # s
      PROVE  VerdictOf(t)' = VerdictOf(t)
  <2>1. Decided(t)' <=> Decided(t)
    BY <1>4, <1>6 DEF Decided
  <2>2. ASSUME Decided(t)
        PROVE  (CHOOSE e \in decisions' : e.sub = t) = (CHOOSE e \in decisions : e.sub = t)
    <3>1. PICK e \in decisions : e.sub = t
      BY <2>2 DEF Decided
    <3>2. (CHOOSE x \in decisions : x.sub = t) = e
      BY <3>1 DEF IInv, Verdicts, OneVerdict
    <3>3. (CHOOSE x \in decisions' : x.sub = t) = e
      BY <1>4, <3>1 DEF IInv, Verdicts, OneVerdict
    <3> QED
      BY <3>2, <3>3
  <2> QED
    <3>1. CASE Decided(t)
      <4>1. VerdictOf(t) = (CHOOSE e \in decisions : e.sub = t).kind
        BY <3>1 DEF VerdictOf
      <4>2. VerdictOf(t)' = (CHOOSE e \in decisions' : e.sub = t).kind
        BY <2>1, <3>1 DEF VerdictOf
      <4> QED
        BY <2>2, <3>1, <4>1, <4>2
    <3>2. CASE ~Decided(t)
      BY <2>1, <3>2 DEF VerdictOf
    <3> QED
      BY <3>1, <3>2
<1>7. Promise!Judge(s)
  <2>1. [u \in Submissions |-> VerdictOf(u)'] = [[u \in Submissions |-> VerdictOf(u)] EXCEPT ![s] = kind]
    BY <1>5, <1>6
  <2> QED
    BY <1>2, <1>5, <2>1 DEF Promise!Judge
<1> QED
  BY <1>7 DEF Promise!Next

LEMMA EnqueueAnnounces ==
    ASSUME IInv, EffectsInv, NEW f \in Fences, EnqueueEffects(f)
    PROVE  Promise!Next
<1>2. run[f].pc = "effects" /\ UNCHANGED decisions
  BY DEF EnqueueEffects
<1>0. PICK s \in Submissions : s = SubOf(f)
  BY <1>2 DEF IInv, RowsInv, FencesInv, SubOf
<1>1. PICK types \in SUBSET EventType :
          /\ "courseCompletionCheck" \in types
          /\ outbox' = outbox \cup {[sub |-> s, run |-> f, type |-> t] : t \in types}
  <2> DEFINE shown == SubOf(f) \in McqOnly /\ run[f].by \in Requests
             types == IF shown THEN EventType \ {"assessmentNotification"} ELSE EventType
  <2>1. outbox' = outbox \cup {[sub |-> SubOf(f), run |-> f, type |-> t] : t \in types}
    BY DEF EnqueueEffects
  <2>2. types \in SUBSET EventType /\ "courseCompletionCheck" \in types
    BY DEF EventType
  <2> HIDE DEF types
  <2> QED
    BY <1>0, <2>1, <2>2
<1>4. PICK d \in decisions : d.run = f /\ d.sub = s /\ d.kind = "final"
  BY <1>0, <1>2 DEF EffectsInv, IInv, Verdicts, DecisionsInv
<1>5. VerdictOf(s) = "final"
  BY <1>4, VerdictIsKind DEF IInv, Verdicts
<1>6. \A x \in outbox : x.sub # s
  BY <1>2, <1>4 DEF EffectsInv, IInv, Verdicts, OneVerdict
<1> DEFINE Of(rows, t) == {x.type : x \in {y \in rows : y.sub = t}}
<1>7. Of(outbox, s) = {} /\ Of(outbox', s) = types
  <2>1. Of(outbox, s) = {}
    BY <1>6
  <2>2. {y \in outbox' : y.sub = s} = {[sub |-> s, run |-> f, type |-> t] : t \in types}
    BY <1>1, <1>6
  <2>3. {x.type : x \in {[sub |-> s, run |-> f, type |-> t] : t \in types}} = types
    <3> DEFINE Row(t) == [sub |-> s, run |-> f, type |-> t]
    <3>1. \A t \in types : Row(t).type = t
      OBVIOUS
    <3> HIDE DEF Row
    <3>2. {x.type : x \in {Row(t) : t \in types}} = types
      BY <3>1
    <3> QED
      BY <3>2 DEF Row
  <2> QED
    BY <2>1, <2>2, <2>3
<1>8. \A t \in Submissions : t # s => Of(outbox', t) = Of(outbox, t)
  BY <1>1
<1>9. Promise!Announce(s)
  <2> HIDE DEF Of
  <2>1. [t \in Submissions |-> Of(outbox', t)] = [[t \in Submissions |-> Of(outbox, t)] EXCEPT ![s] = types]
    BY <1>7, <1>8
  <2>2. types \in SUBSET Promise!Consequences
    BY DEF Promise!Consequences, EventType
  <2>3. \A t : VerdictOf(t)' = VerdictOf(t)
    BY <1>2 DEF VerdictOf, Decided
  <2> QED
    BY <1>1, <1>5, <1>7, <2>1, <2>2, <2>3 DEF Promise!Announce, Of
<1> QED
  BY <1>9 DEF Promise!Next

LEMMA StepPromise ==
    ASSUME IInv, IInv', EffectsInv, [Next]_vars
    PROVE  [Promise!Next]_(Promise!vars)
<1>1. CASE \E f \in Fences : Decide(f) \/ EnqueueEffects(f)
  BY <1>1, DecideJudges, EnqueueAnnounces
<1>2. CASE UNCHANGED <<decisions, outbox>>
  BY <1>2 DEF Promise!vars, VerdictOf, Decided
<1> QED
  BY <1>1, <1>2, StepsOfVerdicts

\* The queue keeps the promise of AssessmentVerdict: a verdict at most once and
\* never revised, its consequences at most once and after it.
THEOREM QueueKeepsPromise == Spec => PromiseKept
<1>1. Spec => Promise!Init /\ [][Promise!Next]_(Promise!vars)
  BY InitPromise, StepPromise, Invariant, EffectsInvariant, PTL DEF Spec
<1> QED
  BY <1>1 DEF PromiseKept, Promise!Spec
------------------------------------------------------------------------------
(* Racing writes to the rows.  A runner that decided to retry still has the *)
(* attempt it saw, or has lost its fence: attempts change only where a new  *)
(* fence is given out.                                                      *)

RetryInv ==
    \A r \in Runners : runner[r].pc = "retry" /\ Holds(runner[r].run)
                           => RetryLeft(run[runner[r].run].job)

\* The write of a stale job's reset, for the entry it handles.
LEMMA ResetStaleIs ==
    ASSUME NEW r \in Runners, ResetStale(r)
    PROVE  \E e \in runner[r].stale :
              /\ e.outcome = "PENDING" => IndexAllows(e.job)
              /\ job' = [job EXCEPT ![e.job] =
                            [@ EXCEPT !.status = e.outcome, !.fence = NoFence,
                                      !.lease = "none", !.available = "now"]]
              /\ runner' = [runner EXCEPT ![r].stale = runner[r].stale \ {e},
                               ![r].pc = IF runner[r].stale \ {e} = {} THEN "find" ELSE "reset"]
BY DEF ResetStale

LEMMA ResetStaleWrites ==
    ASSUME IInv, NEW r \in Runners, ResetStale(r)
    PROVE  \E e \in runner[r].stale :
              /\ e.job \in Jobs
              /\ runner'[r].stale = runner[r].stale \ {e}
              /\ job'[e.job].status = e.outcome /\ job'[e.job].fence = NoFence
              /\ job'[e.job].attempts = job[e.job].attempts
              /\ \A j \in Jobs : j # e.job => job'[j] = job[j]
<1>1. PICK e \in runner[r].stale :
          /\ e.outcome = "PENDING" => IndexAllows(e.job)
          /\ job' = [job EXCEPT ![e.job] =
                        [@ EXCEPT !.status = e.outcome, !.fence = NoFence,
                                  !.lease = "none", !.available = "now"]]
          /\ runner' = [runner EXCEPT ![r].stale = runner[r].stale \ {e},
                           ![r].pc = IF runner[r].stale \ {e} = {} THEN "find" ELSE "reset"]
  BY ResetStaleIs
<1>2. e.job \in Jobs
  BY DEF IInv, TypeOK, Runner, StaleEntry
<1>3. runner'[r].stale = runner[r].stale \ {e}
  BY <1>1 DEF IInv, TypeOK, Runner
<1>4. /\ job'[e.job].status = e.outcome /\ job'[e.job].fence = NoFence
      /\ job'[e.job].attempts = job[e.job].attempts
      /\ \A j \in Jobs : j # e.job => job'[j] = job[j]
  BY <1>1, <1>2 DEF IInv, TypeOK, JobRow
<1> QED
  BY <1>2, <1>3, <1>4

\* A fenced write changes its own row, which was RUNNING under the fence.
LEMMA FencedWrites ==
    ASSUME IInv, NEW r \in Runners, MarkSucceeded(r) \/ Retry(r) \/ Fail(r)
    PROVE  \/ job' = job
           \/ LET j == run[runner[r].run].job
              IN /\ j \in Jobs /\ Holds(runner[r].run) /\ job[j].status = "RUNNING"
                 /\ job'[j].attempts = job[j].attempts
                 /\ job'[j].status = IF Retry(r) THEN "PENDING"
                                     ELSE IF Fail(r) THEN "FAILED" ELSE "SUCCEEDED"
                 /\ \A k \in Jobs : k # j => job'[k] = job[k]
<1> DEFINE j == run[runner[r].run].job
<1>1. j \in Jobs
  BY DEF MarkSucceeded, Retry, Fail, IInv, RunnersInv, FencesInv
<1>2. CASE Holds(runner[r].run)
  <2>1. job[j].status = "RUNNING"
    BY <1>2 DEF Holds
  <2>2. CASE MarkSucceeded(r)
    <3>1. runner[r].pc = "await"
      BY <2>2 DEF MarkSucceeded
    <3> QED
      BY <1>1, <1>2, <2>1, <2>2, <3>1 DEF MarkSucceeded, Retry, Fail, IInv, TypeOK, JobRow
  <2>3. CASE Retry(r)
    BY <1>1, <1>2, <2>1, <2>3 DEF Retry, IInv, TypeOK, JobRow
  <2>4. CASE Fail(r)
    <3>1. runner[r].pc = "fail"
      BY <2>4 DEF Fail
    <3> QED
      BY <1>1, <1>2, <2>1, <2>4, <3>1 DEF Fail, Retry, IInv, TypeOK, JobRow
  <2> QED
    BY <2>2, <2>3, <2>4
<1>3. CASE ~Holds(runner[r].run)
  BY <1>3 DEF MarkSucceeded, Retry, Fail
<1> QED
  BY <1>2, <1>3

\* The row a fence is given out for was waiting.
LEMMA LockWrites ==
    ASSUME IInv, NEW r \in Runners, Lock(r)
    PROVE  /\ runner[r].cand \in Jobs
           /\ job[runner[r].cand].status = "PENDING"
           /\ job'[runner[r].cand].status = "RUNNING"
           /\ job'[runner[r].cand].fence = lastFence + 1
           /\ \A j \in Jobs : j # runner[r].cand => job'[j] = job[j]
           /\ run[lastFence + 1].pc = "unborn"
           /\ \A f \in Fences : run[f].pc # "unborn" => run'[f] = run[f]
<1>1. runner[r].cand \in Jobs /\ job[runner[r].cand].status = "PENDING"
  BY DEF Lock, IInv, RunnersInv
<1>2. /\ job'[runner[r].cand].status = "RUNNING"
      /\ job'[runner[r].cand].fence = lastFence + 1
      /\ \A j \in Jobs : j # runner[r].cand => job'[j] = job[j]
  BY <1>1 DEF Lock, IInv, TypeOK, JobRow
<1>3. run[lastFence + 1].pc = "unborn" /\ lastFence + 1 \in Fences
  BY JobsAssumption DEF Lock, IInv, TypeOK, FencesInv
<1>4. \A f \in Fences : run[f].pc # "unborn" => run'[f] = run[f]
  BY <1>3 DEF Lock, IInv, TypeOK
<1> QED
  BY <1>1, <1>2, <1>3, <1>4

\* The row an enqueue creates is nobody's yet.
LEMMA CreateWrites ==
    ASSUME IInv, NEW c \in Clients, EnqueueCreate(c)
    PROVE  /\ UNCHANGED <<run, runner>>
           /\ \/ job' = job
              \/ \E n \in Jobs : /\ job[n].status = "ABSENT" /\ job'[n].status = "PENDING"
                                 /\ job'[n].attempts = 0
                                 /\ \A j \in Jobs : j # n => job'[j] = job[j]
<1>1. UNCHANGED <<run, runner>>
  BY DEF EnqueueCreate
<1>2. CASE UNCHANGED jobVars
  BY <1>1, <1>2 DEF jobVars
<1>3. CASE lastJob + 1 \in Jobs
           /\ job' = [job EXCEPT ![lastJob + 1] =
                        [NoRow EXCEPT !.sub = client[c], !.status = "PENDING", !.available = "now"]]
  <2> DEFINE n == lastJob + 1
  <2>1. job[n].status = "ABSENT" /\ n \in Jobs
    BY <1>3, JobsAssumption DEF IInv, TypeOK, RowsInv
  <2>2. job'[n].status = "PENDING" /\ job'[n].attempts = 0
    BY <1>3 DEF IInv, TypeOK, NoRow
  <2>3. \A j \in Jobs : j # n => job'[j] = job[j]
    BY <1>3 DEF IInv, TypeOK
  <2> HIDE DEF n
  <2> QED
    BY <1>1, <2>1, <2>2, <2>3
<1> QED
  BY <1>2, <1>3 DEF EnqueueCreate

\* The steps that leave every row its status, its attempts and its fence, and
\* every run its job.
Harmless ==
    /\ \A j \in Jobs : /\ job'[j].status = job[j].status
                       /\ job'[j].attempts = job[j].attempts
                       /\ job'[j].fence = job[j].fence
    /\ \A f \in Fences : run'[f].job = run[f].job

\* What the other steps of a runner are.
QuietRunner(r) ==
    \/ SyncReturn(r) \/ SyncGiveUp(r) \/ Scan(r) \/ ResetRejected(r) \/ FindRunnable(r)
    \/ LockLost(r) \/ AwaitFails(r) \/ CatchRead(r) \/ RunnerThrows(r)
    \/ \E s \in Submissions : SyncStart(r, s)

LEMMA QuietRunnerKeeps ==
    ASSUME NEW r \in Runners, QuietRunner(r)
    PROVE  UNCHANGED <<job, run>>
<1>1. CASE RunnerThrows(r)
  BY <1>1 DEF RunnerThrows
<1>2. CASE SyncReturn(r)
  BY <1>2 DEF SyncReturn
<1>3. CASE SyncGiveUp(r) \/ ResetRejected(r) \/ LockLost(r) \/ AwaitFails(r)
  BY <1>3 DEF SyncGiveUp, ResetRejected, LockLost, AwaitFails, OnlyRunner
<1>5. CASE CatchRead(r)
  BY <1>5 DEF CatchRead, OnlyRunner
<1>6. CASE FindRunnable(r)
  BY <1>6 DEF FindRunnable, OnlyRunner
<1>7. ASSUME NEW s \in Submissions, SyncStart(r, s) PROVE UNCHANGED <<job, run>>
  BY <1>7 DEF SyncStart, OnlyRunner
<1>4. CASE Scan(r)
  <2>1. OnlyRunner
    BY <1>4, Zenon DEF Scan
  <2> QED
    BY <2>1 DEF OnlyRunner
<1> QED
  BY <1>1, <1>2, <1>3, <1>4, <1>5, <1>6, <1>7 DEF QuietRunner

LEMMA HarmlessSteps ==
    ASSUME IInv,
           \/ \E r \in Runners : QuietRunner(r) \/ RenewLease(r)
           \/ \E j \in Jobs : LeaseLapses(j) \/ BackoffElapses(j)
           \/ \E f \in Fences : RunStep(f)
           \/ \E p \in Processes : Crash(p)
           \/ \E c \in Clients, s \in Submissions : EnqueueRead(c, s)
           \/ UNCHANGED vars
    PROVE  Harmless
<1>1. CASE \E r \in Runners : QuietRunner(r)
  BY <1>1, QuietRunnerKeeps DEF Harmless
<1>2. ASSUME NEW r \in Runners, RenewLease(r) PROVE Harmless
  <2>1. UNCHANGED run
    BY <1>2 DEF RenewLease, OnlyJob
  <2>2. \A k \in Jobs : /\ job'[k].status = job[k].status
                        /\ job'[k].attempts = job[k].attempts
                        /\ job'[k].fence = job[k].fence
    BY <1>2 DEF RenewLease, IInv, TypeOK, JobRow
  <2> QED
    BY <2>1, <2>2 DEF Harmless
<1>3. ASSUME NEW j \in Jobs, LeaseLapses(j) \/ BackoffElapses(j) PROVE Harmless
  BY <1>3 DEF LeaseLapses, BackoffElapses, OnlyJob, Harmless, IInv, TypeOK, JobRow
<1>4. ASSUME NEW f \in Fences, RunStep(f) PROVE Harmless
  <2>1. UNCHANGED job
    BY <1>4 DEF RunStep, CheckDecision, MarkProcessing, Decide, EnqueueEffects, RunFails
  <2>2. \E pc \in RunPc : run' = [run EXCEPT ![f].pc = pc]
    BY <1>4 DEF RunStep, CheckDecision, MarkProcessing, Decide, EnqueueEffects, RunFails, AfterVerdict, RunPc
  <2>3. \A g \in Fences : run'[g].job = run[g].job
    BY <2>2 DEF IInv, TypeOK, Run
  <2> QED
    BY <2>1, <2>3 DEF Harmless
<1>5. ASSUME NEW p \in Processes, Crash(p) PROVE Harmless
  BY <1>5 DEF Crash, Harmless, IInv, TypeOK, Run
<1>6. CASE \E c \in Clients, s \in Submissions : EnqueueRead(c, s)
  BY <1>6 DEF EnqueueRead, Harmless
<1>7. CASE UNCHANGED vars
  BY <1>7 DEF vars, Harmless
<1> QED
  BY <1>1, <1>2, <1>3, <1>4, <1>5, <1>6, <1>7

\* Every step is one of these.
LEMMA StepKinds ==
    ASSUME IInv, [Next]_vars
    PROVE  \/ Harmless
           \/ \E c \in Clients : EnqueueCreate(c)
           \/ \E r \in Runners : ResetStale(r) \/ Lock(r) \/ MarkSucceeded(r) \/ Retry(r) \/ Fail(r)
           \/ \E j \in Jobs : OperatorRequeue(j)
BY HarmlessSteps DEF Next, RunnerStep, QuietRunner

LEMMA RequeueWrites ==
    ASSUME IInv, NEW j \in Jobs, OperatorRequeue(j)
    PROVE  /\ job'[j].fence = NoFence /\ UNCHANGED <<run, runner>>
           /\ \A k \in Jobs : k # j => job'[k] = job[k]
BY DEF OperatorRequeue, OnlyJob, IInv, TypeOK, JobRow

\* Who holds a fence after a step held it before, with the same attempts.
LEMMA HeldKeepsAttempts ==
    ASSUME IInv, [Next]_vars, NEW f \in Fences, run[f].pc # "unborn", Holds(f)'
    PROVE  /\ run'[f].job = run[f].job /\ Holds(f)
           /\ job'[run[f].job].attempts = job[run[f].job].attempts
<1> DEFINE j == run[f].job
<1>1. j \in Jobs /\ job[j].status # "ABSENT" /\ f # NoFence
  BY JobsAssumption DEF IInv, FencesInv
<1>2. CASE Harmless
  BY <1>1, <1>2 DEF Harmless, Holds
<1>3. ASSUME UNCHANGED run, job'[j] = job[j] \/ job'[j].fence = NoFence \/ job'[j].status # "RUNNING"
      PROVE  run'[f].job = run[f].job /\ Holds(f) /\ job'[j].attempts = job[j].attempts
  BY <1>1, <1>3 DEF Holds
<1>4. ASSUME NEW c \in Clients, EnqueueCreate(c)
      PROVE  UNCHANGED run /\ job'[j] = job[j]
  BY <1>1, <1>4, CreateWrites
<1>5. ASSUME NEW r \in Runners, ResetStale(r)
      PROVE  UNCHANGED run /\ (job'[j] = job[j] \/ job'[j].fence = NoFence)
  <2>1. UNCHANGED run
    BY <1>5 DEF ResetStale, OnlyRunnerAndJob
  <2> QED
    BY <1>1, <1>5, <2>1, ResetStaleWrites
<1>6. ASSUME NEW r \in Runners, MarkSucceeded(r) \/ Retry(r) \/ Fail(r)
      PROVE  UNCHANGED run /\ (job'[j] = job[j] \/ job'[j].status # "RUNNING")
  <2>1. UNCHANGED run
    BY <1>6 DEF MarkSucceeded, Retry, Fail, OnlyRunnerAndJob
  <2> QED
    BY <1>1, <1>6, <2>1, FencedWrites
<1>7. ASSUME NEW k \in Jobs, OperatorRequeue(k)
      PROVE  UNCHANGED run /\ (job'[j] = job[j] \/ job'[j].fence = NoFence)
  BY <1>1, <1>7, RequeueWrites
<1>8. ASSUME NEW r \in Runners, Lock(r)
      PROVE  run'[f].job = run[f].job /\ Holds(f) /\ job'[j].attempts = job[j].attempts
  <2>1. run'[f] = run[f] /\ f # lastFence + 1
    BY <1>8, LockWrites
  <2>2. j # runner[r].cand
    BY <1>8, <2>1, LockWrites DEF Holds
  <2> QED
    BY <1>1, <1>8, <2>1, <2>2, LockWrites DEF Holds
<1> QED
  BY <1>2, <1>3, <1>4, <1>5, <1>6, <1>7, <1>8, StepKinds

\* A runner comes to its retry by looking at the row, and in no other way.
LEMMA RetryIsCaught ==
    ASSUME IInv, [Next]_vars, NEW r \in Runners, runner'[r].pc = "retry"
    PROVE  runner'[r] = runner[r] \/ CatchRead(r)
<1> DEFINE Moves(q) == \E x \in Runner : x.pc # "retry" /\ runner' = [runner EXCEPT ![q] = x]
<1>0. \A q \in Runners : runner[q] \in Runner /\ Rest(q).pc = "cycle" /\ Start(q).pc # "retry"
  BY DEF IInv, TypeOK, Rest, Start, Idle
<1>1. ASSUME NEW q \in Runners, RunnerStep(q) \/ \E s \in Submissions : SyncStart(q, s)
      PROVE  CatchRead(q) \/ Moves(q) \/ runner' = runner
  <2>1. CASE RenewLease(q)
    BY <2>1 DEF RenewLease, OnlyJob
  <2>2. CASE LockLost(q) \/ MarkSucceeded(q) \/ Retry(q) \/ Fail(q)
    <3>1. runner' = [runner EXCEPT ![q] = Rest(q)]
      BY <2>2 DEF LockLost, MarkSucceeded, Retry, Fail
    <3>2. Rest(q) \in Runner
      BY <1>0 DEF Rest, Idle, Runner, RunnerPc, NoJob, NoFence
    <3> QED
      BY <1>0, <3>1, <3>2
  <2>3. CASE ResetRejected(q) \/ RunnerThrows(q)
    <3>1. runner' = [runner EXCEPT ![q] = Start(q)]
      BY <2>3 DEF ResetRejected, RunnerThrows
    <3>2. Start(q) \in Runner
      BY DEF Start, Idle, Runner, RunnerPc, NoJob, NoFence
    <3> QED
      BY <1>0, <3>1, <3>2
  <2>4. CASE SyncReturn(q) \/ SyncGiveUp(q)
    <3>1. runner' = [runner EXCEPT ![q] = Idle]
      BY <2>4 DEF SyncReturn, SyncGiveUp
    <3>2. Idle \in Runner /\ Idle.pc = "idle"
      BY DEF Idle, Runner, RunnerPc, NoJob, NoFence
    <3> QED
      BY <3>1, <3>2
  <2>5. ASSUME NEW s \in Submissions, SyncStart(q, s) PROVE Moves(q)
    <3> DEFINE x == [Idle EXCEPT !.pc = "cycle", !.sub = s]
    <3>1. runner' = [runner EXCEPT ![q] = x]
      BY <2>5 DEF SyncStart
    <3>2. x \in Runner /\ x.pc # "retry"
      BY DEF Idle, Runner, RunnerPc, NoJob, NoFence
    <3> HIDE DEF x
    <3> QED
      BY <3>1, <3>2
  <2>6. ASSUME NEW x \in Runner, x.pc # "retry", runner' = [runner EXCEPT ![q] = x] PROVE Moves(q)
    BY <2>6
  <2> HIDE DEF Moves
  <2>7. CASE Lock(q)
    <3> DEFINE x == [runner[q] EXCEPT !.pc = "await", !.run = lastFence + 1]
    <3>1. runner' = [runner EXCEPT ![q] = x] /\ lastFence + 1 \in Fences
      BY <2>7 DEF Lock
    <3>2. x \in Runner /\ x.pc # "retry"
      BY <1>0, <3>1 DEF Runner, RunnerPc
    <3> HIDE DEF x
    <3> QED
      BY <2>6, <3>1, <3>2
  <2>8. CASE AwaitFails(q)
    <3> DEFINE x == [runner[q] EXCEPT !.pc = "catch"]
    <3>1. runner' = [runner EXCEPT ![q] = x]
      BY <2>8 DEF AwaitFails
    <3>2. x \in Runner /\ x.pc # "retry"
      BY <1>0 DEF Runner, RunnerPc
    <3> HIDE DEF x
    <3> QED
      BY <2>6, <3>1, <3>2
  <2>9. CASE FindRunnable(q)
    <3>1. CASE runner' = [runner EXCEPT ![q] = Rest(q)]
      <4>1. Rest(q) \in Runner
        BY <1>0 DEF Rest, Idle, Runner, RunnerPc, NoJob, NoFence
      <4> QED
        BY <1>0, <2>6, <3>1, <4>1
    <3>2. ASSUME NEW j \in Jobs, runner' = [runner EXCEPT ![q].cand = j, ![q].pc = "lock"]
          PROVE  Moves(q)
      <4> DEFINE x == [runner[q] EXCEPT !.cand = j, !.pc = "lock"]
      <4>1. runner' = [runner EXCEPT ![q] = x]
        BY <3>2
      <4>2. x \in Runner /\ x.pc # "retry"
        BY <1>0 DEF Runner, RunnerPc
      <4> HIDE DEF x
      <4> QED
        BY <2>6, <4>1, <4>2
    <3> QED
      BY <2>9, <3>1, <3>2 DEF FindRunnable
  <2>10. ASSUME NEW stale \in SUBSET StaleEntry, NEW pc \in {"find", "reset"},
                runner' = [runner EXCEPT ![q].stale = stale, ![q].pc = pc]
         PROVE  Moves(q)
    <3> DEFINE x == [runner[q] EXCEPT !.stale = stale, !.pc = pc]
    <3>1. runner' = [runner EXCEPT ![q] = x]
      BY <2>10
    <3>2. x \in Runner /\ x.pc # "retry"
      BY <1>0 DEF Runner, RunnerPc
    <3> HIDE DEF x
    <3> QED
      BY <2>6, <3>1, <3>2
  <2>11. CASE Scan(q)
    <3> DEFINE stale == {[job |-> j, outcome |-> ResetStatus(j)] : j \in {k \in Jobs : Stale(k)}}
               pc == IF stale = {} THEN "find" ELSE "reset"
    <3>1. runner' = [runner EXCEPT ![q].stale = stale, ![q].pc = pc]
      BY <2>11, Zenon DEF Scan
    <3>2. stale \in SUBSET StaleEntry
      BY DEF StaleEntry, ResetStatus
    <3> HIDE DEF stale
    <3> QED
      BY <2>10, <3>1, <3>2
  <2>12. CASE ResetStale(q)
    <3>1. PICK e \in runner[q].stale :
              /\ e.outcome = "PENDING" => IndexAllows(e.job)
              /\ job' = [job EXCEPT ![e.job] =
                            [@ EXCEPT !.status = e.outcome, !.fence = NoFence,
                                      !.lease = "none", !.available = "now"]]
              /\ runner' = [runner EXCEPT ![q].stale = runner[q].stale \ {e},
                               ![q].pc = IF runner[q].stale \ {e} = {} THEN "find" ELSE "reset"]
      BY <2>12, ResetStaleIs
    <3>2. runner[q].stale \ {e} \in SUBSET StaleEntry
      BY <1>0 DEF Runner
    <3> QED
      BY <2>10, <3>1, <3>2
  <2> QED
    BY <1>1, <2>1, <2>2, <2>3, <2>4, <2>5, <2>7, <2>8, <2>9, <2>11, <2>12 DEF RunnerStep
<1>2. ASSUME NEW q \in Runners, CatchRead(q) \/ Moves(q)
      PROVE  runner'[r] = runner[r] \/ CatchRead(r)
  <2>1. CASE q = r
    BY <1>2, <2>1 DEF IInv, TypeOK
  <2>2. CASE q # r
    BY <1>2, <2>2 DEF CatchRead, IInv, TypeOK
  <2> QED
    BY <2>1, <2>2
<1>3. ASSUME NEW p \in Processes, Crash(p)
      PROVE  runner'[r] = runner[r]
  BY <1>0, <1>3 DEF Crash
<1>4. CASE \/ \E c \in Clients : EnqueueCreate(c) \/ \E s \in Submissions : EnqueueRead(c, s)
           \/ UNCHANGED vars
  BY <1>4 DEF EnqueueCreate, EnqueueRead, vars
<1>6. CASE \E j \in Jobs : LeaseLapses(j) \/ BackoffElapses(j) \/ OperatorRequeue(j)
  BY <1>6 DEF LeaseLapses, BackoffElapses, OperatorRequeue, OnlyJob
<1>5. CASE \E f \in Fences : RunStep(f)
  BY <1>5 DEF RunStep, CheckDecision, MarkProcessing, Decide, EnqueueEffects, RunFails, OutsideRun
<1> HIDE DEF Moves
<1> QED
  BY <1>1, <1>2, <1>3, <1>4, <1>5, <1>6 DEF Next

LEMMA StepRetry == IInv /\ RetryInv /\ [Next]_vars => RetryInv'
<1> SUFFICES ASSUME IInv, RetryInv, [Next]_vars, NEW r \in Runners,
                    runner'[r].pc = "retry", Holds(runner[r].run)'
             PROVE  RetryLeft(run[runner[r].run].job)'
  BY DEF RetryInv
<1> DEFINE f == runner[r].run
<1>1. runner'[r].run = f /\ f \in Fences /\ run[f].pc # "unborn"
      /\ (runner[r].pc # "retry" => RetryLeft(run[f].job))
  <2>1. CASE runner'[r] = runner[r]
    BY <2>1 DEF IInv, RunnersInv
  <2>2. CASE CatchRead(r)
    <3>1. runner' = [runner EXCEPT ![r].pc = IF RetryLeft(run[runner[r].run].job) THEN "retry" ELSE "fail"]
          /\ runner[r].pc = "catch"
      BY <2>2 DEF CatchRead
    <3>2. /\ runner'[r].run = runner[r].run
          /\ runner'[r].pc = IF RetryLeft(run[runner[r].run].job) THEN "retry" ELSE "fail"
      BY <3>1 DEF IInv, TypeOK, Runner
    <3> QED
      BY <3>1, <3>2 DEF IInv, RunnersInv
  <2> QED
    BY <2>1, <2>2, RetryIsCaught
<1>2. Holds(f)'
  BY <1>1 DEF Holds
<1>3. Holds(f) /\ run'[f].job = run[f].job /\ job'[run[f].job].attempts = job[run[f].job].attempts
  BY <1>1, <1>2, HeldKeepsAttempts
<1>4. RetryLeft(run[f].job)
  BY <1>1, <1>3 DEF RetryInv
<1> QED
  BY <1>1, <1>3, <1>4 DEF RetryLeft

LEMMA RetryInvariant == Spec => []RetryInv
<1>1. Init => RetryInv
  BY DEF Init, RetryInv, Start, Idle
<1> QED
  BY <1>1, StepRetry, Invariant, PTL DEF Spec

LEMMA StepStrands ==
    ASSUME IInv, RetryInv, [Next]_vars, NEW j \in Jobs, Stranded(j)'
    PROVE  Stranded(j) \/ WrittenBlindly(j)
<1>1. CASE Harmless \/ job'[j] = job[j]
  BY <1>1 DEF Harmless, Stranded
<1>2. ASSUME NEW c \in Clients, EnqueueCreate(c) PROVE job'[j] = job[j]
  BY <1>2, CreateWrites, JobsAssumption DEF Stranded
<1>3. ASSUME NEW r \in Runners, ResetStale(r), job'[j] # job[j] PROVE WrittenBlindly(j)
  <2>1. PICK e \in runner[r].stale : /\ e.job = j /\ runner'[r].stale = runner[r].stale \ {e}
                                     /\ job'[j].status = e.outcome
                                     /\ job'[j].attempts = job[j].attempts
    BY <1>3, ResetStaleWrites
  <2>2. Outdated(e)
    <3>1. SUFFICES ASSUME e.outcome = ResetStatus(j) PROVE FALSE
      BY <2>1 DEF Outdated
    <3>2. job[j].attempts < MaxAttempts
      BY <2>1, <3>1 DEF Stranded, ResetStatus, RetryLeft
    <3>3. job[j].attempts \in Nat
      BY DEF IInv, TypeOK, JobRow
    <3> QED
      BY <2>1, <3>2, <3>3, JobsAssumption DEF Stranded
  <2> QED
    BY <2>1, <2>2 DEF WrittenBlindly
<1>4. ASSUME NEW r \in Runners, Lock(r) PROVE job'[j] = job[j]
  BY <1>4, LockWrites DEF Stranded
<1>5. ASSUME NEW r \in Runners, MarkSucceeded(r) \/ Retry(r) \/ Fail(r) PROVE job'[j] = job[j]
  <2>1. SUFFICES ASSUME job'[j] # job[j] PROVE FALSE
    OBVIOUS
  <2>2. /\ j = run[runner[r].run].job /\ Retry(r) /\ Holds(runner[r].run)
        /\ job'[j].attempts = job[j].attempts
    BY <1>5, <2>1, FencedWrites DEF Stranded
  <2>3. job[j].attempts < MaxAttempts
    BY <2>2 DEF RetryInv, Retry, RetryLeft
  <2>4. job[j].attempts \in Nat
    BY DEF IInv, TypeOK, JobRow
  <2> QED
    BY <2>2, <2>3, <2>4, JobsAssumption DEF Stranded
<1>6. ASSUME NEW k \in Jobs, OperatorRequeue(k) PROVE job'[j] = job[j] \/ OperatorRequeue(j)
  BY <1>6, RequeueWrites
<1> QED
  BY <1>1, <1>2, <1>3, <1>4, <1>5, <1>6, StepKinds DEF WrittenBlindly

\* For any number of workers, requests and scanners: a job that waits with no
\* attempt left was put there by a reset of what the scan no longer describes,
\* or by the runbook; the queue's own retry never does it.
THEOREM RetriesStrandNothing == Spec => OnlyBlindWritesStrand
<1>1. IInv /\ RetryInv /\ [Next]_vars =>
          [\A j \in Jobs : Stranded(j)' => Stranded(j) \/ WrittenBlindly(j)]_vars
  BY StepStrands
<1> QED
  BY <1>1, Invariant, RetryInvariant, PTL DEF Spec, OnlyBlindWritesStrand

LEMMA StepRevives ==
    ASSUME IInv, [Next]_vars, NEW j \in Jobs, job[j].status \in {"SUCCEEDED", "FAILED"}
    PROVE  job'[j].status = job[j].status \/ WrittenBlindly(j)
<1>1. CASE Harmless \/ job'[j] = job[j]
  BY <1>1 DEF Harmless
<1>2. ASSUME NEW c \in Clients, EnqueueCreate(c) PROVE job'[j] = job[j]
  BY <1>2, CreateWrites
<1>3. ASSUME NEW r \in Runners, ResetStale(r), job'[j] # job[j] PROVE WrittenBlindly(j)
  BY <1>3, ResetStaleWrites DEF WrittenBlindly, Outdated
<1>4. ASSUME NEW r \in Runners, Lock(r) PROVE job'[j] = job[j]
  BY <1>4, LockWrites
<1>5. ASSUME NEW r \in Runners, MarkSucceeded(r) \/ Retry(r) \/ Fail(r) PROVE job'[j] = job[j]
  BY <1>5, FencedWrites
<1>6. ASSUME NEW k \in Jobs, OperatorRequeue(k) PROVE job'[j] = job[j] \/ OperatorRequeue(j)
  BY <1>6, RequeueWrites
<1> QED
  BY <1>1, <1>2, <1>3, <1>4, <1>5, <1>6, StepKinds DEF WrittenBlindly

\* A job that has SUCCEEDED or FAILED stays so through every late runner and
\* every race, but for those two writes.
THEOREM LateRunnersReviveNothing == Spec => OnlyBlindWritesRevive
<1>1. IInv /\ [Next]_vars =>
          [\A j \in Jobs : job[j].status \in {"SUCCEEDED", "FAILED"} =>
               job'[j].status = job[j].status \/ WrittenBlindly(j)]_vars
  BY StepRevives
<1> QED
  BY <1>1, Invariant, PTL DEF Spec, OnlyBlindWritesRevive
=============================================================================
