--------------------------- MODULE McqAttemptProofs ---------------------------
(***************************************************************************)
(* Proofs about McqAttempt for every set of requests, questions and        *)
(* answers, and every number of faults.                                    *)
(*                                                                         *)
(* The argument.  A transaction that has set completedAt keeps every other *)
(* one from setting it until it commits, and found the attempt open.  An   *)
(* open attempt has no committed responses, so those it commits are the    *)
(* attempt's only ones.  The job judges an attempt that was completed when *)
(* it looked, on a submission without a verdict, and only one job runs: so *)
(* what it writes can only be overtaken by a second attempt.               *)
(***************************************************************************)
EXTENDS McqAttempt, TLAPS

------------------------------------------------------------------------------
(* The inductive invariant, in parts.                                       *)

\* An attempt has not been opened before its start opens it.
StartInv ==
    \A r \in Starts : req[r].pc \in {"new", "look", "create"} => attempt[r].state = "none"

\* What an open transaction of a submit has done.
Handing == {"deleting", "inserting", "completing", "committing"}
SheetInv(r, q) ==
    /\ q.pc \in Handing => q.on \in Attempts /\ attempt[q.on].state # "none"
    /\ q.pc \in {"completing", "committing"} => q.inserted = Answered[r]
    /\ q.completed <=> q.pc = "committing"
    /\ q.completed => attempt[q.on].state = "open"
SubmitInv == \A r \in Submits : SheetInv(r, req[r])

\* One transaction at a time holds a completion.
OneCompletes == \A r, s \in Submits : req[r].completed /\ req[s].completed => r = s

\* What counts as handed in was handed in by somebody.
ScoreInv == \A a \in Attempts : attempt[a].state = "completed" => attempt[a].score \in Submits

Completed(a) == a \in Attempts /\ attempt[a].state = "completed"
JudgeInv ==
    /\ judge.pc \in {"mark", "decide"} =>
          decision = None /\ judge.on # None /\ Completed(judge.on) /\ latest # None
    /\ judge.pc = "end" => decision # None
    /\ latest # None => Completed(latest)
    /\ decision # None => Completed(decision)

IInv == /\ TypeOK /\ StartInv /\ SubmitInv /\ OneCompletes /\ ScoreInv /\ JudgeInv
        /\ ScoreIsOfItsResponses /\ OneAttemptIsSafe /\ AnswersInHand

------------------------------------------------------------------------------
LEMMA InitInvariant == Init => IInv
<1> SUFFICES ASSUME Init PROVE IInv
  OBVIOUS
<1>1. TypeOK
  BY McqAssumption DEF Init, TypeOK, NewRequest, Request, Status, Attempt, Judge, Blank
<1>2. StartInv /\ SubmitInv /\ OneCompletes
  BY DEF Init, StartInv, SubmitInv, SheetInv, Handing, OneCompletes, NewRequest, Requests, Attempts
<1>3. ScoreInv /\ JudgeInv /\ ScoreIsOfItsResponses /\ OneAttemptIsSafe /\ AnswersInHand
  BY DEF Init, ScoreInv, JudgeInv, ScoreIsOfItsResponses, OneAttemptIsSafe, VerdictStands, AnswersInHand
<1> QED
  BY <1>1, <1>2, <1>3 DEF IInv

------------------------------------------------------------------------------
(* Steps of a request that commit nothing.                                  *)

\* Request r goes to q.
Goes(r, q) ==
    /\ q \in Request /\ req' = [req EXCEPT ![r] = q]
    /\ faults' \in 0..MaxFaults /\ faults <= faults'
    /\ r \in Starts /\ q.pc \in {"new", "look", "create"} => req[r].pc \in {"new", "look", "create"}
    /\ r \in Submits => SheetInv(r, q)
    /\ r \in Submits /\ q.completed => \A s \in Submits \ {r} : ~req[s].completed
    /\ r \in Submits /\ req[r].pc = "enqueue" => faults' > 0

LEMMA AsideKeeps ==
    ASSUME IInv, NEW r \in Requests, NEW q, Goes(r, q), UNCHANGED <<rows, job, judge>>
    PROVE  IInv'
<1>1. req'[r] = q /\ \A s \in Requests : s # r => req'[s] = req[s]
  BY DEF IInv, TypeOK, Goes
<1>2. TypeOK'
  BY DEF IInv, TypeOK, Goes, rows
<1>3. StartInv' /\ SubmitInv' /\ OneCompletes'
  <2>1. StartInv'
    BY <1>1 DEF IInv, StartInv, Goes, rows, Requests
  <2>2. SubmitInv'
    BY <1>1 DEF IInv, SubmitInv, SheetInv, Goes, rows, Requests
  <2>3. OneCompletes'
    BY <1>1 DEF IInv, OneCompletes, Goes, Requests
  <2> QED
    BY <2>1, <2>2, <2>3
<1>4. ScoreInv' /\ JudgeInv' /\ ScoreIsOfItsResponses' /\ OneAttemptIsSafe'
  BY DEF IInv, ScoreInv, JudgeInv, Completed, ScoreIsOfItsResponses, OneAttemptIsSafe, VerdictStands,
         Opened, rows, Blank
<1>5. AnswersInHand'
  <2>1. faults \in Nat /\ faults' \in Nat /\ faults <= faults'
    BY McqAssumption DEF IInv, TypeOK, Goes
  <2>2. \A s \in Submits : req[s].pc = "enqueue" => req'[s].pc = "enqueue" \/ faults' > 0
    BY <1>1 DEF Goes, Requests
  <2> QED
    BY <2>1, <2>2 DEF IInv, AnswersInHand, ActiveJob, rows
<1> QED
  BY <1>2, <1>3, <1>4, <1>5 DEF IInv

\* A request that ends without a commit.
LEMMA FinishKeeps ==
    ASSUME IInv, NEW r \in Requests, Finish(r), UNCHANGED <<rows, job, judge>>,
           faults' \in 0..MaxFaults, faults <= faults', req[r].pc = "enqueue" => faults' > 0
    PROVE  IInv'
<1> DEFINE q == [NewRequest EXCEPT !.pc = "done"]
<1>1. q \in Request /\ q.pc = "done" /\ ~q.completed
  BY DEF NewRequest, Request, Status
<1>2. req' = [req EXCEPT ![r] = q]
  BY DEF Finish
<1> HIDE DEF q
<1>3. Goes(r, q)
  BY <1>1, <1>2 DEF Goes, SheetInv, Handing
<1> QED
  BY <1>3, AsideKeeps

LEMMA ReadKeeps ==
    ASSUME IInv, NEW r \in Requests, ReadSubmission(r) \/ FindOpen(r) \/ ReadAttempt(r)
    PROVE  IInv'
<1>1. req[r] \in Request /\ faults \in 0..MaxFaults /\ faults <= faults /\ status \in Status
      /\ req[r].pc \in {"new", "look"} /\ UNCHANGED <<rows, job, judge, faults>>
  BY McqAssumption DEF IInv, TypeOK, ReadSubmission, FindOpen, ReadAttempt
<1>2. r \in Submits => ~req[r].completed
  BY <1>1 DEF IInv, SubmitInv, SheetInv
<1>3. ASSUME NEW pc \in {"look", "create", "enqueue"}, NEW seen \in Status,
             pc = "enqueue" => r \in Runs, 
             req' = [req EXCEPT ![r].pc = pc, ![r].seen = seen]
      PROVE  IInv'
  <2> DEFINE q == [req[r] EXCEPT !.pc = pc, !.seen = seen]
  <2>1. q \in Request /\ q.pc = pc /\ q.completed = req[r].completed
    BY <1>1, <1>3 DEF Request
  <2>2. req' = [req EXCEPT ![r] = q]
    BY <1>3
  <2> HIDE DEF q
  <2>3. Goes(r, q)
    BY <1>1, <1>2, <2>1, <2>2 DEF Goes, SheetInv, Handing
  <2> QED
    BY <1>1, <2>3, AsideKeeps
<1>4. CASE ReadSubmission(r)
  BY <1>1, <1>3, <1>4 DEF ReadSubmission
<1>5. CASE Finish(r)
  BY <1>1, <1>5, FinishKeeps
<1>6. CASE FindOpen(r)
  <2>1. CASE Goto(r, "create")
    <3>1. req' = [req EXCEPT ![r].pc = "create", ![r].seen = req[r].seen]
      BY <1>1, <2>1 DEF Goto, Request, IInv, TypeOK
    <3> QED
      BY <1>1, <1>3, <3>1 DEF Request
  <2> QED
    BY <1>5, <1>6, <2>1 DEF FindOpen
<1>7. CASE ReadAttempt(r)
  <2>1. ASSUME NEW a \in Opened, req' = [req EXCEPT ![r].pc = "deleting", ![r].on = a]
        PROVE  IInv'
    <3> DEFINE q == [req[r] EXCEPT !.pc = "deleting", !.on = a]
    <3>1. q \in Request /\ q.pc = "deleting" /\ q.completed = req[r].completed /\ q.on = a
      BY <1>1 DEF Request, Opened
    <3>2. req' = [req EXCEPT ![r] = q]
      BY <2>1
    <3> HIDE DEF q
    <3>3. r \in Submits /\ r \notin Starts /\ req[r].pc = "look"
      BY <1>7, McqAssumption DEF ReadAttempt
    <3>4. Goes(r, q)
      BY <1>1, <1>2, <3>1, <3>2, <3>3 DEF Goes, SheetInv, Handing, Opened
    <3> QED
      BY <1>1, <3>4, AsideKeeps
  <2> QED
    BY <1>5, <1>7, <2>1 DEF ReadAttempt
<1> QED
  BY <1>4, <1>6, <1>7

LEMMA HandKeeps ==
    ASSUME IInv, NEW r \in Requests,
           DeleteResponses(r) \/ CreateResponses(r) \/ CompleteAttempt(r)
    PROVE  IInv'
<1>1. req[r] \in Request /\ faults \in 0..MaxFaults /\ faults <= faults
      /\ r \in Submits /\ r \notin Starts
      /\ req[r].pc \in {"deleting", "inserting", "completing"} /\ UNCHANGED <<rows, job, judge, faults>>
  BY McqAssumption DEF IInv, TypeOK, DeleteResponses, CreateResponses, CompleteAttempt
<1>2. /\ SheetInv(r, req[r]) /\ ~req[r].completed
      /\ req[r].on \in Attempts /\ attempt[req[r].on].state # "none"
  BY <1>1 DEF IInv, SubmitInv, SheetInv, Handing
<1>3. CASE Finish(r)
  BY <1>1, <1>3, FinishKeeps
<1>4. CASE DeleteResponses(r)
  <2> DEFINE qs == Stored(req[r].on)
             q == [req[r] EXCEPT !.pc = "inserting", !.deleted = qs]
  <2>1. qs \subseteq Questions
    BY DEF Stored
  <2>2. q \in Request /\ q.pc = "inserting" /\ q.completed = req[r].completed /\ q.on = req[r].on
    BY <1>1, <2>1 DEF Request
  <2>3. req' = [req EXCEPT ![r] = q]
    BY <1>4 DEF DeleteResponses
  <2> HIDE DEF q
  <2>4. Goes(r, q)
    BY <1>1, <1>2, <2>2, <2>3 DEF Goes, SheetInv, Handing
  <2> QED
    BY <1>1, <2>4, AsideKeeps
<1>5. CASE CreateResponses(r) /\ ~Finish(r)
  <2> DEFINE q == [req[r] EXCEPT !.pc = "completing", !.inserted = Answered[r], !.after = latest]
  <2>1. Answered[r] \subseteq Questions /\ latest \in Attempts \cup {None}
    BY <1>1, McqAssumption DEF IInv, TypeOK
  <2>2. /\ q \in Request /\ q.pc = "completing" /\ q.completed = req[r].completed /\ q.on = req[r].on
        /\ q.inserted = Answered[r]
    BY <1>1, <2>1 DEF Request
  <2>3. req' = [req EXCEPT ![r] = q]
    BY <1>5 DEF CreateResponses
  <2> HIDE DEF q
  <2>4. Goes(r, q)
    BY <1>1, <1>2, <2>2, <2>3 DEF Goes, SheetInv, Handing
  <2> QED
    BY <1>1, <2>4, AsideKeeps
<1>6. CASE CompleteAttempt(r) /\ ~Finish(r)
  <2> DEFINE q == [req[r] EXCEPT !.pc = "committing", !.completed = TRUE]
  <2>1. /\ q \in Request /\ q.pc = "committing" /\ q.completed /\ q.on = req[r].on
        /\ q.inserted = req[r].inserted
    BY <1>1 DEF Request
  <2>2. req' = [req EXCEPT ![r] = q]
    BY <1>6 DEF CompleteAttempt
  <2> HIDE DEF q
  <2>3. /\ attempt[q.on].state = "open" /\ req[r].pc = "completing"
        /\ \A s \in Submits \ {r} : ~req[s].completed
    BY <1>6, <2>1 DEF CompleteAttempt, StillOpen, CompletionFree
  <2>4. Goes(r, q)
    BY <1>1, <1>2, <2>1, <2>2, <2>3 DEF Goes, SheetInv, Handing
  <2> QED
    BY <1>1, <2>4, AsideKeeps
<1> QED
  BY <1>3, <1>4, <1>5, <1>6

LEMMA LostKeeps ==
    ASSUME IInv, NEW r \in Requests, Lost(r)
    PROVE  IInv'
<1>1. faults \in 0..MaxFaults /\ faults < MaxFaults /\ faults' = faults + 1 /\ MaxFaults \in Nat
  BY McqAssumption DEF IInv, TypeOK, Lost, Fault
<1>2. faults' \in 0..MaxFaults /\ faults <= faults' /\ faults' > 0
  BY <1>1
<1> QED
  BY <1>2, FinishKeeps DEF Lost

------------------------------------------------------------------------------
(* Steps that commit.                                                       *)

LEMMA CreateKeeps ==
    ASSUME IInv, NEW r \in Requests, CreateAttempt(r)
    PROVE  IInv'
<1>1. /\ r \in Starts /\ r \notin Submits /\ attempt[r].state = "none" /\ attempt[r] \in Attempt
      /\ UNCHANGED <<status, response, latest, decision, job, judge, faults>>
  BY McqAssumption DEF IInv, TypeOK, StartInv, CreateAttempt, Attempts
<1> DEFINE q == [NewRequest EXCEPT !.pc = "done"]
           row == [attempt[r] EXCEPT !.state = "open"]
<1>2. q \in Request /\ q.pc = "done" /\ ~q.completed
  BY DEF NewRequest, Request, Status
<1>3. row \in Attempt /\ row.state = "open"
  BY <1>1 DEF Attempt
<1>4. req' = [req EXCEPT ![r] = q] /\ attempt' = [attempt EXCEPT ![r] = row]
  BY <1>1 DEF CreateAttempt, Finish
<1> HIDE DEF q, row
<1>5. /\ req'[r] = q /\ \A s \in Requests : s # r => req'[s] = req[s]
      /\ attempt'[r] = row /\ \A a \in Attempts : a # r => attempt'[a] = attempt[a]
  BY <1>1, <1>4 DEF IInv, TypeOK, Attempts
<1>6. TypeOK'
  BY <1>1, <1>2, <1>3, <1>4 DEF IInv, TypeOK
<1>7. StartInv' /\ OneCompletes'
  BY <1>1, <1>2, <1>5 DEF IInv, StartInv, OneCompletes, Attempts, Requests
<1>8. SubmitInv'
  <2> SUFFICES ASSUME NEW s \in Submits PROVE SheetInv(s, req[s])'
    BY DEF SubmitInv
  <2>1. req'[s] = req[s] /\ SheetInv(s, req[s])
    BY <1>1, <1>5 DEF IInv, SubmitInv, Requests
  <2> QED
    BY <1>1, <1>3, <1>5, <2>1 DEF SheetInv, Handing
<1>9. ScoreInv' /\ JudgeInv' /\ ScoreIsOfItsResponses'
  <2>1. \A a \in Attempts : attempt'[a].state = "completed" <=> attempt[a].state = "completed"
    BY <1>1, <1>3, <1>5
  <2>2. \A a \in Attempts : attempt[a].state = "completed" => attempt'[a] = attempt[a]
    BY <1>1, <1>5
  <2>3. ScoreInv'
    BY <2>1, <2>2 DEF IInv, ScoreInv
  <2>4. JudgeInv'
    BY <1>1, <2>1 DEF IInv, JudgeInv, Completed
  <2>5. ScoreIsOfItsResponses'
    <3> SUFFICES ASSUME NEW a \in Attempts
                 PROVE  IF attempt'[a].state = "completed"
                        THEN response'[a] = [n \in Questions |->
                               IF n \in Answered[attempt'[a].score] THEN attempt'[a].score ELSE None]
                        ELSE response'[a] = Blank
      BY DEF ScoreIsOfItsResponses, Blank
    <3> QED
      BY <1>1, <2>1, <2>2 DEF IInv, ScoreIsOfItsResponses
  <2> QED
    BY <2>3, <2>4, <2>5
<1>10. OneAttemptIsSafe'
  <2>1. \A a \in Opened : a \in Opened'
    BY <1>1, <1>3, <1>5 DEF Opened, Attempts
  <2> QED
    BY <1>1, <2>1 DEF IInv, OneAttemptIsSafe, VerdictStands
<1>11. AnswersInHand'
  BY <1>1, <1>5 DEF IInv, AnswersInHand, ActiveJob, Requests
<1> QED
  BY <1>6, <1>7, <1>8, <1>9, <1>10, <1>11 DEF IInv

LEMMA CommitKeeps ==
    ASSUME IInv, NEW r \in Requests, Commit(r)
    PROVE  IInv'
<1> DEFINE a == req[r].on
           q == [NewRequest EXCEPT !.pc = "enqueue"]
           row == [state |-> "completed", score |-> r]
           kept == [n \in Questions |-> IF n \in Answered[r] THEN r ELSE None]
<1>1. /\ r \in Submits /\ r \notin Starts /\ req[r].pc = "committing" /\ status' = "PROCESSING"
      /\ UNCHANGED <<decision, job, judge, faults>> /\ a \in Attempts
      /\ attempt[a].state = "open" /\ req[r].completed /\ req[r].inserted = Answered[r]
      /\ latest' # None /\ latest' \in {a, latest}
  BY McqAssumption DEF Commit, CompletedLast, IInv, SubmitInv, SheetInv, Handing, Attempts
<1>2. q \in Request /\ q.pc = "enqueue" /\ ~q.completed
  BY DEF NewRequest, Request, Status
<1>3. row \in Attempt /\ row.state = "completed" /\ row.score = r
  BY <1>1 DEF Attempt
<1>4. response[a] = Blank
  BY <1>1 DEF IInv, ScoreIsOfItsResponses
<1>5. /\ req' = [req EXCEPT ![r] = q] /\ attempt' = [attempt EXCEPT ![a] = row]
      /\ response' = [response EXCEPT ![a] = kept]
  <2>1. response' = [response EXCEPT ![a] =
                       [n \in Questions |-> IF n \in req[r].inserted THEN r
                                            ELSE IF n \in req[r].deleted THEN None ELSE @[n]]]
    BY DEF Commit
  <2>2. \A n \in Questions : response[a][n] = None
    BY <1>4 DEF Blank
  <2>3. [n \in Questions |-> IF n \in req[r].inserted THEN r
                             ELSE IF n \in req[r].deleted THEN None ELSE response[a][n]] = kept
    BY <1>1, <2>2
  <2> QED
    BY <2>1, <2>3 DEF Commit
<1>6. kept \in [Questions -> Submits \cup {None}]
  BY <1>1
<1> HIDE DEF a, q, row
<1>7. /\ req'[r] = q /\ \A s \in Requests : s # r => req'[s] = req[s]
      /\ attempt'[a] = row /\ \A b \in Attempts : b # a => attempt'[b] = attempt[b]
      /\ response'[a] = kept /\ \A b \in Attempts : b # a => response'[b] = response[b]
  BY <1>1, <1>5 DEF IInv, TypeOK
<1>8. TypeOK'
  <2>1. status' \in Status /\ latest' \in Attempts \cup {None}
    BY <1>1 DEF IInv, TypeOK, Status
  <2>2. attempt' \in [Attempts -> Attempt] /\ req' \in [Requests -> Request]
        /\ response' \in [Attempts -> [Questions -> Submits \cup {None}]]
    BY <1>2, <1>3, <1>5, <1>6 DEF IInv, TypeOK
  <2> QED
    BY <1>1, <2>1, <2>2 DEF IInv, TypeOK
<1>9. StartInv'
  <2>1. \A s \in Starts : req[s].pc \in {"new", "look", "create"} => s # a
    BY <1>1 DEF IInv, StartInv
  <2> QED
    BY <1>1, <1>7, <2>1 DEF IInv, StartInv, Requests, Attempts
<1>10. SubmitInv' /\ OneCompletes'
  <2>1. \A s \in Submits : s # r => ~req[s].completed
    BY <1>1 DEF IInv, OneCompletes
  <2>2. ASSUME NEW s \in Submits, s # r PROVE SheetInv(s, req[s])'
    <3>1. req'[s] = req[s] /\ SheetInv(s, req[s]) /\ ~req[s].completed
      BY <1>7, <2>1, <2>2 DEF IInv, SubmitInv, Requests
    <3> QED
      BY <1>3, <1>7, <3>1 DEF SheetInv, Handing
  <2>3. SheetInv(r, req[r])'
    BY <1>2, <1>7 DEF SheetInv, Handing
  <2> QED
    BY <1>2, <1>7, <2>1, <2>2, <2>3 DEF SubmitInv, OneCompletes, Requests
<1>11. ScoreInv' /\ JudgeInv'
  BY <1>1, <1>3, <1>7, McqAssumption DEF Attempts, IInv, ScoreInv, JudgeInv, Completed
<1>12. ScoreIsOfItsResponses'
  <2> SUFFICES ASSUME NEW b \in Attempts
               PROVE  IF attempt'[b].state = "completed"
                      THEN response'[b] = [n \in Questions |->
                             IF n \in Answered[attempt'[b].score] THEN attempt'[b].score ELSE None]
                      ELSE response'[b] = Blank
    BY DEF ScoreIsOfItsResponses, Blank
  <2>1. CASE b = a
    BY <1>3, <1>7, <2>1
  <2>2. CASE b # a
    BY <1>7, <2>2 DEF IInv, ScoreIsOfItsResponses
  <2> QED
    BY <2>1, <2>2
<1>13. OneAttemptIsSafe'
  <2> SUFFICES ASSUME \A b, c \in Opened' : b = c, decision # None PROVE FALSE
    BY <1>1 DEF OneAttemptIsSafe, VerdictStands
  <2>1. decision \in Attempts /\ attempt[decision].state = "completed"
    BY DEF IInv, JudgeInv, Completed
  <2>2. decision # a
    BY <1>1, <2>1
  <2>3. decision \in Opened' /\ a \in Opened'
    BY <1>1, <1>3, <1>7, <2>1, <2>2 DEF Opened
  <2> QED
    BY <2>2, <2>3
<1>14. AnswersInHand'
  BY <1>1, <1>2, <1>7 DEF AnswersInHand
<1> QED
  BY <1>8, <1>9, <1>10, <1>11, <1>12, <1>13, <1>14 DEF IInv

LEMMA EnqueueKeeps ==
    ASSUME IInv, NEW r \in Requests, Enqueue(r)
    PROVE  IInv'
<1> DEFINE q == [NewRequest EXCEPT !.pc = "done"]
<1>1. q \in Request /\ q.pc = "done" /\ ~q.completed
  BY DEF NewRequest, Request, Status
<1>2. req' = [req EXCEPT ![r] = q] /\ UNCHANGED <<rows, judge, faults>>
  BY DEF Enqueue, Finish
<1>3. job' \in {"pending", "running"} /\ (judge.pc # "idle" => job' = "running")
  BY DEF IInv, TypeOK, Enqueue, ActiveJob
<1> HIDE DEF q
<1>4. req'[r] = q /\ \A s \in Requests : s # r => req'[s] = req[s]
  BY <1>2 DEF IInv, TypeOK
<1>5. TypeOK'
  BY <1>1, <1>2, <1>3 DEF IInv, TypeOK, rows
<1>6. StartInv' /\ OneCompletes'
  BY <1>1, <1>2, <1>4 DEF IInv, StartInv, OneCompletes, rows, Requests
<1>7. SubmitInv'
  BY <1>1, <1>2, <1>4 DEF IInv, SubmitInv, SheetInv, Handing, rows, Requests
<1>8. ScoreInv' /\ JudgeInv' /\ ScoreIsOfItsResponses' /\ OneAttemptIsSafe'
  BY <1>2 DEF IInv, ScoreInv, JudgeInv, Completed, ScoreIsOfItsResponses, OneAttemptIsSafe, VerdictStands,
         Opened, rows, Blank
<1>9. AnswersInHand'
  BY <1>3 DEF AnswersInHand, ActiveJob
<1> QED
  BY <1>5, <1>6, <1>7, <1>8, <1>9 DEF IInv

------------------------------------------------------------------------------
(* Steps of the job.                                                        *)

\* A step of the job that leaves the attempts and the requests alone.
LEMMA JobKeeps ==
    ASSUME IInv, UNCHANGED <<attempt, response, latest, req>>, TypeOK', JudgeInv', OneAttemptIsSafe',
           AnswersInHand'
    PROVE  IInv'
<1>1. StartInv' /\ SubmitInv' /\ OneCompletes'
  BY DEF IInv, StartInv, SubmitInv, SheetInv, Handing, OneCompletes
<1>2. ScoreInv' /\ ScoreIsOfItsResponses'
  BY DEF IInv, ScoreInv, ScoreIsOfItsResponses, Blank
<1> QED
  BY <1>1, <1>2 DEF IInv

LEMMA JudgeKeeps ==
    ASSUME IInv, Take \/ Read \/ Mark \/ Decide \/ Succeed \/ Throw \/ RunFails
    PROVE  IInv'
<1>1. UNCHANGED <<attempt, response, latest, req>> /\ (Opened' = Opened)
  BY DEF Take, Read, Mark, Decide, Succeed, Throw, RunFails, rows, Opened
<1>2. TypeOK'
  <2>1. CASE RunFails
    <3>1. faults' \in 0..MaxFaults
      BY <2>1, McqAssumption DEF IInv, TypeOK, RunFails, Fault
    <3> QED
      BY <2>1, <3>1 DEF IInv, TypeOK, RunFails, Judge, rows
  <2>2. CASE Take \/ Read
    BY <2>2 DEF IInv, TypeOK, Take, Read, Judge, rows
  <2>3. CASE Mark \/ Decide
    BY <2>3 DEF IInv, TypeOK, Mark, Decide, Judge, Status
  <2>4. CASE Succeed \/ Throw
    BY <2>4 DEF IInv, TypeOK, Succeed, Throw, JobEnds, Judge, rows
  <2> QED
    BY <2>1, <2>2, <2>3, <2>4
<1>3. JudgeInv'
  <2>1. judge \in Judge
    BY DEF IInv, TypeOK
  <2>2. CASE Read
    BY <2>2 DEF IInv, JudgeInv, Completed, Read, NothingToJudge, rows
  <2>3. CASE Mark \/ Decide \/ RunFails
    BY <2>1, <2>3 DEF IInv, JudgeInv, Completed, Mark, Decide, RunFails, Judge, rows
  <2>4. CASE Take \/ Succeed \/ Throw
    BY <2>4 DEF IInv, JudgeInv, Completed, Take, Succeed, Throw, JobEnds, rows
  <2> QED
    BY <2>2, <2>3, <2>4
<1>4. OneAttemptIsSafe'
  <2>1. CASE Mark
    BY <1>1, <2>1 DEF IInv, JudgeInv, OneAttemptIsSafe, VerdictStands, Mark
  <2>2. CASE Decide
    <3> SUFFICES ASSUME \A a, b \in Opened : a = b PROVE VerdictStands'
      BY <1>1 DEF OneAttemptIsSafe
    <3>1. judge.on \in Opened
      BY <2>2 DEF IInv, JudgeInv, Completed, Decide, Opened
    <3>2. latest \in Opened
      BY <2>2 DEF Decide, IInv, JudgeInv, Completed, Opened
    <3> QED
      BY <2>2, <3>1, <3>2 DEF Decide, VerdictStands
  <2>3. CASE Take \/ Read \/ Succeed \/ Throw \/ RunFails
    BY <1>1, <2>3 DEF IInv, OneAttemptIsSafe, VerdictStands, Take, Read, Succeed, Throw, RunFails, rows
  <2> QED
    BY <2>1, <2>2, <2>3
<1>5. AnswersInHand'
  <2>1. CASE Take \/ Read
    BY <2>1 DEF AnswersInHand, ActiveJob, Take, Read
  <2>2. CASE Mark \/ Decide
    BY <2>2 DEF IInv, TypeOK, AnswersInHand, ActiveJob, Mark, Decide
  <2>3. CASE Succeed
    BY <2>3 DEF IInv, JudgeInv, AnswersInHand, Succeed, rows
  <2>4. CASE Throw
    BY <2>4 DEF AnswersInHand, ActiveJob, Throw, JobEnds
  <2>5. CASE RunFails
    BY <2>5, McqAssumption DEF IInv, TypeOK, AnswersInHand, RunFails, Fault
  <2> QED
    BY <2>1, <2>2, <2>3, <2>4, <2>5
<1> QED
  BY <1>1, <1>2, <1>3, <1>4, <1>5, JobKeeps

LEMMA StepInvariant == IInv /\ [Next]_vars => IInv'
<1> SUFFICES ASSUME IInv, [Next]_vars PROVE IInv'
  OBVIOUS
<1>1. ASSUME NEW r \in Requests,
             \/ ReadSubmission(r) \/ FindOpen(r) \/ CreateAttempt(r)
             \/ ReadAttempt(r) \/ DeleteResponses(r) \/ CreateResponses(r)
             \/ CompleteAttempt(r) \/ Commit(r) \/ Enqueue(r) \/ Lost(r)
      PROVE  IInv'
  BY <1>1, ReadKeeps, HandKeeps, LostKeeps, CreateKeeps, CommitKeeps, EnqueueKeeps
<1>2. CASE Take \/ Read \/ Mark \/ Decide \/ Succeed \/ Throw \/ RunFails
  BY <1>2, JudgeKeeps
<1>3. CASE UNCHANGED vars
  <2>1. TypeOK' /\ JudgeInv' /\ OneAttemptIsSafe' /\ AnswersInHand'
    BY <1>3 DEF vars, IInv, TypeOK, JudgeInv, Completed, OneAttemptIsSafe, VerdictStands, Opened,
                AnswersInHand, ActiveJob
  <2> QED
    BY <1>3, <2>1, JobKeeps DEF vars
<1> QED
  BY <1>1, <1>2, <1>3 DEF Next

\* The invariant holds in every reachable state.
THEOREM Invariant == Spec => []IInv
  BY InitInvariant, StepInvariant, PTL DEF Spec

\* Every variable stays in its type.
THEOREM TypeCorrect == Spec => []TypeOK
<1>1. IInv => TypeOK
  BY DEF IInv
<1> QED
  BY <1>1, Invariant, PTL

\* The responses kept with an attempt are those its score was counted from,
\* whatever sheets were handed in at once.
THEOREM ScoreMatchesResponses == Spec => []ScoreIsOfItsResponses
<1>1. IInv => ScoreIsOfItsResponses
  BY DEF IInv
<1> QED
  BY <1>1, Invariant, PTL

\* With one attempt a verdict stands, on the answers that were handed in.
THEOREM VerdictOfOneAttemptStands == Spec => []OneAttemptIsSafe
<1>1. IInv => OneAttemptIsSafe
  BY DEF IInv
<1> QED
  BY <1>1, Invariant, PTL

\* Nothing handed in is forgotten without a fault or a job that visibly failed.
THEOREM AnswersKeptInHand == Spec => []AnswersInHand
<1>1. IInv => AnswersInHand
  BY DEF IInv
<1> QED
  BY <1>1, Invariant, PTL

\* An attempt that was handed in keeps its score and its responses.
THEOREM HandedInOnce == Spec => CompletedStays
<1> DEFINE Keeps == \A a \in Attempts : attempt[a].state = "completed" =>
                       attempt'[a] = attempt[a] /\ response'[a] = response[a]
<1>1. IInv /\ [Next]_vars => [Keeps]_vars
  <2> SUFFICES ASSUME IInv, Next, NEW a \in Attempts, attempt[a].state = "completed"
               PROVE  attempt'[a] = attempt[a] /\ response'[a] = response[a]
    OBVIOUS
  <2>1. ASSUME NEW r \in Requests, CreateAttempt(r)
        PROVE  attempt'[a] = attempt[a] /\ response'[a] = response[a]
    <3>1. a # r
      BY <2>1 DEF IInv, StartInv, CreateAttempt
    <3> QED
      BY <2>1, <3>1 DEF IInv, TypeOK, CreateAttempt
  <2>2. ASSUME NEW r \in Requests, Commit(r)
        PROVE  attempt'[a] = attempt[a] /\ response'[a] = response[a]
    <3>1. a # req[r].on
      BY <2>2 DEF IInv, SubmitInv, SheetInv, Handing, Commit
    <3> QED
      BY <2>2, <3>1 DEF IInv, TypeOK, Commit
  <2>3. CASE UNCHANGED <<attempt, response>>
    BY <2>3
  <2>4. ASSUME NEW r \in Requests,
               \/ ReadSubmission(r) \/ FindOpen(r)
               \/ ReadAttempt(r) \/ DeleteResponses(r) \/ CreateResponses(r)
               \/ CompleteAttempt(r) \/ Enqueue(r) \/ Lost(r)
        PROVE  UNCHANGED <<attempt, response>>
    BY <2>4 DEF ReadSubmission, FindOpen, ReadAttempt, DeleteResponses, CreateResponses,
                CompleteAttempt, Enqueue, Lost, rows
  <2>5. CASE Take \/ Read \/ Mark \/ Decide \/ Succeed \/ Throw \/ RunFails
    BY <2>5 DEF Take, Read, Mark, Decide, Succeed, Throw, RunFails, rows
  <2> QED
    BY <2>1, <2>2, <2>3, <2>4, <2>5 DEF Next
<1> QED
  BY <1>1, Invariant, PTL DEF Spec, CompletedStays
==============================================================================
