----------------------------- MODULE Idempotency -----------------------------
(***************************************************************************)
(* The Idempotency-Key middleware: the requests of one user that carry the *)
(* same key to the same endpoint, and the one row they compete for.        *)
(*                                                                         *)
(* A request reserves the row, runs its handler, answers, and stores or    *)
(* releases the row when its answer has left.  Keys do not share rows, so  *)
(* one of them stands for all.  A request is assumed to end within the     *)
(* 24 hours of IDEMPOTENCY_TTL_MS: a row expires only when the request     *)
(* that reserved it is over.                                               *)
(***************************************************************************)
EXTENDS Integers

CONSTANTS
    Requests,     \* requests with the key: retries and duplicates of one another
    Changed,      \* those of them whose body differs from that of the others
    MaxFaults,    \* bound: failed handlers, failed statements and lost processes
    None

ASSUME IdempotencyAssumption ==
    /\ Changed \subseteq Requests
    /\ MaxFaults \in Nat
    /\ None \notin Requests

VARIABLES
    row,        \* IdempotencyKey, the row of this user, endpoint and key
    req,        \* the requests
    effects,    \* how often a handler's effect was committed
    excuses,    \* how often the code knowingly allowed one more
    faults      \* how many of MaxFaults have happened

vars == <<row, req, effects, excuses, faults>>

------------------------------------------------------------------------------
\* by: the request that reserved it, which is its id.  response: the request
\* whose answer is stored.
Row == [status : {"absent", "pending", "completed"}, by : Requests \cup {None},
        expired : BOOLEAN, response : Requests \cup {None}]

\* found: the expired row the request is about to delete.  answer: what it told
\* its client; from: the request whose answer it replayed.
Request == [pc : {"new", "create", "find", "reclaim", "run", "answer", "settle", "done"},
            attempt : 0..1, owned : BOOLEAN, did : BOOLEAN, ok : BOOLEAN,
            found : Requests \cup {None}, from : Requests \cup {None},
            answer : {"none", "own", "error", "replay", "reuse", "inProgress"}]

NoRow == [status |-> "absent", by |-> None, expired |-> FALSE, response |-> None]
NewRequest == [pc |-> "new", attempt |-> 0, owned |-> FALSE, did |-> FALSE, ok |-> FALSE,
               found |-> None, from |-> None, answer |-> "none"]

Body(r) == r \in Changed

MayFault == faults < MaxFaults
Fault == MayFault /\ faults' = faults + 1

------------------------------------------------------------------------------
\* Mutants of the definitions below, one plausible bug each.
CreatesAnyhow(r) == TRUE
HooksAnyhow(r) == TRUE
IgnoresBody(r) == TRUE

\* The unique index on (userId, endpoint, key).
Free(r) == row.status = "absent"

\* payloadHash equals that of the row.
SameBody(r) == Body(row.by) = Body(r)

\* The loop of two attempts goes round once more.
HasAttempt(r) == req[r].attempt + 1 < 2

\* There is a stored response to replay.
Stored(r) == row.status = "completed"

\* storeOrRelease touches no row but a pending one.
IsPending == row.status = "pending"

\* Only the request that reserved the row hooks its response.
HooksResponse(r) == req[r].owned

------------------------------------------------------------------------------
Init ==
    /\ row = NoRow
    /\ req = [r \in Requests |-> NewRequest]
    /\ effects = 0 /\ excuses = 0 /\ faults = 0

Goto(r, pc) == req' = [req EXCEPT ![r].pc = pc]
Answer(r, answer, from) ==
    req' = [req EXCEPT ![r].pc = "done", ![r].answer = answer, ![r].from = from]

Arrive(r) ==
    /\ req[r].pc = "new"
    /\ Goto(r, "create")
    /\ UNCHANGED <<row, effects, excuses, faults>>

Reserve(r) ==
    /\ req[r].pc = "create" /\ Free(r)
    /\ row' = [status |-> "pending", by |-> r, expired |-> FALSE, response |-> None]
    /\ req' = [req EXCEPT ![r].pc = "run", ![r].owned = TRUE]
    /\ UNCHANGED <<effects, excuses, faults>>

Taken(r) ==
    /\ req[r].pc = "create" /\ ~Free(r)
    /\ Goto(r, "find")
    /\ UNCHANGED <<row, effects, excuses, faults>>

\* Any other error of the insert is passed on.
CreateFails(r) ==
    /\ req[r].pc = "create"
    /\ Answer(r, "error", None)
    /\ Fault
    /\ UNCHANGED <<row, effects, excuses>>

\* After two attempts the request goes ahead unprotected.
Again(r) == IF HasAttempt(r)
            THEN req' = [req EXCEPT ![r].pc = "create", ![r].attempt = @ + 1, ![r].found = None]
            ELSE req' = [req EXCEPT ![r].pc = "run", ![r].found = None]

FindNone(r) ==
    /\ req[r].pc = "find" /\ row.status = "absent"
    /\ Again(r)
    /\ UNCHANGED <<row, effects, excuses, faults>>

FindExpired(r) ==
    /\ req[r].pc = "find" /\ row.status # "absent" /\ row.expired
    /\ req' = [req EXCEPT ![r].pc = "reclaim", ![r].found = row.by]
    /\ UNCHANGED <<row, effects, excuses, faults>>

FindValid(r) ==
    /\ req[r].pc = "find" /\ row.status # "absent" /\ ~row.expired
    /\ \/ ~SameBody(r) /\ Answer(r, "reuse", None)
       \/ SameBody(r) /\ Stored(r) /\ Answer(r, "replay", row.response)
       \/ SameBody(r) /\ ~Stored(r) /\ Answer(r, "inProgress", None)
    /\ UNCHANGED <<row, effects, excuses, faults>>

\* Deletes the row it found, if nobody has done so before.
Reclaim(r) ==
    /\ req[r].pc = "reclaim"
    /\ IF row.by = req[r].found /\ row.expired
       THEN row' = NoRow /\ excuses' = excuses + 1
       ELSE UNCHANGED <<row, excuses>>
    /\ Again(r)
    /\ UNCHANGED <<effects, faults>>

------------------------------------------------------------------------------
\* The handler: its effect is committed, and it answers.
Handle(r) ==
    /\ req[r].pc = "run"
    /\ req' = [req EXCEPT ![r].pc = "answer", ![r].did = TRUE, ![r].ok = TRUE]
    /\ effects' = effects + 1
    /\ excuses' = IF req[r].owned THEN excuses ELSE excuses + 1
    /\ UNCHANGED <<row, faults>>

\* It fails before its effect, or after it: in what it does in a later statement.
HandlerFails(r, did) ==
    /\ req[r].pc = "run"
    /\ req' = [req EXCEPT ![r].pc = "answer", ![r].did = did]
    /\ effects' = IF did THEN effects + 1 ELSE effects
    /\ excuses' = IF did THEN excuses + 1 ELSE excuses
    /\ Fault
    /\ UNCHANGED row

\* res.json: the answer leaves while the row is still being settled.
Respond(r) ==
    /\ req[r].pc = "answer"
    /\ req' = [req EXCEPT ![r].pc = IF HooksResponse(r) THEN "settle" ELSE "done",
                          ![r].answer = IF req[r].ok THEN "own" ELSE "error"]
    /\ UNCHANGED <<row, effects, excuses, faults>>

Store(r) ==
    /\ req[r].pc = "settle" /\ req[r].ok
    /\ row' = IF IsPending THEN [row EXCEPT !.status = "completed", !.response = r] ELSE row
    /\ Goto(r, "done")
    /\ UNCHANGED <<effects, excuses, faults>>

Release(r) ==
    /\ req[r].pc = "settle" /\ ~req[r].ok
    /\ row' = IF IsPending THEN NoRow ELSE row
    /\ Goto(r, "done")
    /\ UNCHANGED <<effects, excuses, faults>>

\* The failure is swallowed: the row stays pending until it expires.
SettleFails(r) ==
    /\ req[r].pc = "settle"
    /\ Goto(r, "done")
    /\ Fault
    /\ UNCHANGED <<row, effects, excuses>>

Crash(r) ==
    /\ req[r].pc \notin {"new", "done"}
    /\ Goto(r, "done")
    /\ Fault
    /\ UNCHANGED <<row, effects, excuses>>

\* 24 hours have passed.
Expire ==
    /\ row.status # "absent" /\ ~row.expired
    /\ req[row.by].pc = "done"
    /\ row' = [row EXCEPT !.expired = TRUE]
    /\ UNCHANGED <<req, effects, excuses, faults>>

Next ==
    \/ \E r \in Requests :
          \/ Arrive(r) \/ Reserve(r) \/ Taken(r) \/ CreateFails(r)
          \/ FindNone(r) \/ FindExpired(r) \/ FindValid(r) \/ Reclaim(r)
          \/ Handle(r) \/ Respond(r) \/ Store(r) \/ Release(r)
          \/ SettleFails(r) \/ Crash(r)
          \/ \E did \in BOOLEAN : HandlerFails(r, did)
    \/ Expire

Spec == Init /\ [][Next]_vars

------------------------------------------------------------------------------
(* Properties. *)

\* Types.
TypeOK ==
    /\ row \in Row
    /\ req \in [Requests -> Request]
    /\ effects \in Nat
    /\ excuses \in Nat
    /\ faults \in 0..MaxFaults
    /\ row.status = "absent" <=> row.by = None

Running(r) == req[r].owned /\ req[r].pc \in {"run", "answer", "settle"}

\* The key is reserved for one request at a time, and the row is that request's
\* until it has settled it: nobody else completes, releases or reclaims it.
OneReservation ==
    \A r \in Requests : Running(r) => row.by = r /\ row.status = "pending" /\ ~row.expired

\* What was done more than once was done again knowingly: after a handler that
\* failed although its effect was committed, after the key expired, or by a
\* request that went ahead unprotected.
RerunsAreExplained == effects <= 1 + excuses

\* A replayed answer is the answer to the same body, and its effect was
\* committed: a stored row never tells of a run that failed, nor of another key's.
ReplaysAreTrue ==
    \A r \in Requests : req[r].answer = "replay" =>
        LET s == req[r].from IN s # None /\ req[s].did /\ req[s].ok /\ Body(s) = Body(r)
==============================================================================
