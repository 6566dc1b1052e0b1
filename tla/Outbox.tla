------------------------------- MODULE Outbox -------------------------------
(***************************************************************************)
(* The transactional outbox: the rows a decision leaves behind and the     *)
(* delivery workers that lease them, run their handlers and settle them.   *)
(*                                                                         *)
(* A handler is an asynchronous run of its own.  When its worker's         *)
(* deadline passes it is abandoned, not stopped, so it may mail or issue a *)
(* certificate long after its row was settled.  A run is named by its      *)
(* event and by the lease it was started under.                            *)
(*                                                                         *)
(* Mails are the events that send something to a person.  Checks are the   *)
(* completion checks of one participant and one course whose gates are     *)
(* met: they race for the one certificate.  Channels that send nothing are *)
(* left out: their mail is delivered by doing nothing.                     *)
(***************************************************************************)
EXTENDS Integers, FiniteSets

CONSTANTS
    Mails,         \* outbox rows that send something to a person
    Checks,        \* course_completion_check rows of one participant and course
    Workers,       \* delivery workers, one per process
    MaxAttempts,   \* OutboxEvent.maxAttempts
    MaxFaults,     \* bound: crashes, database errors and late timers
    None

Events == Mails \cup Checks

ASSUME OutboxAssumption ==
    /\ MaxAttempts \in Nat \ {0}
    /\ MaxFaults \in Nat
    /\ Mails \cap Checks = {}
    /\ None \notin Events

\* The leases of a row, numbered: (lockedBy, lockedAt) of the claim, and the
\* availableAt it wrote.  NoLease is null.
NoLease == 0
Leases == 1..(MaxAttempts + MaxFaults)

VARIABLES
    row,            \* OutboxEvent
    worker,         \* the processNextOutboxEvent call each worker is in
    run,            \* handlers in progress, by event and lease
    mails,          \* how often the person behind an event was mailed
    certificate,    \* the CourseCompletion row exists
    faults          \* how many of MaxFaults have happened

vars == <<row, worker, run, mails, certificate, faults>>

------------------------------------------------------------------------------
Row == [status : {"absent", "pending", "delivered", "failed"}, attempts : 0..MaxAttempts,
        claims : Leases \cup {NoLease}, lock : Leases \cup {NoLease}, due : BOOLEAN]

\* seen, attempts: those of the row when it was selected; attempts then becomes
\* what the failure path writes there.
Worker == [pc : {"idle", "found", "delivering", "mark", "catch"}, event : Events \cup {None},
           seen : Leases \cup {NoLease}, lease : Leases \cup {NoLease}, attempts : 0..MaxAttempts]

Run == [pc : {"none", "work", "create", "audit", "done"}, by : Workers \cup {None},
        result : {"none", "ok", "error", "cutOff"}]

NoRow == [status |-> "absent", attempts |-> 0, claims |-> NoLease, lock |-> NoLease, due |-> FALSE]
IdleWorker == [pc |-> "idle", event |-> None, seen |-> NoLease, lease |-> NoLease, attempts |-> 0]
NoRun == [pc |-> "none", by |-> None, result |-> "none"]

------------------------------------------------------------------------------
\* Mutants of the definitions below, one plausible bug each.
HoldsById(w, e) == row[e].status # "absent"
CatchWithoutDeadline(e, attempts, result) == IF result = "cutOff" THEN MaxAttempts ELSE attempts + 1
AnsweredAnyhow(result) == TRUE
NextUncounted(e, attempts, result) == attempts

\* The fence of a terminal write: the row still carries this worker's lease.
Holds(w, e) == row[e].lock = worker[w].lease

\* The compare-and-set of a claim: availableAt is still what was selected.  A
\* claim and a retry write it, the one with the claims, the other with attempts.
Won(w) == LET e == worker[w].event
          IN /\ row[e].status = "pending"
             /\ row[e].claims = worker[w].seen /\ row[e].attempts = worker[w].attempts

WillRetry(attempts) == attempts < MaxAttempts

\* settleNotification: only a result that was delivered lets the handler return.
Answered(result) == result = "ok"

\* What the failure path writes to attempts: a send that may have gone through,
\* cut off inside or by the deadline, uses up all of them.
NextAttempts(e, attempts, result) ==
    IF result = "cutOff" \/ (result = "deadline" /\ e \in Mails) THEN MaxAttempts ELSE attempts + 1

\* Settling a row takes the lease away.
Released(e) == NoLease

MayFault == faults < MaxFaults
Fault == MayFault /\ faults' = faults + 1

RunOf(w) == run[worker[w].event][worker[w].lease]
Forget(w) == run' = [run EXCEPT ![worker[w].event][worker[w].lease] = NoRun]
Catch(w, result) ==
    worker' = [worker EXCEPT ![w].pc = "catch",
                             ![w].attempts = NextAttempts(worker[w].event, @, result)]
Rest(w) == worker' = [worker EXCEPT ![w] = IdleWorker]

------------------------------------------------------------------------------
Init ==
    /\ row = [e \in Events |-> NoRow]
    /\ worker = [w \in Workers |-> IdleWorker]
    /\ run = [e \in Events |-> [l \in Leases |-> NoRun]]
    /\ mails = [e \in Mails |-> 0]
    /\ certificate = FALSE
    /\ faults = 0

Enqueue(e) ==
    /\ row[e].status = "absent"
    /\ row' = [row EXCEPT ![e].status = "pending", ![e].due = TRUE]
    /\ UNCHANGED <<worker, run, mails, certificate, faults>>

------------------------------------------------------------------------------
(* A worker's tick: select a due row, claim it, run its handler, settle it. *)

FindDue(w, e) ==
    /\ worker[w].pc = "idle"
    /\ row[e].status = "pending" /\ row[e].due
    /\ worker' = [worker EXCEPT ![w] = [IdleWorker EXCEPT !.pc = "found", !.event = e,
                                                          !.seen = row[e].claims,
                                                          !.attempts = row[e].attempts]]
    /\ UNCHANGED <<row, run, mails, certificate, faults>>

\* The claim pushes availableAt out by the lease and starts the handler.
Claim(w) ==
    LET e == worker[w].event  l == row[e].claims + 1
    IN /\ worker[w].pc = "found"
       /\ Won(w)
       /\ l \in Leases
       /\ row' = [row EXCEPT ![e].claims = l, ![e].lock = l, ![e].due = FALSE]
       /\ worker' = [worker EXCEPT ![w].pc = "delivering", ![w].lease = l]
       /\ run' = [run EXCEPT ![e][l] = [pc |-> "work", by |-> w, result |-> "none"]]
       /\ UNCHANGED <<mails, certificate, faults>>

ClaimLost(w) ==
    /\ worker[w].pc = "found"
    /\ ~Won(w)
    /\ Rest(w)
    /\ UNCHANGED <<row, run, mails, certificate, faults>>

Returned(w) ==
    /\ worker[w].pc = "delivering"
    /\ RunOf(w).pc = "done" /\ Answered(RunOf(w).result)
    /\ worker' = [worker EXCEPT ![w].pc = "mark"]
    /\ Forget(w)
    /\ UNCHANGED <<row, mails, certificate, faults>>

Threw(w) ==
    LET result == RunOf(w).result
    IN /\ worker[w].pc = "delivering"
       /\ RunOf(w).pc = "done" /\ ~Answered(result)
       /\ Catch(w, result)
       /\ Forget(w)
       /\ UNCHANGED <<row, mails, certificate, faults>>

\* The deadline passes; the handler goes on alone.
Deadline(w) ==
    /\ worker[w].pc = "delivering"
    /\ RunOf(w).pc # "done"
    /\ Catch(w, "deadline")
    /\ UNCHANGED <<row, run, mails, certificate, faults>>

\* The terminal writes match no row once the lease has passed on.
MarkDelivered(w) ==
    LET e == worker[w].event
    IN /\ worker[w].pc = "mark"
       /\ row' = IF Holds(w, e)
                 THEN [row EXCEPT ![e].status = "delivered", ![e].lock = Released(e)] ELSE row
       /\ Rest(w)
       /\ UNCHANGED <<run, mails, certificate, faults>>

\* It is inside the same try: an error of the database counts as a failed delivery.
MarkFails(w) ==
    /\ worker[w].pc = "mark"
    /\ Fault
    /\ Catch(w, "error")
    /\ UNCHANGED <<row, run, mails, certificate>>

MarkRetryOrFailed(w) ==
    LET e == worker[w].event  n == worker[w].attempts
    IN /\ worker[w].pc = "catch"
       /\ row' = IF Holds(w, e)
                 THEN [row EXCEPT ![e].attempts = n, ![e].lock = Released(e), ![e].due = ~WillRetry(n),
                                  ![e].status = IF WillRetry(n) THEN "pending" ELSE "failed"]
                 ELSE row
       /\ Rest(w)
       /\ UNCHANGED <<run, mails, certificate, faults>>

\* The tick swallows what this throws; the row waits for its lease to end.
SettleFails(w) ==
    /\ worker[w].pc = "catch"
    /\ Fault
    /\ Rest(w)
    /\ UNCHANGED <<row, run, mails, certificate>>

------------------------------------------------------------------------------
(* The handlers, whether or not somebody still waits for them.              *)

\* A handler ends: nobody hears of one that was abandoned.
Awaited(e, l) ==
    \E w \in Workers : worker[w].pc = "delivering" /\ worker[w].event = e /\ worker[w].lease = l

End(e, l, result) ==
    run' = [run EXCEPT ![e][l] = IF Awaited(e, l) THEN [@ EXCEPT !.pc = "done", !.result = result]
                                 ELSE NoRun]

\* The call to the mail service: accepted, refused, or cut off by our timeout,
\* in which case it may have been accepted.  The result is audited either way.
Send(e, l) ==
    /\ run[e][l].pc = "work" /\ e \in Mails
    /\ \E sent \in BOOLEAN, result \in {"ok", "error", "cutOff"} :
          /\ result = "ok" => sent
          /\ result = "error" => ~sent
          /\ mails' = [mails EXCEPT ![e] = IF sent THEN @ + 1 ELSE @]
          /\ run' = [run EXCEPT ![e][l].pc = "audit", ![e][l].result = result]
    /\ UNCHANGED <<row, worker, certificate, faults>>

\* A completion check looks for the certificate before it issues one.
Look(e, l) ==
    /\ run[e][l].pc = "work" /\ e \in Checks
    /\ IF certificate THEN End(e, l, "ok") ELSE run' = [run EXCEPT ![e][l].pc = "create"]
    /\ UNCHANGED <<row, worker, mails, certificate, faults>>

\* The unique index turns the second of two racing checks away with an error.
Issue(e, l) ==
    /\ run[e][l].pc = "create"
    /\ IF certificate THEN End(e, l, "error")
       ELSE run' = [run EXCEPT ![e][l].pc = "audit", ![e][l].result = "ok"]
    /\ certificate' = TRUE
    /\ UNCHANGED <<row, worker, mails, faults>>

Audit(e, l) ==
    /\ run[e][l].pc = "audit"
    /\ End(e, l, run[e][l].result)
    /\ UNCHANGED <<row, worker, mails, certificate, faults>>

\* An error of the database, or of the network while the send is polled.
HandlerFails(e, l) ==
    /\ run[e][l].pc \in {"work", "create", "audit"}
    /\ Fault
    /\ End(e, l, "error")
    /\ UNCHANGED <<row, worker, mails, certificate>>

------------------------------------------------------------------------------
(* Time and restarts.                                                       *)

\* A backoff, or the lease of a worker that is gone, runs out.  The delivery
\* deadline is shorter than the lease, so a lease that runs out under its
\* worker means that the process stood still: a fault.
BecomesDue(e) ==
    /\ row[e].status = "pending" /\ ~row[e].due
    /\ row' = [row EXCEPT ![e].due = TRUE]
    /\ IF \E w \in Workers : worker[w].event = e /\ worker[w].lease # NoLease /\ Holds(w, e)
       THEN Fault ELSE UNCHANGED faults
    /\ UNCHANGED <<worker, run, mails, certificate>>

Crash(w) ==
    /\ Fault
    /\ Rest(w)
    /\ run' = [e \in Events |-> [l \in Leases |-> IF run[e][l].by = w THEN NoRun ELSE run[e][l]]]
    /\ UNCHANGED <<row, mails, certificate>>

------------------------------------------------------------------------------
WorkerStep(w) ==
    \/ \E e \in Events : FindDue(w, e)
    \/ Claim(w) \/ ClaimLost(w)
    \/ Returned(w) \/ Threw(w) \/ Deadline(w)
    \/ MarkDelivered(w) \/ MarkRetryOrFailed(w)

HandlerStep(e, l) == Send(e, l) \/ Look(e, l) \/ Issue(e, l) \/ Audit(e, l)

FaultStep ==
    \/ \E w \in Workers : MarkFails(w) \/ SettleFails(w) \/ Crash(w)
    \/ \E e \in Events, l \in Leases : HandlerFails(e, l)

Next ==
    \/ \E e \in Events : Enqueue(e) \/ BecomesDue(e)
    \/ \E w \in Workers : WorkerStep(w)
    \/ \E e \in Events, l \in Leases : HandlerStep(e, l)
    \/ FaultStep

Spec == Init /\ [][Next]_vars

\* The poll timer keeps ticking, every database call ends or times out, the
\* deadline frees the worker of a handler that hangs, and time passes.  No
\* handler need ever answer.
Fairness ==
    /\ \A w \in Workers : WF_vars(WorkerStep(w))
    /\ \A e \in Events : WF_vars(BecomesDue(e))

FairSpec == Spec /\ Fairness

------------------------------------------------------------------------------
(* Properties                                                               *)

TypeOK ==
    /\ row \in [Events -> Row]
    /\ worker \in [Workers -> Worker]
    /\ run \in [Events -> [Leases -> Run]]
    /\ mails \in [Mails -> Nat]
    /\ certificate \in BOOLEAN
    /\ faults \in 0..MaxFaults

Ended(e) == row[e].status \in {"delivered", "failed"}

\* A row says delivered only when the person was mailed, or the certificate
\* exists: no late worker and no abandoned handler claims it (#1115).
DeliveredIsDone ==
    /\ \A e \in Mails : row[e].status = "delivered" => mails[e] > 0
    /\ \A e \in Checks : row[e].status = "delivered" => certificate

\* A person is mailed once, and once more for every fault at most.
DuplicatesNeedFaults == \A e \in Mails : mails[e] <= 1 + faults

\* Bounded retries: a row is never claimed more often than it has attempts and
\* there were faults, so a pending row always finds a lease left.
TriesBounded == \A e \in Events : row[e].claims <= row[e].attempts + faults + 1

\* The worker that settles a row last is the one that claimed it last: what has
\* ended stays ended and is not delivered again.
EndedStaysEnded == [][\A e \in Events : Ended(e) => row'[e] = row[e]]_vars

\* Every row is delivered or failed in the end.
EventsSettle == \A e \in Events : row[e].status = "pending" ~> Ended(e)

\* The notification pipeline dedupes on its own audit trail.
MailedOnce == \A e \in Mails : mails[e] <= 1
=============================================================================
