---------------------------- MODULE OutboxProofs ----------------------------
(***************************************************************************)
(* Proofs about Outbox for every set of events and workers and every       *)
(* number of attempts and faults.                                          *)
(*                                                                         *)
(* The argument.  A lease is given to one worker, and settling a row takes *)
(* it away, so a row that has ended carries no lease and no late worker    *)
(* passes the fence.  What a handler did is only ever added to, so a       *)
(* result stays true however late it is written.  A row whose lease runs   *)
(* out under its owner, or that lost its owner, has cost a fault; one that *)
(* its owner gave back has cost an attempt.  A mail that went out, or may  *)
(* yet, keeps the row from another claim unless a fault is paid.           *)
(***************************************************************************)
EXTENDS Outbox, FiniteSetTheorems, TLAPS

------------------------------------------------------------------------------
(* The inductive invariant, in parts.                                       *)

\* Worker w works for row e under the lease the row carries.
Owns(w, e) == worker[w].event = e /\ worker[w].lease # NoLease /\ Holds(w, e)

\* What was to be done for e is done.
Done(e) == (e \in Mails => mails[e] > 0) /\ (e \in Checks => certificate)

\* A worker that has claimed a row has a lease the row has given out.
WorkersInv ==
    \A w \in Workers :
        /\ worker[w].pc \in {"idle", "found"} => worker[w].lease = NoLease
        /\ worker[w].pc # "idle" => worker[w].event \in Events
        /\ worker[w].pc \in {"delivering", "mark", "catch"} =>
               /\ worker[w].lease # NoLease
               /\ worker[w].lease <= row[worker[w].event].claims
        /\ worker[w].pc \in {"delivering", "mark"} => worker[w].attempts < MaxAttempts

\* No two workers have the same lease of a row.
LeasesInv ==
    \A v, w \in Workers : /\ worker[v].event = worker[w].event
                          /\ worker[v].lease = worker[w].lease
                          /\ worker[w].lease # NoLease
                          => v = w

\* A pending row has an attempt left; one that has ended carries no lease.
RowsInv ==
    \A e \in Events : /\ row[e].status = "absent" => row[e] = NoRow
                      /\ row[e].status = "pending" => row[e].attempts < MaxAttempts
                      /\ Ended(e) => row[e].lock = NoLease

\* The owner of a row knows its attempts, and counts one more when it fails.
OwnersInv ==
    \A w \in Workers, e \in Events : Owns(w, e) =>
        IF worker[w].pc = "catch" THEN worker[w].attempts > row[e].attempts
        ELSE worker[w].attempts = row[e].attempts

\* A row that is still what a worker selected is still due.
FoundInv ==
    \A w \in Workers : worker[w].pc = "found" =>
        /\ worker[w].seen <= row[worker[w].event].claims
        /\ worker[w].attempts <= row[worker[w].event].attempts
        /\ Won(w) => row[worker[w].event].due

\* A handler that reports success, a worker that is about to and a row that
\* does are right.
HandlersTold ==
    \A e \in Events, l \in Leases : /\ run[e][l].result = "ok" => Done(e)
                                    /\ run[e][l].pc = "create" => e \in Checks
MarksTold == \A w \in Workers : worker[w].pc = "mark" => Done(worker[w].event)
RowsTold == \A e \in Events : row[e].status = "delivered" => Done(e)

DoneInv == HandlersTold /\ MarksTold /\ RowsTold

\* A pending row that nobody is at work on within its lease has paid for all
\* its claims.
Sheltered(e) == ~row[e].due /\ \E w \in Workers : Owns(w, e)

PaidInv ==
    /\ TriesBounded
    /\ \A e \in Events : row[e].status = "pending" /\ ~Sheltered(e) =>
           row[e].claims <= row[e].attempts + faults

IInv == /\ TypeOK
        /\ WorkersInv
        /\ LeasesInv
        /\ RowsInv
        /\ OwnersInv
        /\ FoundInv
        /\ DoneInv
        /\ PaidInv

------------------------------------------------------------------------------
\* The numbers of a row are numbers.
LEMMA RowNumbers ==
    ASSUME TypeOK, NEW e \in Events
    PROVE  /\ row[e].claims \in Nat /\ row[e].attempts \in Nat /\ faults \in Nat
           /\ row[e].attempts <= MaxAttempts
           /\ row[e].lock \in Nat /\ row[e].due \in BOOLEAN
  BY OutboxAssumption DEF TypeOK, Row, Leases, NoLease

LEMMA WorkerNumbers ==
    ASSUME TypeOK, NEW w \in Workers
    PROVE  /\ worker[w].attempts \in Nat /\ worker[w].attempts <= MaxAttempts
           /\ worker[w].seen \in Nat /\ worker[w].lease \in Nat
           /\ worker[w].event \in Events \cup {None}
  BY OutboxAssumption DEF TypeOK, Worker, Leases, NoLease

LEMMA InitInvariant == Init => IInv
<1>1. SUFFICES ASSUME Init PROVE IInv
  OBVIOUS
<1>2. TypeOK
  <2>1. NoRow \in Row /\ IdleWorker \in Worker /\ NoRun \in Run
    BY OutboxAssumption DEF Row, Worker, Run, NoRow, IdleWorker, NoRun, NoLease
  <2>2. run \in [Events -> [Leases -> Run]]
    BY <1>1, <2>1 DEF Init
  <2>3. row \in [Events -> Row] /\ worker \in [Workers -> Worker]
    BY <1>1, <2>1 DEF Init
  <2>4. mails \in [Mails -> Nat] /\ faults \in 0..MaxFaults
    BY <1>1, OutboxAssumption DEF Init
  <2>5. certificate \in BOOLEAN
    BY <1>1 DEF Init
  <2>6. QED
    BY <2>2, <2>3, <2>4, <2>5 DEF TypeOK
<1>3. WorkersInv /\ LeasesInv /\ RowsInv /\ OwnersInv /\ FoundInv
  BY <1>1 DEF Init, WorkersInv, LeasesInv, RowsInv, OwnersInv, FoundInv, Owns, Ended, NoRow,
     IdleWorker, NoLease
<1>4. DoneInv /\ PaidInv
  BY <1>1, OutboxAssumption DEF Init, DoneInv, HandlersTold, MarksTold, RowsTold, PaidInv, TriesBounded, NoRow, IdleWorker, NoRun, NoLease
<1> QED
  BY <1>2, <1>3, <1>4 DEF IInv

------------------------------------------------------------------------------
(* Handlers, and whatever else leaves rows and workers alone.               *)

LEMMA HandlerKeeps ==
    ASSUME IInv, UNCHANGED <<row, worker>>, faults' \in {faults, faults + 1}
    PROVE  WorkersInv' /\ LeasesInv' /\ RowsInv' /\ OwnersInv' /\ FoundInv' /\ PaidInv'
<1>1. WorkersInv' /\ LeasesInv' /\ RowsInv' /\ FoundInv'
  BY DEF IInv, WorkersInv, LeasesInv, RowsInv, FoundInv, Ended, Won
<1>2. \A w \in Workers, e \in Events : Owns(w, e)' = Owns(w, e)
  BY DEF Owns, Holds
<1>3. OwnersInv'
  BY <1>2 DEF IInv, OwnersInv
<1>4. \A e \in Events : Sheltered(e)' = Sheltered(e)
  BY <1>2 DEF Sheltered
<1>5. PaidInv'
  BY <1>4, RowNumbers DEF IInv, PaidInv, TriesBounded
<1> QED
  BY <1>1, <1>3, <1>5

\* The type of a handler's end.
LEMMA EndTyped ==
    ASSUME TypeOK, NEW e \in Events, NEW l \in Leases, NEW result \in {"none", "ok", "error", "cutOff"},
           run[e][l].pc # "none", End(e, l, result)
    PROVE  run' \in [Events -> [Leases -> Run]]
<1>1. NoRun \in Run
  BY DEF NoRun, Run
<1>2. [run[e][l] EXCEPT !.pc = "done", !.result = result] \in Run
  <2>1. run[e][l] \in Run
    BY DEF TypeOK
  <2>2. QED
    BY <2>1 DEF Run
<1>3. PICK x \in Run : run' = [run EXCEPT ![e][l] = x]
  BY <1>1, <1>2 DEF End
<1> QED
  BY <1>3 DEF TypeOK

\* A handler that ends reports success only of what is done.
LEMMA EndTold ==
    ASSUME TypeOK, DoneInv, NEW e \in Events, NEW l \in Leases,
           NEW result \in {"none", "ok", "error", "cutOff"}, result = "ok" => Done(e),
           run[e][l].pc # "none", End(e, l, result)
    PROVE  \A f \in Events, k \in Leases : /\ run'[f][k].result = "ok" => Done(f)
                                           /\ run'[f][k].pc = "create" => f \in Checks
<1>1. PICK x : /\ run' = [run EXCEPT ![e][l] = x]
               /\ x.pc # "create" /\ (x.result = "ok" => Done(e))
  <2>1. run[e][l] \in Run
    BY DEF TypeOK
  <2>2. CASE Awaited(e, l)
    <3> WITNESS [run[e][l] EXCEPT !.pc = "done", !.result = result]
    <3> QED
      BY <2>1, <2>2 DEF End, Run
  <2>3. CASE ~Awaited(e, l)
    <3> WITNESS NoRun
    <3> QED
      BY <2>3 DEF End, NoRun
  <2>4. QED
    BY <2>2, <2>3
<1> QED
  BY <1>1 DEF TypeOK, DoneInv, HandlersTold

LEMMA SendKeeps ==
    ASSUME IInv, NEW e \in Events, NEW l \in Leases, Send(e, l)
    PROVE  IInv'
<1>1. WorkersInv' /\ LeasesInv' /\ RowsInv' /\ OwnersInv' /\ FoundInv' /\ PaidInv'
  BY HandlerKeeps DEF Send
<1>2. PICK sent \in BOOLEAN, result \in {"ok", "error", "cutOff"} :
          /\ result = "ok" => sent
          /\ mails' = [mails EXCEPT ![e] = IF sent THEN @ + 1 ELSE @]
          /\ run' = [run EXCEPT ![e][l].pc = "audit", ![e][l].result = result]
  BY DEF Send
<1>3. e \in Mails /\ e \notin Checks /\ certificate' = certificate /\ row' = row /\ worker' = worker
  BY OutboxAssumption DEF Send
<1>4. TypeOK'
  <2>1. run' \in [Events -> [Leases -> Run]]
    <3>1. run[e][l] \in Run
      BY DEF IInv, TypeOK
    <3>2. [run[e][l] EXCEPT !.pc = "audit", !.result = result] \in Run
      BY <3>1 DEF Run
    <3>3. PICK x \in Run : run' = [run EXCEPT ![e][l] = x]
      BY <1>2, <3>2 DEF IInv, TypeOK
    <3>4. QED
      BY <3>3 DEF IInv, TypeOK
  <2>2. mails' \in [Mails -> Nat]
    BY <1>2, <1>3 DEF IInv, TypeOK
  <2>3. QED
    BY <2>1, <2>2 DEF IInv, TypeOK, Send
<1>5. \A f \in Mails : mails[f] > 0 => mails'[f] > 0
  BY <1>2, <1>3 DEF IInv, TypeOK
<1>6. result = "ok" => Done(e)'
  BY <1>2, <1>3 DEF IInv, TypeOK, Done
<1>7. DoneInv'
  <2>1. HandlersTold'
    BY <1>2, <1>3, <1>5, <1>6 DEF IInv, DoneInv, HandlersTold, TypeOK, Run, Done
  <2>2. MarksTold'
    BY <1>3, <1>5 DEF IInv, DoneInv, MarksTold, WorkersInv, Done
  <2>3. RowsTold'
    BY <1>3, <1>5 DEF IInv, DoneInv, RowsTold, Done
  <2>4. QED
    BY <2>1, <2>2, <2>3 DEF DoneInv
<1> QED
  BY <1>1, <1>4, <1>7 DEF IInv


\* A handler ends, and nothing else happens but perhaps a fault.
LEMMA EndKeeps ==
    ASSUME IInv, NEW e \in Events, NEW l \in Leases, NEW result \in {"none", "ok", "error", "cutOff"},
           result = "ok" => Done(e), run[e][l].pc # "none", End(e, l, result),
           UNCHANGED <<row, worker, mails, certificate>>,
           UNCHANGED faults \/ Fault
    PROVE  IInv'
<1>1. WorkersInv' /\ LeasesInv' /\ RowsInv' /\ OwnersInv' /\ FoundInv' /\ PaidInv'
  BY HandlerKeeps DEF Fault
<1>2. TypeOK'
  <2>1. run' \in [Events -> [Leases -> Run]]
    BY EndTyped DEF IInv
  <2>2. faults' \in 0..MaxFaults
    BY OutboxAssumption DEF IInv, TypeOK, Fault, MayFault
  <2>3. QED
    BY <2>1, <2>2 DEF IInv, TypeOK
<1>3. HandlersTold'
  <2>1. \A f \in Events, k \in Leases : /\ run'[f][k].result = "ok" => Done(f)
                                        /\ run'[f][k].pc = "create" => f \in Checks
    BY EndTold DEF IInv
  <2>2. mails' = mails /\ certificate' = certificate
    OBVIOUS
  <2>3. QED
    BY <2>1, <2>2 DEF IInv, TypeOK, HandlersTold, Done
<1>4. MarksTold' /\ RowsTold'
  BY DEF IInv, DoneInv, MarksTold, RowsTold, Done
<1> QED
  BY <1>1, <1>2, <1>3, <1>4 DEF IInv, DoneInv

\* A completion check finds no certificate, or issues one.
LEMMA CheckKeeps ==
    ASSUME IInv, NEW e \in Events, NEW l \in Leases, NEW x \in Run,
           run' = [run EXCEPT ![e][l] = x], e \in Checks, x.result = "ok" => certificate',
           certificate => certificate', certificate' \in BOOLEAN,
           UNCHANGED <<row, worker, mails, faults>>
    PROVE  IInv'
<1>1. WorkersInv' /\ LeasesInv' /\ RowsInv' /\ OwnersInv' /\ FoundInv' /\ PaidInv'
  BY HandlerKeeps
<1>2. TypeOK'
  BY DEF IInv, TypeOK
<1>3. HandlersTold'
  BY OutboxAssumption DEF IInv, DoneInv, HandlersTold, TypeOK, Done
<1>4. MarksTold' /\ RowsTold'
  BY DEF IInv, DoneInv, MarksTold, RowsTold, Done
<1> QED
  BY <1>1, <1>2, <1>3, <1>4 DEF IInv, DoneInv

LEMMA LookKeeps ==
    ASSUME IInv, NEW e \in Events, NEW l \in Leases, Look(e, l)
    PROVE  IInv'
<1>1. run[e][l] \in Run
  BY DEF IInv, TypeOK
<1>2. CASE certificate
  BY <1>2, EndKeeps, OutboxAssumption DEF Look, Done
<1>3. CASE ~certificate
  <2>1. [run[e][l] EXCEPT !.pc = "create"] \in Run
    BY <1>1 DEF Run
  <2>2. run' = [run EXCEPT ![e][l] = [run[e][l] EXCEPT !.pc = "create"]]
    BY <1>3 DEF Look, IInv, TypeOK
  <2>3. run[e][l].result # "ok"
    BY <1>3 DEF Look, IInv, DoneInv, HandlersTold, Done
  <2>4. [run[e][l] EXCEPT !.pc = "create"].result # "ok"
    BY <1>1, <2>3 DEF Run
  <2>5. (certificate => certificate') /\ certificate' \in BOOLEAN
    BY <1>3 DEF Look, IInv, TypeOK
  <2>6. QED
    BY <2>1, <2>2, <2>3, <2>4, <2>5, CheckKeeps DEF Look
<1> QED
  BY <1>2, <1>3

LEMMA IssueKeeps ==
    ASSUME IInv, NEW e \in Events, NEW l \in Leases, Issue(e, l)
    PROVE  IInv'
<1>1. run[e][l] \in Run /\ e \in Checks
  BY DEF Issue, IInv, TypeOK, DoneInv, HandlersTold
<1>2. CASE certificate
  <2>1. certificate' = certificate
    BY <1>2 DEF Issue, IInv, TypeOK
  <2>2. QED
    BY <1>2, <2>1, EndKeeps DEF Issue
<1>3. CASE ~certificate
  <2>1. [run[e][l] EXCEPT !.pc = "audit", !.result = "ok"] \in Run
    BY <1>1 DEF Run
  <2>2. run' = [run EXCEPT ![e][l] = [run[e][l] EXCEPT !.pc = "audit", !.result = "ok"]]
    BY <1>3 DEF Issue, IInv, TypeOK
  <2>3. QED
    BY <1>1, <2>1, <2>2, CheckKeeps DEF Issue
<1> QED
  BY <1>2, <1>3

LEMMA AuditKeeps ==
    ASSUME IInv, NEW e \in Events, NEW l \in Leases, Audit(e, l)
    PROVE  IInv'
<1>1. run[e][l].result = "ok" => Done(e)
  BY DEF IInv, DoneInv, HandlersTold
<1>2. run[e][l].result \in {"none", "ok", "error", "cutOff"}
  BY DEF IInv, TypeOK, Run
<1>3. run[e][l].pc # "none" /\ End(e, l, run[e][l].result)
  BY DEF Audit
<1> QED
  BY <1>1, <1>2, <1>3, EndKeeps DEF Audit

LEMMA HandlerFailsKeeps ==
    ASSUME IInv, NEW e \in Events, NEW l \in Leases, HandlerFails(e, l)
    PROVE  IInv'
  BY EndKeeps DEF HandlerFails


------------------------------------------------------------------------------
(* Steps of a worker that leave the rows alone.                             *)

\* Only the worker, its handlers and the faults move.
Moves(w, x) ==
    /\ worker' = [worker EXCEPT ![w] = x]
    /\ UNCHANGED <<row, mails, certificate>>
    /\ run' \in [Events -> [Leases -> Run]]
    /\ \A e \in Events, l \in Leases : run'[e][l] \in {run[e][l], NoRun}

LEMMA MoveTyped ==
    ASSUME IInv, NEW w \in Workers, NEW x \in Worker, Moves(w, x), UNCHANGED faults \/ Fault
    PROVE  TypeOK' /\ HandlersTold' /\ RowsTold' /\ RowsInv'
<1>1. TypeOK'
  <2>1. faults' \in 0..MaxFaults
    BY OutboxAssumption DEF IInv, TypeOK, Fault, MayFault
  <2>2. worker' \in [Workers -> Worker]
    BY DEF Moves, IInv, TypeOK
  <2>3. QED
    BY <2>1, <2>2 DEF Moves, IInv, TypeOK
<1>2. mails' = mails /\ certificate' = certificate /\ row' = row
  BY DEF Moves
<1>3. HandlersTold'
  <2>1. \A e \in Events : Done(e)' = Done(e)
    BY <1>2 DEF IInv, TypeOK, Done
  <2>2. \A e \in Events, l \in Leases : run'[e][l] \in {run[e][l], NoRun}
    BY DEF Moves
  <2>3. NoRun.result # "ok" /\ NoRun.pc # "create"
    BY DEF NoRun
  <2>4. QED
    BY <2>1, <2>2, <2>3 DEF IInv, DoneInv, HandlersTold
<1>4. RowsTold'
  BY <1>2 DEF IInv, DoneInv, RowsTold, TypeOK, Done
<1>5. RowsInv'
  BY <1>2 DEF IInv, RowsInv, Ended
<1> QED
  BY <1>1, <1>3, <1>4, <1>5

\* A worker that owns nothing selects a row or rests; one that owns a row lets
\* go of it by a fault.
LEMMA LetGo ==
    ASSUME IInv, NEW w \in Workers, NEW x \in Worker, Moves(w, x),
           x.pc \in {"idle", "found"}, x.lease = NoLease,
           x.pc = "found" => /\ x.event \in Events /\ row[x.event].due
                             /\ x.seen = row[x.event].claims
                             /\ x.attempts = row[x.event].attempts,
           ((\A e \in Events : ~Owns(w, e)) /\ UNCHANGED faults) \/ Fault
    PROVE  IInv'
<1>1. TypeOK' /\ HandlersTold' /\ RowsTold' /\ RowsInv'
  BY MoveTyped
<1>2. row' = row /\ mails' = mails /\ certificate' = certificate
  BY DEF Moves
<1>3. worker'[w] = x /\ \A v \in Workers \ {w} : worker'[v] = worker[v]
  BY DEF Moves, IInv, TypeOK
<1>4. WorkersInv' /\ LeasesInv'
  BY <1>2, <1>3 DEF IInv, WorkersInv, LeasesInv
<1>5. FoundInv'
  BY <1>2, <1>3, RowNumbers DEF IInv, FoundInv, Won
<1>6. MarksTold'
  BY <1>2, <1>3 DEF IInv, DoneInv, MarksTold, WorkersInv, TypeOK, Done
<1>7. \A v \in Workers, e \in Events : Owns(v, e)' => v # w /\ Owns(v, e)
  BY <1>2, <1>3 DEF Owns, Holds
<1>8. OwnersInv'
  BY <1>2, <1>3, <1>7 DEF IInv, OwnersInv
<1>9. PaidInv'
  <2>1. TriesBounded'
    BY <1>2, RowNumbers DEF IInv, PaidInv, TriesBounded, Fault
  <2>2. ASSUME NEW e \in Events, row[e].status = "pending", ~Sheltered(e)'
        PROVE  row[e].claims <= row[e].attempts + faults'
    <3>1. CASE Sheltered(e)
      <4>1. PICK v \in Workers : Owns(v, e)
        BY <3>1 DEF Sheltered
      <4>2. v = w
        BY <1>2, <1>3, <2>2, <3>1, <4>1 DEF Sheltered, Owns, Holds
      <4>3. Fault
        BY <4>1, <4>2
      <4>4. QED
        BY <4>3, RowNumbers DEF Fault, IInv, PaidInv, TriesBounded
    <3>2. CASE ~Sheltered(e)
      BY <2>2, <3>2, RowNumbers DEF Fault, IInv, PaidInv
    <3>3. QED
      BY <3>1, <3>2
  <2>3. QED
    BY <1>2, <2>1, <2>2 DEF PaidInv
<1> QED
  BY <1>1, <1>4, <1>5, <1>6, <1>8, <1>9 DEF IInv, DoneInv

\* A worker goes on under its lease.
LEMMA GoOn ==
    ASSUME IInv, NEW w \in Workers, NEW x \in Worker, Moves(w, x),
           worker[w].pc \in {"delivering", "mark"},
           x.event = worker[w].event, x.lease = worker[w].lease,
           \/ x.pc = "mark" /\ x.attempts = worker[w].attempts /\ Done(worker[w].event)
           \/ x.pc = "catch" /\ x.attempts > worker[w].attempts,
           UNCHANGED faults \/ Fault
    PROVE  IInv'
<1>1. TypeOK' /\ HandlersTold' /\ RowsTold' /\ RowsInv'
  BY MoveTyped
<1>2. row' = row /\ mails' = mails /\ certificate' = certificate
  BY DEF Moves
<1>3. worker'[w] = x /\ \A v \in Workers \ {w} : worker'[v] = worker[v]
  BY DEF Moves, IInv, TypeOK
<1>4. WorkersInv' /\ LeasesInv'
  BY <1>2, <1>3 DEF IInv, WorkersInv, LeasesInv
<1>5. FoundInv'
  BY <1>2, <1>3 DEF IInv, FoundInv, Won
<1>6. MarksTold'
  BY <1>2, <1>3 DEF IInv, DoneInv, MarksTold, WorkersInv, TypeOK, Done
<1>7. \A v \in Workers, e \in Events : Owns(v, e)' = Owns(v, e)
  BY <1>2, <1>3 DEF Owns, Holds
<1>8. OwnersInv'
  BY <1>2, <1>3, <1>7, RowNumbers, WorkerNumbers DEF IInv, OwnersInv
<1>9. PaidInv'
  <2>1. \A e \in Events : Sheltered(e)' = Sheltered(e)
    BY <1>2, <1>7 DEF Sheltered
  <2>2. QED
    BY <1>2, <2>1, RowNumbers DEF IInv, PaidInv, TriesBounded, Fault
<1> QED
  BY <1>1, <1>4, <1>5, <1>6, <1>8, <1>9 DEF IInv, DoneInv


LEMMA FindDueKeeps ==
    ASSUME IInv, NEW w \in Workers, NEW e \in Events, FindDue(w, e)
    PROVE  IInv'
<1> DEFINE x == [IdleWorker EXCEPT !.pc = "found", !.event = e, !.seen = row[e].claims,
                                   !.attempts = row[e].attempts]
<1>1. row[e] \in Row
  BY DEF IInv, TypeOK
<1>2. /\ x \in Worker /\ x.pc = "found" /\ x.event = e /\ x.lease = NoLease
      /\ x.seen = row[e].claims /\ x.attempts = row[e].attempts
  BY <1>1 DEF Worker, Row, IdleWorker
<1>3. Moves(w, x)
  BY DEF FindDue, Moves, IInv, TypeOK
<1>4. (\A f \in Events : ~Owns(w, f)) /\ row[e].due
  BY DEF FindDue, IInv, WorkersInv, Owns
<1> HIDE DEF x
<1> QED
  BY <1>2, <1>3, <1>4, LetGo DEF FindDue

LEMMA RestKeeps ==
    ASSUME IInv, NEW w \in Workers, Moves(w, IdleWorker),
           ((\A e \in Events : ~Owns(w, e)) /\ UNCHANGED faults) \/ Fault
    PROVE  IInv'
<1>1. /\ IdleWorker \in Worker /\ IdleWorker.pc = "idle" /\ IdleWorker.lease = NoLease
  BY OutboxAssumption DEF Worker, IdleWorker, NoLease
<1> QED
  BY <1>1, LetGo

LEMMA ClaimLostKeeps ==
    ASSUME IInv, NEW w \in Workers, ClaimLost(w)
    PROVE  IInv'
<1>1. Moves(w, IdleWorker)
  BY DEF ClaimLost, Rest, Moves, IInv, TypeOK
<1>2. \A e \in Events : ~Owns(w, e)
  BY DEF ClaimLost, IInv, WorkersInv, Owns
<1> QED
  BY <1>1, <1>2, RestKeeps DEF ClaimLost

LEMMA SettleFailsKeeps ==
    ASSUME IInv, NEW w \in Workers, SettleFails(w)
    PROVE  IInv'
<1>1. Moves(w, IdleWorker)
  BY DEF SettleFails, Rest, Moves, IInv, TypeOK
<1> QED
  BY <1>1, RestKeeps DEF SettleFails

LEMMA CrashKeeps ==
    ASSUME IInv, NEW w \in Workers, Crash(w)
    PROVE  IInv'
<1>1. NoRun \in Run
  BY DEF NoRun, Run
<1>2. Moves(w, IdleWorker)
  BY <1>1 DEF Crash, Rest, Moves, IInv, TypeOK
<1> QED
  BY <1>2, RestKeeps DEF Crash

\* What the failure path will write is more than the worker has counted.
LEMMA CatchKeeps ==
    ASSUME IInv, NEW w \in Workers, NEW result, worker[w].pc \in {"delivering", "mark"},
           Catch(w, result), UNCHANGED <<row, mails, certificate>>,
           UNCHANGED run \/ Forget(w), UNCHANGED faults \/ Fault
    PROVE  IInv'
<1> DEFINE n == NextAttempts(worker[w].event, worker[w].attempts, result)
<1> DEFINE x == [worker[w] EXCEPT !.pc = "catch", !.attempts = n]
<1>1. worker[w] \in Worker /\ worker[w].attempts < MaxAttempts
  BY DEF IInv, TypeOK, WorkersInv
<1>2. n \in 0..MaxAttempts /\ n > worker[w].attempts
  BY <1>1, WorkerNumbers, OutboxAssumption DEF NextAttempts, IInv
<1> HIDE DEF n
<1>3. /\ x \in Worker /\ x.pc = "catch" /\ x.attempts = n
      /\ x.event = worker[w].event /\ x.lease = worker[w].lease
  BY <1>1, <1>2 DEF Worker
<1>4. worker' = [worker EXCEPT ![w] = x]
  BY DEF Catch, n, IInv, TypeOK
<1> HIDE DEF x
<1>5. NoRun \in Run
  BY DEF NoRun, Run
<1>6. /\ run' \in [Events -> [Leases -> Run]]
      /\ \A e \in Events, l \in Leases : run'[e][l] \in {run[e][l], NoRun}
  <2>1. CASE UNCHANGED run
    BY <2>1 DEF IInv, TypeOK
  <2>2. CASE Forget(w)
    <3>1. PICK f, k : run' = [run EXCEPT ![f][k] = NoRun]
      BY <2>2 DEF Forget
    <3>2. QED
      BY <1>5, <3>1 DEF IInv, TypeOK
  <2>3. QED
    BY <2>1, <2>2
<1>7. Moves(w, x)
  BY <1>4, <1>6 DEF Moves
<1> QED
  BY <1>2, <1>3, <1>7, GoOn

LEMMA ReturnedKeeps ==
    ASSUME IInv, NEW w \in Workers, Returned(w)
    PROVE  IInv'
<1> DEFINE x == [worker[w] EXCEPT !.pc = "mark"]
<1>1. worker[w] \in Worker /\ worker[w].event \in Events /\ worker[w].lease # NoLease
  BY DEF Returned, IInv, TypeOK, WorkersInv
<1>2. worker[w].lease \in Leases
  BY <1>1 DEF Worker
<1>3. Done(worker[w].event)
  BY <1>1, <1>2 DEF Returned, RunOf, Answered, IInv, DoneInv, HandlersTold
<1>4. /\ x \in Worker /\ x.pc = "mark" /\ x.attempts = worker[w].attempts
      /\ x.event = worker[w].event /\ x.lease = worker[w].lease
  BY <1>1 DEF Worker
<1>5. NoRun \in Run
  BY DEF NoRun, Run
<1>6. Moves(w, x)
  BY <1>5 DEF Returned, Forget, Moves, IInv, TypeOK
<1> HIDE DEF x
<1> QED
  BY <1>3, <1>4, <1>6, GoOn DEF Returned

------------------------------------------------------------------------------
(* Writes to rows.                                                          *)

LEMMA EnqueueKeeps ==
    ASSUME IInv, NEW e \in Events, Enqueue(e)
    PROVE  IInv'
<1>1. row[e] = NoRow /\ row[e] \in Row
  BY DEF Enqueue, IInv, RowsInv, TypeOK
<1>2. /\ row'[e] = [NoRow EXCEPT !.status = "pending", !.due = TRUE]
      /\ \A f \in Events \ {e} : row'[f] = row[f]
  BY <1>1 DEF Enqueue, IInv, TypeOK
<1>3. /\ row'[e].status = "pending" /\ row'[e].due /\ row'[e].attempts = 0
      /\ row'[e].claims = NoLease /\ row'[e].lock = NoLease /\ row[e].attempts = 0
      /\ row[e].claims = NoLease /\ row[e].lock = NoLease
  BY <1>1, <1>2 DEF NoRow
<1>4. worker' = worker /\ mails' = mails /\ certificate' = certificate /\ run' = run /\ faults' = faults
  BY DEF Enqueue
<1>5. TypeOK'
  <2>1. row' \in [Events -> Row]
    BY <1>1 DEF Enqueue, IInv, TypeOK, Row
  <2>2. QED
    BY <1>4, <2>1 DEF IInv, TypeOK
<1>6. \A f \in Events : /\ row'[f].claims = row[f].claims /\ row'[f].attempts = row[f].attempts
                        /\ row'[f].lock = row[f].lock
                        /\ f # e => row'[f].status = row[f].status /\ row'[f].due = row[f].due
  BY <1>2, <1>3
<1>7. \A w \in Workers, f \in Events : Owns(w, f)' = Owns(w, f)
  BY <1>4, <1>6 DEF Owns, Holds
<1>8. WorkersInv' /\ LeasesInv' /\ OwnersInv'
  <2>1. WorkersInv'
    BY <1>4, <1>6 DEF IInv, WorkersInv
  <2>2. LeasesInv'
    BY <1>4 DEF IInv, LeasesInv
  <2>3. OwnersInv'
    BY <1>4, <1>6, <1>7 DEF IInv, OwnersInv
  <2>4. QED
    BY <2>1, <2>2, <2>3
<1>9. RowsInv' /\ FoundInv'
  <2>1. RowsInv'
    <3>1. ASSUME NEW f \in Events \ {e}
          PROVE  /\ row'[f].status = "absent" => row'[f] = NoRow
                 /\ row'[f].status = "pending" => row'[f].attempts < MaxAttempts
                 /\ Ended(f)' => row'[f].lock = NoLease
      BY <1>2 DEF IInv, RowsInv, Ended
    <3>2. row'[e].attempts < MaxAttempts
      BY <1>3, OutboxAssumption
    <3>3. QED
      BY <1>3, <3>1, <3>2 DEF RowsInv, Ended
  <2>2. FoundInv'
    BY <1>3, <1>4, <1>6 DEF IInv, FoundInv, Won, WorkersInv
  <2>3. QED
    BY <2>1, <2>2
<1>10. DoneInv'
  BY <1>2, <1>3, <1>4 DEF IInv, DoneInv, HandlersTold, MarksTold, RowsTold, TypeOK, Done
<1>11. PaidInv'
  <2>1. TriesBounded'
    BY <1>4, <1>6 DEF IInv, PaidInv, TriesBounded
  <2>2. \A f \in Events \ {e} : Sheltered(f)' = Sheltered(f)
    BY <1>6, <1>7 DEF Sheltered
  <2>3. row'[e].claims <= row'[e].attempts + faults'
    BY <1>3, <1>4, OutboxAssumption DEF IInv, TypeOK, NoLease
  <2>4. QED
    BY <1>4, <1>6, <2>1, <2>2, <2>3 DEF IInv, PaidInv
<1> QED
  BY <1>5, <1>8, <1>9, <1>10, <1>11 DEF IInv


\* The next lease is above every lease of the row.
LEMMA ClaimKeeps ==
    ASSUME IInv, NEW w \in Workers, Claim(w)
    PROVE  IInv'
<1>1. PICK e \in Events, l \in Leases :
          /\ e = worker[w].event /\ l = row[e].claims + 1
          /\ worker[w].pc = "found" /\ worker[w].lease = NoLease
          /\ row[e].status = "pending" /\ row[e].claims = worker[w].seen
          /\ row[e].attempts = worker[w].attempts /\ row[e].due
  BY DEF Claim, Won, IInv, WorkersInv, FoundInv
<1>2. /\ row' = [row EXCEPT ![e].claims = l, ![e].lock = l, ![e].due = FALSE]
      /\ worker' = [worker EXCEPT ![w].pc = "delivering", ![w].lease = l]
      /\ run' = [run EXCEPT ![e][l] = [pc |-> "work", by |-> w, result |-> "none"]]
      /\ mails' = mails /\ certificate' = certificate /\ faults' = faults
  BY <1>1 DEF Claim
<1>3. row[e] \in Row /\ worker[w] \in Worker
  BY <1>1 DEF IInv, TypeOK
<1>4. /\ row'[e].status = "pending" /\ ~row'[e].due /\ row'[e].attempts = row[e].attempts
      /\ row'[e].claims = l /\ row'[e].lock = l
      /\ \A f \in Events \ {e} : row'[f] = row[f]
  BY <1>1, <1>2, <1>3 DEF IInv, TypeOK, Row
<1>5. /\ worker'[w].pc = "delivering" /\ worker'[w].event = e /\ worker'[w].lease = l
      /\ worker'[w].attempts = row[e].attempts
      /\ \A v \in Workers \ {w} : worker'[v] = worker[v]
  BY <1>1, <1>2, <1>3 DEF IInv, TypeOK, Worker
<1>6. l \in Nat /\ l = row[e].claims + 1 /\ l # NoLease /\ row[e].attempts < MaxAttempts
  BY <1>1, RowNumbers DEF NoLease, IInv, RowsInv
<1>7. TypeOK'
  <2>1. row' \in [Events -> Row]
    BY <1>1, <1>2, <1>3 DEF IInv, TypeOK, Row
  <2>2. worker' \in [Workers -> Worker]
    BY <1>1, <1>2, <1>3 DEF IInv, TypeOK, Worker
  <2>3. run' \in [Events -> [Leases -> Run]]
    BY <1>1, <1>2 DEF IInv, TypeOK, Run
  <2>4. QED
    BY <1>2, <2>1, <2>2, <2>3 DEF IInv, TypeOK
<1>8. \A v \in Workers \ {w} : worker[v].event = e /\ worker[v].lease # NoLease =>
          worker[v].lease < l
  BY <1>1, <1>6, RowNumbers, WorkerNumbers DEF IInv, WorkersInv, TypeOK, Worker
<1>9. WorkersInv'
  BY <1>4, <1>5, <1>6, RowNumbers, WorkerNumbers DEF IInv, WorkersInv
<1>10. LeasesInv'
  BY <1>4, <1>5, <1>6, <1>8, WorkerNumbers DEF IInv, LeasesInv
<1>11. RowsInv'
  BY <1>4, <1>6 DEF IInv, RowsInv, Ended
<1>12. Owns(w, e)' /\ \A v \in Workers, f \in Events : Owns(v, f)' =>
           \/ v = w /\ f = e
           \/ v # w /\ f # e /\ Owns(v, f)
  BY <1>1, <1>4, <1>5, <1>6, <1>8, WorkerNumbers DEF IInv, Owns, Holds
<1>13. OwnersInv'
  BY <1>4, <1>5, <1>12 DEF IInv, OwnersInv
<1>14. FoundInv'
  BY <1>1, <1>4, <1>5, <1>6, RowNumbers, WorkerNumbers DEF IInv, FoundInv, WorkersInv, Won
<1>15. DoneInv'
  <2>1. HandlersTold'
    BY <1>1, <1>2 DEF IInv, DoneInv, HandlersTold, TypeOK, Done
  <2>2. MarksTold'
    BY <1>2, <1>5 DEF IInv, DoneInv, MarksTold, TypeOK, Done
  <2>3. RowsTold'
    BY <1>2, <1>4 DEF IInv, DoneInv, RowsTold, TypeOK, Done
  <2>4. QED
    BY <2>1, <2>2, <2>3 DEF DoneInv
<1>16. PaidInv'
  <2>1. row[e].claims <= row[e].attempts + faults
    BY <1>1 DEF IInv, PaidInv, Sheltered
  <2>2. TriesBounded'
    <3>1. row'[e].claims <= row'[e].attempts + faults' + 1
      BY <1>2, <1>4, <1>6, <2>1, RowNumbers DEF IInv
    <3>2. QED
      BY <1>2, <1>4, <3>1 DEF IInv, PaidInv, TriesBounded
  <2>3. Sheltered(e)'
    BY <1>4, <1>12 DEF Sheltered
  <2>4. \A f \in Events \ {e} : Sheltered(f) => Sheltered(f)'
    BY <1>1, <1>4, <1>5 DEF Sheltered, Owns, Holds
  <2>5. QED
    BY <1>2, <1>4, <2>2, <2>3, <2>4 DEF IInv, PaidInv
<1> QED
  BY <1>7, <1>9, <1>10, <1>11, <1>13, <1>14, <1>15, <1>16 DEF IInv


\* A worker settles a row it still owns: the lease and the ownership go.
LEMMA Settles ==
    ASSUME IInv, NEW w \in Workers, NEW e \in Events, Owns(w, e), NEW x \in Row,
           row' = [row EXCEPT ![e] = x], Rest(w),
           UNCHANGED <<run, mails, certificate, faults>>,
           x.lock = NoLease, x.claims = row[e].claims, x.attempts >= row[e].attempts,
           \/ x.status = "delivered" /\ Done(e)
           \/ x.status = "failed"
           \/ x.status = "pending" /\ row[e].attempts < x.attempts /\ x.attempts < MaxAttempts
    PROVE  IInv'
<1>1. /\ IdleWorker \in Worker /\ IdleWorker.pc = "idle" /\ IdleWorker.lease = NoLease
  BY OutboxAssumption DEF Worker, IdleWorker, NoLease
<1>2. /\ row'[e] = x /\ \A f \in Events \ {e} : row'[f] = row[f]
      /\ worker'[w] = IdleWorker /\ \A v \in Workers \ {w} : worker'[v] = worker[v]
      /\ mails' = mails /\ certificate' = certificate /\ faults' = faults /\ run' = run
  BY DEF Rest, IInv, TypeOK
<1>3. TypeOK'
  BY <1>1 DEF Rest, IInv, TypeOK
<1>4. x.claims \in Nat /\ x.attempts \in Nat /\ x.attempts <= MaxAttempts
  BY OutboxAssumption, RowNumbers DEF Row, IInv
<1>5. \A v \in Workers, f \in Events : Owns(v, f)' => v # w /\ f # e /\ Owns(v, f)
  BY <1>1, <1>2 DEF Owns, Holds
<1>6. WorkersInv' /\ LeasesInv'
  <2>1. WorkersInv'
    BY <1>1, <1>2 DEF IInv, WorkersInv
  <2>2. LeasesInv'
    BY <1>1, <1>2 DEF IInv, LeasesInv
  <2>3. QED
    BY <2>1, <2>2
<1>7. RowsInv'
  BY <1>2 DEF IInv, RowsInv, Ended
<1>8. OwnersInv'
  BY <1>2, <1>5 DEF IInv, OwnersInv
<1>9. FoundInv'
  <2>1. ASSUME NEW v \in Workers, worker'[v].pc = "found"
        PROVE  /\ worker'[v].seen <= row'[worker'[v].event].claims
               /\ worker'[v].attempts <= row'[worker'[v].event].attempts
               /\ Won(v)' => row'[worker'[v].event].due
    <3>1. v # w /\ worker'[v] = worker[v] /\ worker[v].event \in Events
      BY <1>1, <1>2, <2>1 DEF IInv, WorkersInv
    <3>2. CASE worker[v].event = e
      BY <1>2, <1>4, <2>1, <3>1, <3>2, RowNumbers, WorkerNumbers DEF IInv, FoundInv, Won
    <3>3. CASE worker[v].event # e
      BY <1>2, <2>1, <3>1, <3>3 DEF IInv, FoundInv, Won
    <3>4. QED
      BY <3>2, <3>3
  <2>2. QED
    BY <2>1 DEF FoundInv
<1>10. DoneInv'
  <2>1. HandlersTold'
    BY <1>2 DEF IInv, DoneInv, HandlersTold, TypeOK, Done
  <2>2. MarksTold'
    BY <1>1, <1>2 DEF IInv, DoneInv, MarksTold, TypeOK, Done
  <2>3. RowsTold'
    BY <1>2 DEF IInv, DoneInv, RowsTold, TypeOK, Done
  <2>4. QED
    BY <2>1, <2>2, <2>3 DEF DoneInv
<1>11. PaidInv'
  <2>1. row[e].claims <= row[e].attempts + faults + 1
    BY DEF IInv, PaidInv, TriesBounded
  <2>2. x.claims <= x.attempts + faults + 1
    BY <1>4, <2>1, RowNumbers DEF IInv
  <2>3. x.status = "pending" => x.claims <= x.attempts + faults
    BY <1>4, <2>1, RowNumbers DEF IInv
  <2>4. TriesBounded'
    BY <1>2, <2>2 DEF IInv, PaidInv, TriesBounded
  <2>5. \A f \in Events \ {e} : Sheltered(f) => Sheltered(f)'
    <3>1. ASSUME NEW f \in Events \ {e}, Sheltered(f)
          PROVE  Sheltered(f)'
      <4>1. PICK v \in Workers : Owns(v, f)
        BY <3>1 DEF Sheltered
      <4>2. v # w
        BY <3>1, <4>1 DEF Owns
      <4>3. worker'[v] = worker[v] /\ row'[f] = row[f]
        BY <1>2, <4>2
      <4>4. QED
        BY <3>1, <4>1, <4>3 DEF Sheltered, Owns, Holds
    <3>2. QED
      BY <3>1
  <2>6. QED
    BY <1>2, <2>3, <2>4, <2>5 DEF IInv, PaidInv
<1> QED
  BY <1>3, <1>6, <1>7, <1>8, <1>9, <1>10, <1>11 DEF IInv

LEMMA MarkDeliveredKeeps ==
    ASSUME IInv, NEW w \in Workers, MarkDelivered(w)
    PROVE  IInv'
<1>1. PICK e \in Events : e = worker[w].event
  BY DEF MarkDelivered, IInv, WorkersInv
<1>2. worker[w].lease # NoLease /\ Done(e) /\ row[e] \in Row
  BY <1>1 DEF MarkDelivered, IInv, WorkersInv, DoneInv, MarksTold, TypeOK
<1>3. CASE Holds(w, e)
  <2> DEFINE x == [row[e] EXCEPT !.status = "delivered", !.lock = NoLease]
  <2>1. row' = [row EXCEPT ![e] = x]
    BY <1>1, <1>3 DEF MarkDelivered, Released, IInv, TypeOK
  <2>2. /\ x \in Row /\ x.lock = NoLease /\ x.claims = row[e].claims
        /\ x.attempts = row[e].attempts /\ x.status = "delivered"
    BY <1>2 DEF Row
  <2> HIDE DEF x
  <2>3. x.attempts >= row[e].attempts
    BY <2>2, RowNumbers DEF IInv
  <2>4. Owns(w, e)
    BY <1>1, <1>2, <1>3 DEF Owns
  <2>5. QED
    BY <1>2, <2>1, <2>2, <2>3, <2>4, Settles DEF MarkDelivered
<1>4. CASE ~Holds(w, e)
  <2>1. \A f \in Events : ~Owns(w, f)
    BY <1>1, <1>4 DEF Owns
  <2>2. Moves(w, IdleWorker)
    BY <1>1, <1>4 DEF MarkDelivered, Rest, Moves, IInv, TypeOK
  <2>3. QED
    BY <2>1, <2>2, RestKeeps DEF MarkDelivered
<1> QED
  BY <1>3, <1>4

LEMMA MarkRetryOrFailedKeeps ==
    ASSUME IInv, NEW w \in Workers, MarkRetryOrFailed(w)
    PROVE  IInv'
<1>1. PICK e \in Events, n \in 0..MaxAttempts : e = worker[w].event /\ n = worker[w].attempts
  BY DEF MarkRetryOrFailed, IInv, WorkersInv, TypeOK, Worker
<1>2. worker[w].lease # NoLease /\ row[e] \in Row
  BY <1>1 DEF MarkRetryOrFailed, IInv, WorkersInv, TypeOK
<1>3. CASE Holds(w, e)
  <2> DEFINE x == [row[e] EXCEPT !.attempts = n, !.lock = NoLease, !.due = ~WillRetry(n),
                                 !.status = IF WillRetry(n) THEN "pending" ELSE "failed"]
  <2>1. row' = [row EXCEPT ![e] = x]
    BY <1>1, <1>3 DEF MarkRetryOrFailed, Released, IInv, TypeOK
  <2>2. /\ x \in Row /\ x.lock = NoLease /\ x.claims = row[e].claims /\ x.attempts = n
        /\ x.status = IF n < MaxAttempts THEN "pending" ELSE "failed"
    BY <1>1, <1>2 DEF Row, WillRetry
  <2> HIDE DEF x
  <2>3. Owns(w, e)
    BY <1>1, <1>2, <1>3 DEF Owns
  <2>4. row[e].attempts < x.attempts
    BY <1>1, <2>2, <2>3 DEF MarkRetryOrFailed, IInv, OwnersInv
  <2>5. x.attempts >= row[e].attempts
    BY <1>1, <2>2, <2>4, RowNumbers DEF IInv
  <2>6. QED
    BY <2>1, <2>2, <2>3, <2>4, <2>5, Settles DEF MarkRetryOrFailed
<1>4. CASE ~Holds(w, e)
  <2>1. \A f \in Events : ~Owns(w, f)
    BY <1>1, <1>4 DEF Owns
  <2>2. Moves(w, IdleWorker)
    BY <1>1, <1>4 DEF MarkRetryOrFailed, Rest, Moves, IInv, TypeOK
  <2>3. QED
    BY <2>1, <2>2, RestKeeps DEF MarkRetryOrFailed
<1> QED
  BY <1>3, <1>4

LEMMA MarkFailsKeeps ==
    ASSUME IInv, NEW w \in Workers, MarkFails(w)
    PROVE  IInv'
  BY CatchKeeps DEF MarkFails

LEMMA ThrewKeeps ==
    ASSUME IInv, NEW w \in Workers, Threw(w)
    PROVE  IInv'
  BY CatchKeeps DEF Threw

LEMMA DeadlineKeeps ==
    ASSUME IInv, NEW w \in Workers, Deadline(w)
    PROVE  IInv'
  BY CatchKeeps DEF Deadline

\* A row comes due because it was given back, or at the price of a fault.
LEMMA BecomesDueKeeps ==
    ASSUME IInv, NEW e \in Events, BecomesDue(e)
    PROVE  IInv'
<1>1. row[e] \in Row /\ row[e].status = "pending"
  BY DEF BecomesDue, IInv, TypeOK
<1>2. /\ row' = [row EXCEPT ![e].due = TRUE]
      /\ worker' = worker /\ mails' = mails /\ certificate' = certificate /\ run' = run
      /\ UNCHANGED faults \/ Fault
  BY DEF BecomesDue
<1>3. /\ \A f \in Events : /\ row'[f].status = row[f].status /\ row'[f].claims = row[f].claims
                           /\ row'[f].attempts = row[f].attempts /\ row'[f].lock = row[f].lock
                           /\ row[f].due => row'[f].due
      /\ \A f \in Events \ {e} : row'[f] = row[f]
  BY <1>1, <1>2 DEF IInv, TypeOK, Row
<1>4. TypeOK'
  <2>1. row' \in [Events -> Row]
    BY <1>1, <1>2 DEF IInv, TypeOK, Row
  <2>2. faults' \in 0..MaxFaults
    BY <1>2, OutboxAssumption DEF IInv, TypeOK, Fault, MayFault
  <2>3. QED
    BY <1>2, <2>1, <2>2 DEF IInv, TypeOK
<1>5. \A w \in Workers, f \in Events : Owns(w, f)' = Owns(w, f)
  BY <1>2, <1>3 DEF Owns, Holds
<1>6. WorkersInv' /\ LeasesInv' /\ OwnersInv'
  <2>1. WorkersInv'
    BY <1>2, <1>3 DEF IInv, WorkersInv
  <2>2. LeasesInv'
    BY <1>2 DEF IInv, LeasesInv
  <2>3. OwnersInv'
    BY <1>2, <1>3, <1>5 DEF IInv, OwnersInv
  <2>4. QED
    BY <2>1, <2>2, <2>3
<1>7. RowsInv'
  BY <1>1, <1>3 DEF IInv, RowsInv, Ended
<1>8. FoundInv'
  BY <1>2, <1>3 DEF IInv, FoundInv, Won, WorkersInv
<1>9. DoneInv'
  BY <1>2, <1>3 DEF IInv, DoneInv, HandlersTold, MarksTold, RowsTold, TypeOK, Done
<1>10. PaidInv'
  <2>1. TriesBounded'
    BY <1>2, <1>3, RowNumbers DEF IInv, PaidInv, TriesBounded, Fault
  <2>2. \A f \in Events \ {e} : Sheltered(f)' = Sheltered(f)
    BY <1>3, <1>5 DEF Sheltered
  <2>3. row[e].claims <= row[e].attempts + faults'
    <3>1. CASE \E w \in Workers : Owns(w, e)
      <4>1. Fault
        BY <3>1 DEF BecomesDue, Owns
      <4>2. QED
        BY <4>1, RowNumbers DEF Fault, IInv, PaidInv, TriesBounded
    <3>2. CASE ~\E w \in Workers : Owns(w, e)
      <4>1. row[e].claims <= row[e].attempts + faults
        BY <1>1, <3>2 DEF IInv, PaidInv, Sheltered
      <4>2. QED
        BY <1>2, <4>1, RowNumbers DEF Fault, IInv
    <3>3. QED
      BY <3>1, <3>2
  <2>4. ASSUME NEW f \in Events, row'[f].status = "pending", ~Sheltered(f)'
        PROVE  row'[f].claims <= row'[f].attempts + faults'
    <3>1. CASE f = e
      BY <1>3, <2>3, <3>1
    <3>2. CASE f # e
      <4>1. row[f].claims <= row[f].attempts + faults
        BY <1>3, <2>2, <2>4, <3>2 DEF IInv, PaidInv
      <4>2. QED
        BY <1>2, <1>3, <4>1, RowNumbers DEF Fault, IInv
    <3>3. QED
      BY <3>1, <3>2
  <2>5. QED
    BY <2>1, <2>4 DEF PaidInv
<1> QED
  BY <1>4, <1>6, <1>7, <1>8, <1>9, <1>10 DEF IInv

------------------------------------------------------------------------------
(* The theorems.                                                            *)

LEMMA StutterKeeps ==
    ASSUME IInv, UNCHANGED vars
    PROVE  IInv'
<1>1. /\ row' = row /\ worker' = worker /\ run' = run /\ mails' = mails
      /\ certificate' = certificate /\ faults' = faults
  BY DEF vars
<1>2. WorkersInv' /\ LeasesInv' /\ RowsInv' /\ OwnersInv' /\ FoundInv' /\ PaidInv'
  BY <1>1, HandlerKeeps
<1>3. TypeOK'
  BY <1>1 DEF IInv, TypeOK
<1>4. DoneInv'
  BY <1>1 DEF IInv, DoneInv, HandlersTold, MarksTold, RowsTold, TypeOK, Done
<1> QED
  BY <1>2, <1>3, <1>4 DEF IInv

LEMMA StepInvariant == IInv /\ [Next]_vars => IInv'
<1> SUFFICES ASSUME IInv, [Next]_vars PROVE IInv'
  OBVIOUS
<1>1. ASSUME NEW e \in Events, Enqueue(e) \/ BecomesDue(e)
      PROVE  IInv'
  BY <1>1, EnqueueKeeps, BecomesDueKeeps
<1>2. ASSUME NEW w \in Workers, WorkerStep(w)
      PROVE  IInv'
  BY <1>2, FindDueKeeps, ClaimKeeps, ClaimLostKeeps, ReturnedKeeps, ThrewKeeps, DeadlineKeeps,
     MarkDeliveredKeeps, MarkRetryOrFailedKeeps
  DEF WorkerStep
<1>3. ASSUME NEW e \in Events, NEW l \in Leases, HandlerStep(e, l)
      PROVE  IInv'
  BY <1>3, SendKeeps, LookKeeps, IssueKeeps, AuditKeeps DEF HandlerStep
<1>4. CASE FaultStep
  BY <1>4, MarkFailsKeeps, SettleFailsKeeps, CrashKeeps, HandlerFailsKeeps DEF FaultStep
<1>5. CASE UNCHANGED vars
  BY <1>5, StutterKeeps
<1> QED
  BY <1>1, <1>2, <1>3, <1>4, <1>5 DEF Next

\* The invariant holds in every reachable state.
THEOREM Invariant == Spec => []IInv
  BY InitInvariant, StepInvariant, PTL DEF Spec

\* Every variable stays in its type: attempts never pass maxAttempts, whichever
\* way the failure path counts them.
THEOREM TypeCorrect == Spec => []TypeOK
<1>1. IInv => TypeOK
  BY DEF IInv
<1> QED
  BY <1>1, Invariant, PTL

\* A row says delivered only of a mail that went out or a certificate that
\* exists, however many handlers were abandoned at their deadline.
THEOREM DeliveredMeansDone == Spec => []DeliveredIsDone
<1>1. IInv => DeliveredIsDone
  BY DEF IInv, DoneInv, RowsTold, Done, DeliveredIsDone, Events
<1> QED
  BY <1>1, Invariant, PTL

\* A row is claimed at most once per attempt it has used, once per fault, and
\* once more.
THEOREM TriesAreBounded == Spec => []TriesBounded
<1>1. IInv => TriesBounded
  BY DEF IInv, PaidInv
<1> QED
  BY <1>1, Invariant, PTL

\* A row that was delivered or failed is never written again: a late worker
\* finds the lease gone.
THEOREM EndedIsFinal == Spec => EndedStaysEnded
<1>1. ASSUME IInv, [Next]_vars, NEW e \in Events, Ended(e)
      PROVE  row'[e] = row[e]
  <2>1. row[e].lock = NoLease /\ row[e].status \notin {"absent", "pending"}
    BY <1>1 DEF IInv, RowsInv, Ended
  <2>2. ASSUME NEW f \in Events, Enqueue(f) \/ BecomesDue(f)
        PROVE  row'[e] = row[e]
    BY <2>1, <2>2, <1>1 DEF Enqueue, BecomesDue, IInv, TypeOK
  <2>3. ASSUME NEW w \in Workers, WorkerStep(w)
        PROVE  row'[e] = row[e]
    <3>1. CASE Claim(w)
      BY <1>1, <2>1, <3>1 DEF Claim, Won, IInv, TypeOK
    <3>2. CASE MarkDelivered(w)
      BY <1>1, <2>1, <3>2 DEF MarkDelivered, Holds, IInv, TypeOK, WorkersInv
    <3>3. CASE MarkRetryOrFailed(w)
      BY <1>1, <2>1, <3>3 DEF MarkRetryOrFailed, Holds, IInv, TypeOK, WorkersInv
    <3>4. QED
      BY <2>3, <3>1, <3>2, <3>3 DEF WorkerStep, FindDue, ClaimLost, Returned, Threw, Deadline
  <2>4. ASSUME NEW f \in Events, NEW l \in Leases, HandlerStep(f, l)
        PROVE  row'[e] = row[e]
    BY <2>4 DEF HandlerStep, Send, Look, Issue, Audit
  <2>5. CASE FaultStep
    BY <2>5 DEF FaultStep, MarkFails, SettleFails, Crash, HandlerFails
  <2>6. QED
    BY <1>1, <2>2, <2>3, <2>4, <2>5 DEF Next, vars
<1>2. IInv /\ [Next]_vars => [\A e \in Events : Ended(e) => row'[e] = row[e]]_vars
  BY <1>1
<1> QED
  BY <1>2, Invariant, PTL DEF Spec, EndedStaysEnded

------------------------------------------------------------------------------
(* Duplicate mails.  Every claim of a mail's row may send one more, and so  *)
(* may every handler that is still to send, also an abandoned one.  The row *)
(* is safe from another claim when it has ended, and while its owner is     *)
(* bound to end it: a handler that may have sent leaves no retry.           *)

\* The handlers of e that have not sent yet.
Working(e) == {l \in Leases : run[e][l].pc = "work"}

\* Worker w owns e, and unless something fails, or the send is refused, it
\* ends the row.
Sticks(w, e) ==
    /\ Owns(w, e)
    /\ \/ worker[w].pc = "delivering" /\ (RunOf(w).pc = "work" \/ RunOf(w).result \in {"ok", "cutOff"})
       \/ worker[w].pc = "mark"
       \/ worker[w].pc = "catch" /\ ~WillRetry(worker[w].attempts)

Safe(e) ==
    \/ Ended(e)
    \/ row[e].status = "pending" /\ ~row[e].due /\ \E w \in Workers : Sticks(w, e)

\* The mails that went out, may still go out, and may be claimed once more.
MailsPaid(e) == mails[e] + Cardinality(Working(e)) + (IF Safe(e) THEN 0 ELSE 1) <= 1 + faults
MailsInv == \A e \in Mails : MailsPaid(e)

LEMMA LeasesFinite ==
    ASSUME NEW S \in SUBSET Leases
    PROVE  IsFiniteSet(S) /\ Cardinality(S) \in Nat
<1>1. IsFiniteSet(Leases)
  BY OutboxAssumption, FS_Interval DEF Leases
<1> QED
  BY <1>1, FS_Subset, FS_CardinalityType

LEMMA WorkingFinite ==
    ASSUME NEW e
    PROVE  /\ IsFiniteSet(Working(e)) /\ Cardinality(Working(e)) \in Nat
           /\ IsFiniteSet(Working(e)') /\ Cardinality(Working(e)') \in Nat
<1>1. Working(e) \in SUBSET Leases /\ Working(e)' \in SUBSET Leases
  BY DEF Working
<1> QED
  BY <1>1, LeasesFinite

\* A step that starts no handler and mails nobody keeps the bound, if it costs a
\* fault or leaves a safe row safe.
LEMMA PaidStays ==
    ASSUME IInv, NEW e \in Mails, MailsPaid(e), mails'[e] = mails[e],
           Working(e)' \subseteq Working(e),
           \/ faults' = faults + 1
           \/ faults' = faults /\ (Safe(e) => Safe(e)')
    PROVE  MailsPaid(e)'
<1>1. Cardinality(Working(e)') <= Cardinality(Working(e))
  BY WorkingFinite, FS_Subset
<1>2. mails[e] \in Nat /\ faults \in Nat
  BY OutboxAssumption DEF IInv, TypeOK
<1> DEFINE c == Cardinality(Working(e))
           d == Cardinality(Working(e)')
           s == IF Safe(e) THEN 0 ELSE 1
           t == IF Safe(e)' THEN 0 ELSE 1
<1>3. c \in Nat /\ d \in Nat /\ d <= c
  BY <1>1, WorkingFinite
<1>4. /\ s \in {0, 1} /\ t \in {0, 1}
      /\ (Safe(e) => Safe(e)') => t <= s
  OBVIOUS
<1>5. mails[e] + c + s <= 1 + faults
  BY DEF MailsPaid
<1> HIDE DEF c, d, s, t
<1>6. mails'[e] + d + t <= 1 + faults'
  BY <1>2, <1>3, <1>4, <1>5
<1> QED
  BY <1>6 DEF MailsPaid, d, t

\* A row that stays as it is stays safe while its owner sticks to it.
LEMMA SafeStays ==
    ASSUME NEW e \in Events, row'[e] = row[e],
           \A w \in Workers : Sticks(w, e) => Sticks(w, e)'
    PROVE  Safe(e) => Safe(e)'
  BY DEF Safe, Ended

\* A worker that has no lease sticks to no row, and whoever sticks is the only
\* owner of its row.
LEMMA SticksAlone ==
    ASSUME IInv, NEW e \in Events, NEW v \in Workers, Sticks(v, e)
    PROVE  /\ worker[v].event = e /\ worker[v].lease # NoLease
           /\ worker[v].lease \in Leases
           /\ worker[v].pc \in {"delivering", "mark", "catch"}
           /\ \A w \in Workers : Owns(w, e) => w = v
           /\ RunOf(v) = run[e][worker[v].lease]
<1>1. worker[v].event = e /\ worker[v].lease # NoLease /\ row[e].lock = worker[v].lease
  BY DEF Sticks, Owns, Holds
<1>2. worker[v].lease \in Leases
  BY <1>1 DEF IInv, TypeOK, Worker
<1>3. worker[v].pc \in {"delivering", "mark", "catch"}
  BY DEF Sticks
<1>4. ASSUME NEW w \in Workers, Owns(w, e)
      PROVE  w = v
  BY <1>1, <1>4 DEF IInv, LeasesInv, Owns, Holds
<1> QED
  BY <1>1, <1>2, <1>3, <1>4 DEF RunOf

\* Steps that move one worker only, and give the row of none to another.
LEMMA OneWorkerMoves ==
    ASSUME IInv, NEW e \in Mails, MailsPaid(e), NEW w \in Workers,
           row' = row, mails' = mails, faults' = faults,
           \A v \in Workers \ {w} : worker'[v] = worker[v],
           \A f \in Events, l \in Leases :
               \/ run'[f][l] = run[f][l]
               \/ /\ run'[f][l] = NoRun
                  /\ f = worker[w].event /\ l = worker[w].lease /\ l # NoLease,
           Sticks(w, e) => Sticks(w, e)'
    PROVE  MailsPaid(e)'
<1>1. e \in Events
  BY DEF Events
<1>2. Working(e)' \subseteq Working(e)
  BY <1>1 DEF Working, NoRun
<1>3. ASSUME NEW v \in Workers, Sticks(v, e)
      PROVE  Sticks(v, e)'
  <2>1. CASE v = w
    BY <1>3, <2>1
  <2>2. CASE v # w
    <3>1. /\ worker[v].event = e /\ worker[v].lease \in Leases /\ worker[v].lease # NoLease
          /\ worker'[v] = worker[v]
      BY <1>1, <1>3, <2>2, SticksAlone
    <3>2. run'[e][worker[v].lease] = run[e][worker[v].lease]
      BY <1>1, <2>2, <3>1 DEF IInv, LeasesInv
    <3>3. RunOf(v)' = RunOf(v)
      BY <3>1, <3>2 DEF RunOf
    <3>4. QED
      BY <1>3, <3>1, <3>3 DEF Sticks, Owns, Holds
  <2>3. QED
    BY <2>1, <2>2
<1>4. Safe(e) => Safe(e)'
  BY <1>1, <1>3, SafeStays
<1> QED
  BY <1>2, <1>4, PaidStays

\* A worker that has claimed nothing selects a row, or gives up a lost claim.
LEMMA UnleasedPays ==
    ASSUME IInv, NEW e \in Mails, MailsPaid(e), NEW w \in Workers,
           worker[w].pc \in {"idle", "found"}, NEW x \in Worker,
           worker' = [worker EXCEPT ![w] = x], UNCHANGED <<row, run, mails, faults>>
    PROVE  MailsPaid(e)'
<1>1. ~Sticks(w, e)
  BY DEF Sticks
<1>2. \A v \in Workers \ {w} : worker'[v] = worker[v]
  BY DEF IInv, TypeOK
<1> QED
  BY <1>1, <1>2, OneWorkerMoves

\* A claim starts a handler, for a row that is due and so was safe from nobody.
LEMMA ClaimPays ==
    ASSUME IInv, NEW e \in Mails, MailsPaid(e), NEW w \in Workers, Claim(w)
    PROVE  MailsPaid(e)'
<1> DEFINE f == worker[w].event
           l == row[f].claims + 1
<1>1. /\ f \in Events /\ e \in Events /\ l \in Leases /\ row[f].status = "pending" /\ row[f].due
      /\ worker[w].pc = "found"
  BY DEF Claim, IInv, WorkersInv, FoundInv, Won, Events
<1>2. /\ row' = [row EXCEPT ![f].claims = l, ![f].lock = l, ![f].due = FALSE]
      /\ worker' = [worker EXCEPT ![w].pc = "delivering", ![w].lease = l]
      /\ run' = [run EXCEPT ![f][l] = [pc |-> "work", by |-> w, result |-> "none"]]
      /\ mails' = mails /\ faults' = faults
  BY DEF Claim
<1> HIDE DEF l
<1>3. \A v \in Workers \ {w} : worker'[v] = worker[v]
  BY <1>2 DEF IInv, TypeOK
<1>4. CASE e # f
  <2>1. row'[e] = row[e] /\ run'[e] = run[e]
    BY <1>1, <1>2, <1>4 DEF IInv, TypeOK
  <2>2. Working(e)' = Working(e)
    BY <2>1 DEF Working
  <2>3. ASSUME NEW v \in Workers, Sticks(v, e)
        PROVE  Sticks(v, e)'
    <3>1. v # w
      BY <1>4, <2>3 DEF Sticks, Owns
    <3>2. QED
      BY <1>1, <1>3, <2>1, <2>3, <3>1, SticksAlone DEF Sticks, Owns, Holds, RunOf
  <2>4. Safe(e) => Safe(e)'
    BY <1>1, <2>1, <2>3, SafeStays
  <2>5. QED
    BY <1>2, <2>2, <2>4, PaidStays
<1>5. CASE e = f
  <2>1. ~Safe(e)
    BY <1>1, <1>5 DEF Safe, Ended
  <2>2. Safe(e)'
    <3>1. row'[e].status = "pending" /\ ~row'[e].due /\ row'[e].lock = l
      BY <1>1, <1>2, <1>5 DEF IInv, TypeOK, Row
    <3>2. worker'[w].pc = "delivering" /\ worker'[w].event = e /\ worker'[w].lease = l
      BY <1>1, <1>2, <1>5 DEF IInv, TypeOK, Worker
    <3>3. run'[e][l].pc = "work"
      BY <1>1, <1>2, <1>5 DEF IInv, TypeOK
    <3>4. Sticks(w, e)'
      BY <1>1, <3>1, <3>2, <3>3 DEF Sticks, Owns, Holds, RunOf, Leases, NoLease
    <3>5. QED
      BY <3>1, <3>4 DEF Safe
  <2>3. Working(e)' \subseteq Working(e) \cup {l}
    BY <1>1, <1>2, <1>5 DEF Working, IInv, TypeOK
  <2>4. Cardinality(Working(e)') <= Cardinality(Working(e)) + 1
    <3>1. IsFiniteSet(Working(e) \cup {l}) /\ Cardinality(Working(e) \cup {l}) <= Cardinality(Working(e)) + 1
      <4>1. IsFiniteSet(Working(e)) /\ Cardinality(Working(e)) \in Nat
        BY WorkingFinite
      <4>2. /\ IsFiniteSet(Working(e) \cup {l})
            /\ Cardinality(Working(e) \cup {l}) \in {Cardinality(Working(e)), Cardinality(Working(e)) + 1}
        BY <4>1, FS_AddElement
      <4>3. QED
        BY <4>1, <4>2
    <3>2. Cardinality(Working(e)') <= Cardinality(Working(e) \cup {l})
      BY <2>3, <3>1, FS_Subset
    <3>3. Cardinality(Working(e) \cup {l}) \in Nat
      BY <3>1, FS_CardinalityType
    <3>4. QED
      BY <3>1, <3>2, <3>3, WorkingFinite
  <2> DEFINE c == Cardinality(Working(e))
             d == Cardinality(Working(e)')
  <2>5. c \in Nat /\ d \in Nat /\ d <= c + 1
    BY <2>4, WorkingFinite
  <2>6. mails[e] \in Nat /\ faults \in Nat /\ mails[e] + c + 1 <= 1 + faults
    BY <2>1, OutboxAssumption DEF MailsPaid, IInv, TypeOK
  <2> HIDE DEF c, d
  <2>7. mails'[e] + d + 0 <= 1 + faults'
    BY <1>2, <2>5, <2>6
  <2>8. QED
    BY <2>2, <2>7 DEF MailsPaid, d
<1> QED
  BY <1>4, <1>5

\* The worker hears of its handler, or its deadline passes: a result that is
\* ok or unknown is carried on.
LEMMA HeardPays ==
    ASSUME IInv, NEW e \in Mails, MailsPaid(e), NEW w \in Workers,
           Returned(w) \/ Threw(w) \/ Deadline(w)
    PROVE  MailsPaid(e)'
<1>1. /\ worker[w].pc = "delivering" /\ worker[w].event \in Events /\ worker[w].lease \in Leases
      /\ worker[w].lease # NoLease /\ row' = row /\ mails' = mails /\ faults' = faults
  BY DEF Returned, Threw, Deadline, IInv, WorkersInv, TypeOK, Worker
<1>2. /\ \A v \in Workers \ {w} : worker'[v] = worker[v]
      /\ worker'[w].event = worker[w].event /\ worker'[w].lease = worker[w].lease
  BY DEF Returned, Threw, Deadline, Catch, IInv, TypeOK, Worker
<1>3. \A f \in Events, l \in Leases :
          \/ run'[f][l] = run[f][l]
          \/ /\ run'[f][l] = NoRun
             /\ f = worker[w].event /\ l = worker[w].lease /\ l # NoLease
  BY <1>1 DEF Returned, Threw, Deadline, Forget, IInv, TypeOK
<1>4. ASSUME Sticks(w, e)
      PROVE  Sticks(w, e)'
  <2>1. Owns(w, e)' /\ worker[w].event = e
    BY <1>1, <1>2, <1>4 DEF Sticks, Owns, Holds
  <2>2. CASE Returned(w)
    BY <2>1, <2>2 DEF Sticks, Returned, IInv, TypeOK, Worker
  <2>3. CASE Threw(w)
    <3>1. RunOf(w).result = "cutOff"
      BY <1>1, <1>4, <2>3 DEF Sticks, Threw, Answered
    <3>2. worker'[w].pc = "catch" /\ worker'[w].attempts = MaxAttempts
      BY <2>3, <3>1 DEF Threw, Catch, NextAttempts, IInv, TypeOK, Worker
    <3>3. QED
      BY <2>1, <3>2, OutboxAssumption DEF Sticks, WillRetry
  <2>4. CASE Deadline(w)
    <3>1. worker'[w].pc = "catch" /\ worker'[w].attempts = MaxAttempts
      BY <2>1, <2>4 DEF Deadline, Catch, NextAttempts, IInv, TypeOK, Worker
    <3>2. QED
      BY <2>1, <3>1, OutboxAssumption DEF Sticks, WillRetry
  <2>5. QED
    BY <2>2, <2>3, <2>4
<1> QED
  BY <1>1, <1>2, <1>3, <1>4, OneWorkerMoves

\* The owner settles its row: for good, or it was bound to give it back.
LEMMA SettlePays ==
    ASSUME IInv, NEW e \in Mails, MailsPaid(e), NEW w \in Workers,
           MarkDelivered(w) \/ MarkRetryOrFailed(w)
    PROVE  MailsPaid(e)'
<1> DEFINE f == worker[w].event
<1>1. /\ f \in Events /\ e \in Events /\ worker[w].lease # NoLease /\ run' = run /\ mails' = mails
      /\ faults' = faults /\ \A v \in Workers \ {w} : worker'[v] = worker[v]
  BY DEF MarkDelivered, MarkRetryOrFailed, Rest, IInv, TypeOK, WorkersInv, Events
<1>2. Working(e)' = Working(e)
  BY <1>1 DEF Working
<1>3. CASE ~Owns(w, e)
  <2>1. row'[e] = row[e]
    BY <1>1, <1>3 DEF MarkDelivered, MarkRetryOrFailed, Owns, IInv, TypeOK
  <2>2. ASSUME NEW v \in Workers, Sticks(v, e)
        PROVE  Sticks(v, e)'
    <3>1. v # w
      BY <1>3, <2>2 DEF Sticks
    <3>2. QED
      BY <1>1, <2>1, <2>2, <3>1 DEF Sticks, Owns, Holds, RunOf
  <2>3. Safe(e) => Safe(e)'
    BY <1>1, <2>1, <2>2, SafeStays
  <2>4. QED
    BY <1>1, <1>2, <2>3, PaidStays
<1>4. CASE Owns(w, e)
  <2>1. f = e /\ Holds(w, e) /\ ~Ended(e)
    BY <1>1, <1>4 DEF Owns, Holds, IInv, RowsInv
  <2>2. ASSUME Safe(e)
        PROVE  Ended(e)'
    <3>1. PICK v \in Workers : Sticks(v, e)
      BY <2>1, <2>2 DEF Safe
    <3>2. Sticks(w, e)
      BY <1>1, <1>4, <3>1, SticksAlone
    <3>3. CASE MarkDelivered(w)
      BY <1>1, <2>1, <3>3 DEF MarkDelivered, Ended, IInv, TypeOK, Row
    <3>4. CASE MarkRetryOrFailed(w)
      <4>1. ~WillRetry(worker[w].attempts)
        BY <3>2, <3>4 DEF Sticks, MarkRetryOrFailed
      <4>2. QED
        BY <1>1, <2>1, <3>4, <4>1 DEF MarkRetryOrFailed, Ended, IInv, TypeOK, Row
    <3>5. QED
      BY <3>3, <3>4
  <2>3. Safe(e) => Safe(e)'
    BY <2>2 DEF Safe
  <2>4. QED
    BY <1>1, <1>2, <2>3, PaidStays
<1> QED
  BY <1>3, <1>4

\* A new row is not safe yet, and a row nobody owns is safe only when it ended.
LEMMA RowPays ==
    ASSUME IInv, NEW e \in Mails, MailsPaid(e), NEW f \in Events, Enqueue(f) \/ BecomesDue(f)
    PROVE  MailsPaid(e)'
<1>1. /\ e \in Events /\ worker' = worker /\ run' = run /\ mails' = mails
      /\ \A g \in Events \ {f} : row'[g] = row[g]
      /\ faults' = faults \/ faults' = faults + 1
  BY DEF Enqueue, BecomesDue, Fault, Events, IInv, TypeOK
<1>2. Working(e)' \subseteq Working(e)
  BY <1>1 DEF Working
<1>3. CASE e = f
  <2>1. faults' = faults + 1 \/ (faults' = faults /\ ~Safe(e))
    BY <1>3 DEF Enqueue, BecomesDue, Fault, Safe, Ended, Sticks, Owns
  <2>2. QED
    BY <1>1, <1>2, <2>1, PaidStays
<1>4. CASE e # f
  <2>1. \A v \in Workers : Sticks(v, e) => Sticks(v, e)'
    BY <1>1, <1>4 DEF Sticks, Owns, Holds, RunOf
  <2>2. Safe(e) => Safe(e)'
    BY <1>1, <1>4, <2>1, SafeStays
  <2>3. QED
    BY <1>1, <1>2, <2>2, PaidStays
<1> QED
  BY <1>3, <1>4

\* Whatever fails is paid for.
LEMMA FaultPays ==
    ASSUME IInv, NEW e \in Mails, MailsPaid(e), FaultStep
    PROVE  MailsPaid(e)'
<1>1. mails' = mails /\ faults' = faults + 1 /\ e \in Events
  BY DEF FaultStep, MarkFails, SettleFails, Crash, HandlerFails, Fault, Events
<1>2. Working(e)' \subseteq Working(e)
  <2>1. CASE \E w \in Workers : MarkFails(w) \/ SettleFails(w)
    BY <2>1 DEF MarkFails, SettleFails, Working
  <2>2. CASE \E w \in Workers : Crash(w)
    BY <1>1, <2>2 DEF Crash, Working, NoRun
  <2>3. ASSUME NEW f \in Events, NEW l \in Leases, HandlerFails(f, l)
        PROVE  Working(e)' \subseteq Working(e)
    <3>1. PICK x : run' = [run EXCEPT ![f][l] = x] /\ x.pc # "work"
      <4>1. run[f][l] \in Run
        BY DEF IInv, TypeOK
      <4>2. CASE Awaited(f, l)
        <5> WITNESS [run[f][l] EXCEPT !.pc = "done", !.result = "error"]
        <5> QED
          BY <2>3, <4>1, <4>2 DEF HandlerFails, End, Run
      <4>3. CASE ~Awaited(f, l)
        <5> WITNESS NoRun
        <5> QED
          BY <2>3, <4>3 DEF HandlerFails, End, NoRun
      <4>4. QED
        BY <4>2, <4>3
    <3>2. QED
      BY <1>1, <3>1 DEF Working, IInv, TypeOK
  <2>4. QED
    BY <2>1, <2>2, <2>3 DEF FaultStep
<1> QED
  BY <1>1, <1>2, PaidStays

\* A send uses up one handler that may send: for a mail, or for nothing, and
\* then it is reported as refused and may be tried again.
LEMMA SendPays ==
    ASSUME IInv, NEW e \in Mails, MailsPaid(e), NEW f \in Events, NEW l \in Leases, Send(f, l)
    PROVE  MailsPaid(e)'
<1>1. PICK sent \in BOOLEAN, result \in {"ok", "error", "cutOff"} :
          /\ result = "error" => ~sent
          /\ mails' = [mails EXCEPT ![f] = IF sent THEN @ + 1 ELSE @]
          /\ run' = [run EXCEPT ![f][l].pc = "audit", ![f][l].result = result]
  BY DEF Send
<1>2. /\ e \in Events /\ f \in Mails /\ run[f][l].pc = "work"
      /\ row' = row /\ worker' = worker /\ faults' = faults
  BY DEF Send, Events
<1>3. /\ run'[f][l].pc = "audit" /\ run'[f][l].result = result
      /\ \A g \in Events, k \in Leases : ~(g = f /\ k = l) => run'[g][k] = run[g][k]
  BY <1>1 DEF IInv, TypeOK, Run
<1>4. ASSUME NEW v \in Workers, Sticks(v, e), sent \/ e # f
      PROVE  Sticks(v, e)'
  <2>1. /\ worker[v].event = e /\ worker[v].lease \in Leases /\ RunOf(v) = run[e][worker[v].lease]
    BY <1>2, <1>4, SticksAlone
  <2>2. RunOf(v)' = run'[e][worker[v].lease] /\ Owns(v, e)'
    BY <1>2, <1>4, <2>1 DEF RunOf, Sticks, Owns, Holds
  <2>3. CASE e = f /\ worker[v].lease = l
    <3>1. RunOf(v)'.result \in {"ok", "cutOff"}
      BY <1>1, <1>3, <1>4, <2>2, <2>3
    <3>2. QED
      BY <1>2, <1>4, <2>2, <3>1 DEF Sticks
  <2>4. CASE ~(e = f /\ worker[v].lease = l)
    <3>1. RunOf(v)' = RunOf(v)
      BY <1>2, <1>3, <2>1, <2>2, <2>4
    <3>2. QED
      BY <1>2, <1>4, <2>2, <3>1 DEF Sticks
  <2>5. QED
    BY <2>3, <2>4
<1>5. sent \/ e # f => (Safe(e) => Safe(e)')
  BY <1>2, <1>4, SafeStays
<1>6. CASE e # f
  <2>1. mails'[e] = mails[e]
    BY <1>1, <1>6 DEF IInv, TypeOK
  <2>2. Working(e)' \subseteq Working(e)
    BY <1>2, <1>3, <1>6 DEF Working
  <2>3. QED
    BY <1>2, <1>5, <1>6, <2>1, <2>2, PaidStays
<1>7. CASE e = f
  <2> DEFINE c == Cardinality(Working(e))
             d == Cardinality(Working(e)')
             s == IF Safe(e) THEN 0 ELSE 1
             t == IF Safe(e)' THEN 0 ELSE 1
  <2>1. Working(e)' = Working(e) \ {l} /\ l \in Working(e)
    BY <1>2, <1>3, <1>7 DEF Working
  <2>2. d = c - 1 /\ c \in Nat /\ d \in Nat
    BY <2>1, WorkingFinite, FS_RemoveElement
  <2>3. mails[e] \in Nat /\ faults \in Nat /\ mails[e] + c + s <= 1 + faults
    BY OutboxAssumption DEF MailsPaid, IInv, TypeOK
  <2>4. mails'[e] = IF sent THEN mails[e] + 1 ELSE mails[e]
    BY <1>1, <1>7 DEF IInv, TypeOK
  <2>5. s \in {0, 1} /\ t \in {0, 1} /\ (sent => t <= s)
    BY <1>5
  <2> HIDE DEF c, d, s, t
  <2>6. mails'[e] + d + t <= 1 + faults'
    <3>1. CASE sent
      BY <1>2, <2>2, <2>3, <2>4, <2>5, <3>1
    <3>2. CASE ~sent
      BY <1>2, <2>2, <2>3, <2>4, <2>5, <3>2
    <3>3. QED
      BY <3>1, <3>2
  <2>7. QED
    BY <2>6 DEF MailsPaid, d, t
<1> QED
  BY <1>6, <1>7

\* A handler that has sent, or that checks for a certificate, goes on: its
\* worker keeps what it did.
LEMMA HandlerPays ==
    ASSUME IInv, NEW e \in Mails, MailsPaid(e), NEW f \in Events, NEW l \in Leases,
           Look(f, l) \/ Issue(f, l) \/ Audit(f, l)
    PROVE  MailsPaid(e)'
<1>1. /\ e \in Events /\ row' = row /\ worker' = worker /\ faults' = faults /\ mails' = mails
      /\ run[f][l] \in Run
  BY DEF Look, Issue, Audit, Events, IInv, TypeOK
<1>2. PICK x : run' = [run EXCEPT ![f][l] = x]
  <2>1. ASSUME NEW result, End(f, l, result)
        PROVE  \E x : run' = [run EXCEPT ![f][l] = x]
    <3> WITNESS IF Awaited(f, l) THEN [run[f][l] EXCEPT !.pc = "done", !.result = result] ELSE NoRun
    <3> QED
      BY <2>1 DEF End
  <2>2. ASSUME run' = [run EXCEPT ![f][l].pc = "create"]
        PROVE  \E x : run' = [run EXCEPT ![f][l] = x]
    <3> WITNESS [run[f][l] EXCEPT !.pc = "create"]
    <3> QED
      BY <2>2
  <2>3. ASSUME run' = [run EXCEPT ![f][l].pc = "audit", ![f][l].result = "ok"]
        PROVE  \E x : run' = [run EXCEPT ![f][l] = x]
    <3> WITNESS [run[f][l] EXCEPT !.pc = "audit", !.result = "ok"]
    <3> QED
      BY <2>3 DEF IInv, TypeOK
  <2>4. QED
    BY <2>1, <2>2, <2>3 DEF Look, Issue, Audit
<1>3. \A g \in Events, k \in Leases : ~(g = f /\ k = l) => run'[g][k] = run[g][k]
  BY <1>2 DEF IInv, TypeOK
<1>4. CASE e # f
  <2>1. Working(e)' \subseteq Working(e)
    BY <1>1, <1>3, <1>4 DEF Working
  <2>2. ASSUME NEW v \in Workers, Sticks(v, e)
        PROVE  Sticks(v, e)'
    BY <1>1, <1>3, <1>4, <2>2, SticksAlone DEF Sticks, Owns, Holds, RunOf
  <2>3. QED
    BY <1>1, <2>1, <2>2, SafeStays, PaidStays
<1>5. CASE e = f
  <2>1. Audit(e, l)
    BY <1>5, OutboxAssumption DEF Look, Issue, IInv, DoneInv, HandlersTold
  <2>2. /\ run[e][l].pc = "audit"
        /\ run'[e][l] = IF Awaited(e, l) THEN [run[e][l] EXCEPT !.pc = "done"] ELSE NoRun
    BY <1>1, <1>5, <2>1 DEF Audit, End, IInv, TypeOK, Run
  <2>3. Working(e)' \subseteq Working(e)
    BY <1>1, <1>3, <1>5, <2>2 DEF Working, NoRun, Run
  <2>4. ASSUME NEW v \in Workers, Sticks(v, e)
        PROVE  Sticks(v, e)'
    <3>1. /\ worker[v].event = e /\ worker[v].lease \in Leases /\ RunOf(v) = run[e][worker[v].lease]
      BY <1>1, <2>4, SticksAlone
    <3>2. RunOf(v)' = run'[e][worker[v].lease] /\ Owns(v, e)'
      BY <1>1, <2>4, <3>1 DEF RunOf, Sticks, Owns, Holds
    <3>3. CASE worker[v].lease = l /\ worker[v].pc = "delivering"
      <4>1. Awaited(e, l)
        BY <3>1, <3>3 DEF Awaited
      <4>2. RunOf(v)'.result = RunOf(v).result
        BY <1>1, <1>5, <2>2, <3>1, <3>2, <3>3, <4>1 DEF Run
      <4>3. QED
        BY <1>1, <2>2, <2>4, <3>1, <3>2, <3>3, <4>2 DEF Sticks
    <3>4. CASE ~(worker[v].lease = l /\ worker[v].pc = "delivering")
      BY <1>1, <1>3, <2>4, <3>1, <3>2, <3>4 DEF Sticks
    <3>5. QED
      BY <3>3, <3>4
  <2>5. QED
    BY <1>1, <2>3, <2>4, SafeStays, PaidStays
<1> QED
  BY <1>4, <1>5

LEMMA InitPaid == Init => MailsInv
<1> SUFFICES ASSUME Init, NEW e \in Mails PROVE MailsPaid(e)
  BY DEF MailsInv
<1>1. Working(e) = {}
  BY DEF Init, Working, NoRun, Events
<1>2. Cardinality(Working(e)) = 0
  BY <1>1, FS_EmptySet
<1>3. mails[e] = 0 /\ faults = 0
  BY DEF Init
<1> QED
  BY <1>2, <1>3 DEF MailsPaid

LEMMA StepPaid == IInv /\ MailsInv /\ [Next]_vars => MailsInv'
<1> SUFFICES ASSUME IInv, MailsInv, [Next]_vars, NEW e \in Mails
             PROVE  MailsPaid(e)'
  BY DEF MailsInv
<1>1. MailsPaid(e)
  BY DEF MailsInv
<1>2. ASSUME NEW f \in Events, Enqueue(f) \/ BecomesDue(f)
      PROVE  MailsPaid(e)'
  BY <1>1, <1>2, RowPays
<1>3. ASSUME NEW w \in Workers, WorkerStep(w)
      PROVE  MailsPaid(e)'
  <2>1. ASSUME NEW f \in Events, FindDue(w, f)
        PROVE  MailsPaid(e)'
    <3>1. [IdleWorker EXCEPT !.pc = "found", !.event = f, !.seen = row[f].claims,
                             !.attempts = row[f].attempts] \in Worker
      BY DEF IdleWorker, Worker, IInv, TypeOK, Row, Leases, NoLease
    <3>2. QED
      BY <1>1, <2>1, <3>1, UnleasedPays DEF FindDue
  <2>2. CASE ClaimLost(w)
    <3>1. IdleWorker \in Worker
      BY OutboxAssumption DEF IdleWorker, Worker
    <3>2. QED
      BY <1>1, <2>2, <3>1, UnleasedPays DEF ClaimLost, Rest
  <2>3. QED
    BY <1>1, <1>3, <2>1, <2>2, ClaimPays, HeardPays, SettlePays DEF WorkerStep
<1>4. ASSUME NEW f \in Events, NEW l \in Leases, HandlerStep(f, l)
      PROVE  MailsPaid(e)'
  BY <1>1, <1>4, SendPays, HandlerPays DEF HandlerStep
<1>5. CASE FaultStep
  BY <1>1, <1>5, FaultPays
<1>6. CASE UNCHANGED vars
  <2>1. /\ row' = row /\ worker' = worker /\ run' = run /\ mails' = mails /\ faults' = faults
    BY <1>6 DEF vars
  <2>2. Working(e)' = Working(e) /\ Safe(e)' = Safe(e)
    BY <2>1 DEF Working, Safe, Ended, Sticks, Owns, Holds, RunOf
  <2>3. QED
    BY <1>1, <2>1, <2>2, PaidStays
<1> QED
  BY <1>2, <1>3, <1>4, <1>5, <1>6 DEF Next

\* Nobody is mailed twice about one event unless something failed, and each
\* fault costs at most one mail more: abandoned handlers, lost claims and late
\* workers included.
THEOREM DuplicatesArePaid == Spec => []DuplicatesNeedFaults
<1>1. ASSUME IInv, MailsInv
      PROVE  DuplicatesNeedFaults
  <2> SUFFICES ASSUME NEW e \in Mails PROVE mails[e] <= 1 + faults
    BY DEF DuplicatesNeedFaults
  <2>1. mails[e] + Cardinality(Working(e)) + (IF Safe(e) THEN 0 ELSE 1) <= 1 + faults
    BY <1>1 DEF MailsInv, MailsPaid
  <2>2. mails[e] \in Nat /\ faults \in Nat /\ Cardinality(Working(e)) \in Nat
    BY <1>1, WorkingFinite, OutboxAssumption DEF IInv, TypeOK
  <2>3. QED
    BY <2>1, <2>2
<1>2. Spec => []MailsInv
  BY InitPaid, StepPaid, Invariant, PTL DEF Spec
<1> QED
  BY <1>1, <1>2, Invariant, PTL
=============================================================================
