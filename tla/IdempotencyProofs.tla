-------------------------- MODULE IdempotencyProofs --------------------------
(***************************************************************************)
(* Proofs about Idempotency for every set of requests and every number of  *)
(* faults.                                                                 *)
(*                                                                         *)
(* The argument.  A row names the request that reserved it.  While that    *)
(* request runs nobody else can take the row away: the index refuses a     *)
(* second one, and a row is reclaimed only when it has expired.  So a row  *)
(* is worth one effect, which its request has committed or may commit, and *)
(* every other effect was excused when it was committed or when its row    *)
(* was reclaimed.                                                          *)
(***************************************************************************)
EXTENDS Idempotency, TLAPS

------------------------------------------------------------------------------
(* The inductive invariant, in parts.                                       *)

\* A request that has not run yet owns nothing and has done nothing.
FreshInv ==
    \A r \in Requests :
        /\ req[r].pc \in {"new", "create", "find", "reclaim"} =>
              ~req[r].owned /\ ~req[r].did /\ req[r].answer = "none"
        /\ req[r].pc \in {"new", "create", "find", "reclaim", "run"} => ~req[r].ok /\ ~req[r].did
        /\ req[r].pc = "settle" => req[r].owned
        /\ req[r].ok => req[r].did

\* A row was reserved by its request; an expired one by a request that is over; a
\* completed one holds what that request answered.
RowInv ==
    row.status # "absent" =>
        /\ row.by \in Requests /\ req[row.by].owned
        /\ row.expired => req[row.by].pc = "done"
        /\ row.status = "completed" => row.response = row.by /\ req[row.by].ok
                                       /\ req[row.by].pc = "done"

\* The row is worth one effect, unless its request has yet to commit it or has
\* failed and is about to release the row.
Worth == IF row.status = "absent" \/ (row.status = "pending" /\ Running(row.by) /\ ~req[row.by].ok)
         THEN 0 ELSE 1
WorthInv == effects <= excuses + Worth

IInv == TypeOK /\ FreshInv /\ RowInv /\ OneReservation /\ WorthInv /\ ReplaysAreTrue

------------------------------------------------------------------------------
LEMMA InitInvariant == Init => IInv
<1> SUFFICES ASSUME Init PROVE IInv
  OBVIOUS
<1>1. TypeOK
  BY IdempotencyAssumption DEF Init, TypeOK, NoRow, Row, NewRequest, Request
<1>2. FreshInv /\ OneReservation /\ ReplaysAreTrue
  BY DEF Init, FreshInv, OneReservation, Running, ReplaysAreTrue, NewRequest
<1>3. RowInv /\ WorthInv
  BY DEF Init, RowInv, WorthInv, Worth, NoRow
<1> QED
  BY <1>1, <1>2, <1>3 DEF IInv

\* A step of one request that leaves the row alone, and neither starts nor ends
\* a run that the row is for.
Beside(r, q) ==
    /\ q \in Request /\ req' = [req EXCEPT ![r] = q] /\ row' = row /\ faults' \in 0..MaxFaults
    /\ \/ effects' = effects /\ excuses' = excuses
       \/ effects' = effects + 1 /\ excuses' = excuses + 1
    /\ q.owned <=> req[r].owned
    /\ q.ok <=> req[r].ok
    /\ req[r].did => q.did
    /\ req[r].owned => q.pc = "done" \/ (Running(r) /\ q.pc \in {"run", "answer", "settle"})
    /\ q.pc \in {"new", "create", "find", "reclaim"} => ~q.owned /\ ~q.did /\ q.answer = "none"
    /\ q.pc \in {"new", "create", "find", "reclaim", "run"} => ~q.ok /\ ~q.did
    /\ q.pc = "settle" => q.owned
    /\ q.answer = "replay" => \/ req[r].answer = "replay" /\ q.from = req[r].from
                              \/ /\ q.from \in Requests /\ q.from # r /\ req[q.from].ok
                                 /\ Body(q.from) = Body(r)

LEMMA AsideKeeps ==
    ASSUME IInv, NEW r \in Requests, NEW q, Beside(r, q)
    PROVE  IInv'
<1>1. req'[r] = q /\ \A s \in Requests : s # r => req'[s] = req[s]
  BY DEF IInv, TypeOK, Beside
<1>2. TypeOK'
  BY DEF IInv, TypeOK, Beside
<1>3. FreshInv'
  <2>1. ASSUME NEW s \in Requests, s # r
        PROVE  req'[s] = req[s]
    BY <1>1, <2>1
  <2>2. req[r].ok => req[r].did
    BY DEF IInv, FreshInv
  <2>3. /\ q.pc \in {"new", "create", "find", "reclaim"} => ~q.owned /\ ~q.did /\ q.answer = "none"
        /\ q.pc \in {"new", "create", "find", "reclaim", "run"} => ~q.ok /\ ~q.did
        /\ q.pc = "settle" => q.owned
        /\ q.ok => q.did
    BY <2>2 DEF Beside
  <2> QED
    BY <1>1, <2>1, <2>3 DEF IInv, FreshInv
<1>4. RowInv'
  BY <1>1 DEF IInv, RowInv, Running, Beside
<1>5. OneReservation'
  BY <1>1 DEF IInv, OneReservation, Running, Beside
<1>6. WorthInv'
  <2>1. Worth = 1 => Worth' = 1
    BY <1>1 DEF IInv, Worth, Running, RowInv, Beside
  <2>2. Worth \in {0, 1} /\ Worth' \in {0, 1}
    BY DEF Worth
  <2>3. effects \in Nat /\ excuses \in Nat /\ effects <= excuses + Worth
    BY DEF IInv, WorthInv, TypeOK
  <2>4. \/ effects' = effects /\ excuses' = excuses
        \/ effects' = effects + 1 /\ excuses' = excuses + 1
    BY DEF Beside
  <2>5. effects' <= excuses' + Worth'
    <3> DEFINE w == Worth
               v == Worth'
    <3>1. w \in {0, 1} /\ v \in {0, 1} /\ (w = 1 => v = 1) /\ effects <= excuses + w
      BY <2>1, <2>2, <2>3
    <3> HIDE DEF w, v
    <3>2. effects' <= excuses' + v
      BY <2>3, <2>4, <3>1
    <3> QED
      BY <3>2 DEF v
  <2> QED
    BY <2>5 DEF WorthInv
<1>7. ReplaysAreTrue'
  <2> SUFFICES ASSUME NEW s \in Requests, req'[s].answer = "replay"
               PROVE  /\ req'[s].from # None /\ req'[req'[s].from].did
                      /\ req'[req'[s].from].ok /\ Body(req'[s].from) = Body(s)
    BY DEF ReplaysAreTrue, Body
  <2>1. \A t \in Requests : req[t].ok => req'[t].ok /\ req'[t].did
    BY <1>1 DEF IInv, FreshInv, Beside
  <2>2. req'[s].from \in Requests /\ req[req'[s].from].ok /\ Body(req'[s].from) = Body(s)
    <3>1. CASE req[s].answer = "replay" /\ req'[s].from = req[s].from
      BY <3>1 DEF IInv, ReplaysAreTrue, TypeOK, Request
    <3>2. CASE s = r /\ ~(req[s].answer = "replay" /\ req'[s].from = req[s].from)
      BY <1>1, <3>2 DEF Beside
    <3> QED
      BY <1>1, <3>1, <3>2
  <2> QED
    BY <2>1, <2>2, IdempotencyAssumption
<1> QED
  BY <1>2, <1>3, <1>4, <1>5, <1>6, <1>7 DEF IInv

LEMMA LookKeeps ==
    ASSUME IInv, NEW r \in Requests,
           Arrive(r) \/ Taken(r) \/ CreateFails(r) \/ FindNone(r) \/ FindExpired(r) \/ FindValid(r)
    PROVE  IInv'
<1>1. /\ req[r] \in Request /\ req[r].pc \in {"new", "create", "find"}
      /\ ~req[r].owned /\ ~req[r].did /\ req[r].answer = "none" /\ ~req[r].ok
  BY DEF IInv, TypeOK, FreshInv, Arrive, Taken, CreateFails, FindNone, FindExpired, FindValid
<1>2. /\ effects \in Nat /\ excuses \in Nat /\ faults' \in 0..MaxFaults
      /\ UNCHANGED <<row, effects, excuses>>
  BY IdempotencyAssumption DEF IInv, TypeOK, Arrive, Taken, CreateFails, FindNone, FindExpired,
     FindValid, Fault, MayFault
<1>3. ASSUME NEW pc \in {"create", "find"}, req' = [req EXCEPT ![r].pc = pc] PROVE IInv'
  <2> DEFINE q == [req[r] EXCEPT !.pc = pc]
  <2>1. /\ q \in Request /\ q.pc = pc /\ q.owned = req[r].owned /\ q.did = req[r].did
        /\ q.ok = req[r].ok /\ q.answer = req[r].answer /\ q.from = req[r].from
    BY <1>1 DEF Request
  <2>2. req' = [req EXCEPT ![r] = q]
    BY <1>3
  <2> HIDE DEF q
  <2>9. Beside(r, q)
    BY <1>1, <1>2, <2>1, <2>2 DEF Beside
  <2> QED
    BY <2>9, AsideKeeps
<1>4. ASSUME NEW answer \in {"error", "reuse", "inProgress", "replay"}, NEW from \in Requests \cup {None},
             Answer(r, answer, from),
             answer = "replay" => from \in Requests /\ from # r /\ req[from].ok /\ Body(from) = Body(r)
      PROVE  IInv'
  <2> DEFINE q == [req[r] EXCEPT !.pc = "done", !.answer = answer, !.from = from]
  <2>1. /\ q \in Request /\ q.pc = "done" /\ q.owned = req[r].owned /\ q.did = req[r].did
        /\ q.ok = req[r].ok /\ q.answer = answer /\ q.from = from
    BY <1>1 DEF Request
  <2>2. req' = [req EXCEPT ![r] = q]
    BY <1>4 DEF Answer
  <2> HIDE DEF q
  <2>9. Beside(r, q)
    BY <1>1, <1>2, <1>4, <2>1, <2>2 DEF Beside
  <2> QED
    BY <2>9, AsideKeeps
<1>5. ASSUME Again(r) PROVE IInv'
  <2>1. ASSUME HasAttempt(r) PROVE IInv'
    <3> DEFINE q == [req[r] EXCEPT !.pc = "create", !.attempt = @ + 1, !.found = None]
    <3>1. req[r].attempt + 1 \in 0..1
      BY <1>1, <2>1 DEF HasAttempt, Request
    <3>2. /\ q \in Request /\ q.pc = "create" /\ q.owned = req[r].owned /\ q.did = req[r].did
          /\ q.ok = req[r].ok /\ q.answer = req[r].answer /\ q.from = req[r].from
      BY <1>1, <3>1 DEF Request
    <3>3. req' = [req EXCEPT ![r] = q]
      BY <1>5, <2>1 DEF Again
    <3> HIDE DEF q
    <3>9. Beside(r, q)
      BY <1>1, <1>2, <3>2, <3>3 DEF Beside
    <3> QED
      BY <3>9, AsideKeeps
  <2>2. ASSUME ~HasAttempt(r) PROVE IInv'
    <3> DEFINE q == [req[r] EXCEPT !.pc = "run", !.found = None]
    <3>1. /\ q \in Request /\ q.pc = "run" /\ q.owned = req[r].owned /\ q.did = req[r].did
          /\ q.ok = req[r].ok /\ q.answer = req[r].answer /\ q.from = req[r].from
      BY <1>1 DEF Request
    <3>2. req' = [req EXCEPT ![r] = q]
      BY <1>5, <2>2 DEF Again
    <3> HIDE DEF q
    <3>9. Beside(r, q)
      BY <1>1, <1>2, <3>1, <3>2 DEF Beside
    <3> QED
      BY <3>9, AsideKeeps
  <2> QED
    BY <2>1, <2>2
<1>6. ASSUME FindExpired(r) PROVE IInv'
  <2> DEFINE q == [req[r] EXCEPT !.pc = "reclaim", !.found = row.by]
  <2>1. row.by \in Requests \cup {None}
    BY DEF IInv, TypeOK, Row
  <2>2. /\ q \in Request /\ q.pc = "reclaim" /\ q.owned = req[r].owned /\ q.did = req[r].did
        /\ q.ok = req[r].ok /\ q.answer = req[r].answer /\ q.from = req[r].from
    BY <1>1, <2>1 DEF Request
  <2>3. req' = [req EXCEPT ![r] = q]
    BY <1>6 DEF FindExpired
  <2> HIDE DEF q
  <2>9. Beside(r, q)
    BY <1>1, <1>2, <2>2, <2>3 DEF Beside
  <2> QED
    BY <2>9, AsideKeeps
<1>7. ASSUME FindValid(r) PROVE IInv'
  <2>1. CASE Answer(r, "reuse", None) \/ Answer(r, "inProgress", None)
    BY <1>4, <2>1
  <2>2. CASE SameBody(r) /\ Stored(r) /\ Answer(r, "replay", row.response)
    <3>1. row.response \in Requests /\ req[row.response].ok /\ Body(row.response) = Body(r)
      BY <2>2 DEF IInv, RowInv, SameBody, Stored
    <3>2. row.response # r
      BY <1>1, <3>1
    <3> QED
      BY <1>4, <2>2, <3>1, <3>2
  <2> QED
    BY <1>7, <2>1, <2>2 DEF FindValid
<1>8. Arrive(r) => IInv'
  BY <1>3 DEF Arrive, Goto
<1>9. Taken(r) => IInv'
  BY <1>3 DEF Taken, Goto
<1>10. CreateFails(r) => IInv'
  BY <1>4 DEF CreateFails
<1>11. FindNone(r) => IInv'
  BY <1>5 DEF FindNone
<1> QED
  BY <1>6, <1>7, <1>8, <1>9, <1>10, <1>11

LEMMA ReserveKeeps == ASSUME IInv, NEW r \in Requests, Reserve(r) PROVE IInv'
<1>1. /\ req[r].pc = "create" /\ ~req[r].did /\ ~req[r].ok /\ req[r].answer = "none"
      /\ row.status = "absent" /\ \A s \in Requests : ~Running(s)
  BY DEF IInv, FreshInv, OneReservation, Reserve, Free
<1>2. /\ row'.status = "pending" /\ row'.by = r /\ row'.expired = FALSE
      /\ req'[r] = [req[r] EXCEPT !.pc = "run", !.owned = TRUE]
      /\ \A s \in Requests : s # r => req'[s] = req[s]
      /\ UNCHANGED <<effects, excuses, faults>>
  BY DEF IInv, TypeOK, Reserve
<1>3. /\ req'[r].pc = "run" /\ req'[r].owned /\ req'[r].did = req[r].did
      /\ req'[r].ok = req[r].ok /\ req'[r].answer = req[r].answer /\ req'[r].from = req[r].from
  BY <1>2 DEF IInv, TypeOK, Request
<1>4. TypeOK'
  <2>1. [req[r] EXCEPT !.pc = "run", !.owned = TRUE] \in Request
    BY DEF IInv, TypeOK, Request
  <2>2. req' \in [Requests -> Request]
    BY <2>1 DEF IInv, TypeOK, Reserve
  <2>3. row' \in Row /\ row'.by # None
    BY IdempotencyAssumption DEF Reserve, Row
  <2> QED
    BY <1>2, <2>2, <2>3 DEF IInv, TypeOK
<1>5. FreshInv'
  <2> SUFFICES ASSUME NEW s \in Requests
               PROVE  /\ req'[s].pc \in {"new", "create", "find", "reclaim"} =>
                            ~req'[s].owned /\ ~req'[s].did /\ req'[s].answer = "none"
                      /\ req'[s].pc \in {"new", "create", "find", "reclaim", "run"} =>
                            ~req'[s].ok /\ ~req'[s].did
                      /\ req'[s].pc = "settle" => req'[s].owned
                      /\ req'[s].ok => req'[s].did
    BY DEF FreshInv
  <2>1. CASE s = r
    BY <1>1, <1>3, <2>1
  <2>2. CASE s # r
    BY <1>2, <2>2 DEF IInv, FreshInv
  <2> QED
    BY <2>1, <2>2
<1>8. RowInv'
  BY <1>1, <1>2, <1>3 DEF RowInv
<1>9. OneReservation'
  BY <1>1, <1>2, <1>3 DEF OneReservation, Running
<1>6. WorthInv'
  BY <1>1, <1>2, <1>3 DEF IInv, WorthInv, Worth, Running
<1>7. ReplaysAreTrue'
  <2>1. \A s \in Requests : req'[s].ok = req[s].ok /\ req'[s].did = req[s].did
                           /\ req'[s].answer = req[s].answer /\ req'[s].from = req[s].from
    BY <1>2, <1>3
  <2> QED
    BY <2>1 DEF IInv, ReplaysAreTrue, Body, TypeOK, Request
<1> QED
  BY <1>4, <1>5, <1>6, <1>7, <1>8, <1>9 DEF IInv

LEMMA HandleKeeps == ASSUME IInv, NEW r \in Requests, Handle(r) PROVE IInv'
<1>1. req[r].pc = "run" /\ req[r] \in Request
  BY DEF IInv, TypeOK, Handle
<1>2. /\ row' = row /\ faults' = faults /\ effects' = effects + 1
      /\ excuses' = IF req[r].owned THEN excuses ELSE excuses + 1
      /\ req'[r] = [req[r] EXCEPT !.pc = "answer", !.did = TRUE, !.ok = TRUE]
      /\ \A s \in Requests : s # r => req'[s] = req[s]
  BY DEF IInv, TypeOK, Handle
<1>3. /\ req'[r].pc = "answer" /\ req'[r].owned = req[r].owned /\ req'[r].did /\ req'[r].ok
      /\ req'[r].answer = req[r].answer /\ req'[r].from = req[r].from
  BY <1>1, <1>2 DEF Request
<1>4. TypeOK'
  <2>1. [req[r] EXCEPT !.pc = "answer", !.did = TRUE, !.ok = TRUE] \in Request
    BY <1>1 DEF Request
  <2>2. req' \in [Requests -> Request]
    BY <2>1 DEF IInv, TypeOK, Handle
  <2>3. effects' \in Nat /\ excuses' \in Nat
    BY <1>2 DEF IInv, TypeOK
  <2> QED
    BY <1>2, <2>2, <2>3 DEF IInv, TypeOK
<1>5. FreshInv'
  <2> SUFFICES ASSUME NEW s \in Requests
               PROVE  /\ req'[s].pc \in {"new", "create", "find", "reclaim"} =>
                            ~req'[s].owned /\ ~req'[s].did /\ req'[s].answer = "none"
                      /\ req'[s].pc \in {"new", "create", "find", "reclaim", "run"} =>
                            ~req'[s].ok /\ ~req'[s].did
                      /\ req'[s].pc = "settle" => req'[s].owned
                      /\ req'[s].ok => req'[s].did
    BY DEF FreshInv
  <2>1. CASE s = r
    BY <1>3, <2>1
  <2>2. CASE s # r
    BY <1>2, <2>2 DEF IInv, FreshInv
  <2> QED
    BY <2>1, <2>2
<1>8. RowInv'
  BY <1>1, <1>2, <1>3 DEF IInv, RowInv
<1>9. OneReservation'
  BY <1>1, <1>2, <1>3 DEF IInv, OneReservation, Running
<1>6. WorthInv'
  <2>1. effects \in Nat /\ excuses \in Nat /\ effects <= excuses + Worth /\ Worth \in {0, 1}
    BY DEF IInv, TypeOK, WorthInv, Worth
  <2>2. ASSUME req[r].owned PROVE Worth = 0 /\ Worth' = 1
    BY <1>1, <1>2, <1>3, <2>2 DEF IInv, OneReservation, FreshInv, Running, Worth
  <2>3. ASSUME ~req[r].owned PROVE Worth' = Worth
    BY <1>1, <1>2, <1>3, <2>3 DEF IInv, RowInv, Worth, Running
  <2>4. CASE req[r].owned
    BY <2>1, <2>2, <2>4, <1>2 DEF WorthInv
  <2>5. CASE ~req[r].owned
    BY <2>1, <2>3, <2>5, <1>2 DEF WorthInv
  <2> QED
    BY <2>4, <2>5
<1>7. ReplaysAreTrue'
  <2>1. \A s \in Requests : /\ req[s].ok => req'[s].ok
                            /\ req[s].did => req'[s].did
                            /\ req'[s].answer = req[s].answer /\ req'[s].from = req[s].from
    BY <1>2, <1>3
  <2>2. \A s \in Requests : req[s].from \in Requests \cup {None}
    BY DEF IInv, TypeOK, Request
  <2>3. ASSUME NEW s \in Requests, req'[s].answer = "replay"
        PROVE  /\ req'[s].from # None /\ req'[req'[s].from].did
               /\ req'[req'[s].from].ok /\ Body(req'[s].from) = Body(s)
    <3>1. /\ req[s].from # None /\ req[req[s].from].did /\ req[req[s].from].ok
          /\ Body(req[s].from) = Body(s)
      BY <2>1, <2>3 DEF IInv, ReplaysAreTrue, Body
    <3>2. req[s].from \in Requests
      BY <2>2, <3>1
    <3>3. req'[s].from = req[s].from
      BY <2>1
    <3>4. req'[req[s].from].did /\ req'[req[s].from].ok
      BY <2>1, <3>1, <3>2
    <3> QED
      BY <3>1, <3>3, <3>4
  <2> QED
    BY <2>3 DEF ReplaysAreTrue, Body
<1> QED
  BY <1>4, <1>5, <1>6, <1>7, <1>8, <1>9 DEF IInv

LEMMA OnwardKeeps ==
    ASSUME IInv, NEW r \in Requests,
           (\E did \in BOOLEAN : HandlerFails(r, did)) \/ Respond(r) \/ SettleFails(r) \/ Crash(r)
    PROVE  IInv'
<1>1. req[r] \in Request /\ effects \in Nat /\ excuses \in Nat
  BY DEF IInv, TypeOK
<1>2. faults' \in 0..MaxFaults /\ row' = row
  BY IdempotencyAssumption DEF IInv, TypeOK, HandlerFails, Respond, SettleFails, Crash, Fault, MayFault
<1>3. ASSUME NEW did \in BOOLEAN, HandlerFails(r, did) PROVE IInv'
  <2> DEFINE q == [req[r] EXCEPT !.pc = "answer", !.did = did]
  <2>1. req[r].pc = "run" /\ ~req[r].ok
    BY <1>3 DEF IInv, FreshInv, HandlerFails
  <2>2. /\ q \in Request /\ q.pc = "answer" /\ q.owned = req[r].owned /\ q.did = did
        /\ q.ok = req[r].ok /\ q.answer = req[r].answer /\ q.from = req[r].from
    BY <1>1 DEF Request
  <2>3. req' = [req EXCEPT ![r] = q]
    BY <1>3 DEF HandlerFails
  <2> HIDE DEF q
  <2>5. ~req[r].did
    BY <2>1 DEF IInv, FreshInv
  <2>6. \/ effects' = effects /\ excuses' = excuses
        \/ effects' = effects + 1 /\ excuses' = excuses + 1
    BY <1>3 DEF HandlerFails
  <2>9. Beside(r, q)
    BY <1>2, <2>1, <2>2, <2>3, <2>5, <2>6 DEF Beside, Running
  <2> QED
    BY <2>9, AsideKeeps
<1>4. ASSUME Respond(r) PROVE IInv'
  <2> DEFINE q == [req[r] EXCEPT !.pc = IF HooksResponse(r) THEN "settle" ELSE "done",
                                 !.answer = IF req[r].ok THEN "own" ELSE "error"]
  <2>1. req[r].pc = "answer"
    BY <1>4 DEF Respond
  <2>2. /\ q \in Request /\ q.pc = (IF req[r].owned THEN "settle" ELSE "done")
        /\ q.owned = req[r].owned /\ q.did = req[r].did
        /\ q.ok = req[r].ok /\ q.answer # "replay"
    BY <1>1 DEF Request, HooksResponse
  <2>3. req' = [req EXCEPT ![r] = q] /\ UNCHANGED <<effects, excuses>>
    BY <1>4 DEF Respond
  <2> HIDE DEF q
  <2>9. Beside(r, q)
    BY <1>1, <1>2, <2>1, <2>2, <2>3 DEF Beside, Running
  <2> QED
    BY <2>9, AsideKeeps
<1>5. ASSUME SettleFails(r) \/ Crash(r) PROVE IInv'
  <2> DEFINE q == [req[r] EXCEPT !.pc = "done"]
  <2>1. /\ q \in Request /\ q.pc = "done" /\ q.owned = req[r].owned /\ q.did = req[r].did
        /\ q.ok = req[r].ok /\ q.answer = req[r].answer /\ q.from = req[r].from
    BY <1>1 DEF Request
  <2>2. req' = [req EXCEPT ![r] = q] /\ UNCHANGED <<effects, excuses>>
    BY <1>5 DEF SettleFails, Crash, Goto
  <2> HIDE DEF q
  <2>9. Beside(r, q)
    BY <1>1, <1>2, <2>1, <2>2 DEF Beside
  <2> QED
    BY <2>9, AsideKeeps
<1> QED
  BY <1>3, <1>4, <1>5

\* The row's own request settles it.
LEMMA SettleKeeps == ASSUME IInv, NEW r \in Requests, Store(r) \/ Release(r) PROVE IInv'
<1>1. /\ req[r].pc = "settle" /\ req[r] \in Request /\ row \in Row
      /\ req'[r] = [req[r] EXCEPT !.pc = "done"]
      /\ \A s \in Requests : s # r => req'[s] = req[s]
      /\ UNCHANGED <<effects, excuses, faults>>
  BY DEF IInv, TypeOK, Store, Release, Goto
<1>2. /\ req'[r].pc = "done" /\ req'[r].owned = req[r].owned /\ req'[r].did = req[r].did
      /\ req'[r].ok = req[r].ok /\ req'[r].answer = req[r].answer /\ req'[r].from = req[r].from
  BY <1>1 DEF Request
<1>3. req[r].owned
  BY <1>1 DEF IInv, FreshInv
<1>4. row.by = r /\ row.status = "pending" /\ ~row.expired /\ \A s \in Requests : Running(s) => s = r
  BY <1>1, <1>3 DEF IInv, OneReservation, Running
<1>5. \/ row'.status = "completed" /\ row'.by = r /\ row'.response = r /\ row'.expired = FALSE /\ req[r].ok
      \/ row' = NoRow /\ ~req[r].ok
  BY <1>1, <1>4 DEF Store, Release, IsPending, Row
<1>6. TypeOK'
  <2>1. req' \in [Requests -> Request]
    BY DEF IInv, TypeOK, Store, Release, Goto, Request
  <2>2. CASE Store(r)
    <3>1. row' = [row EXCEPT !.status = "completed", !.response = r]
      BY <1>4, <2>2 DEF Store, IsPending
    <3>2. row' \in Row /\ row'.status # "absent" /\ row'.by # None
      BY <1>1, <1>4, <3>1, IdempotencyAssumption DEF Row
    <3> QED
      BY <1>1, <2>1, <3>2 DEF IInv, TypeOK
  <2>3. CASE Release(r)
    <3>1. row' = NoRow
      BY <1>4, <2>3 DEF Release, IsPending
    <3>2. row' \in Row /\ row'.status = "absent" /\ row'.by = None
      BY <3>1 DEF Row, NoRow
    <3> QED
      BY <1>1, <2>1, <3>2 DEF IInv, TypeOK
  <2> QED
    BY <2>2, <2>3
<1>7. FreshInv'
  BY <1>1, <1>2 DEF IInv, FreshInv
<1>8. RowInv' /\ OneReservation'
  <2>1. \A s \in Requests : Running(s)' => FALSE
    BY <1>1, <1>2, <1>4 DEF Running
  <2>2. OneReservation'
    BY <2>1 DEF OneReservation
  <2>3. ASSUME row' = NoRow PROVE RowInv'
    <3>1. row'.status = "absent"
      BY <2>3 DEF NoRow
    <3> QED
      BY <3>1 DEF RowInv
  <2>4. ASSUME row'.status = "completed", row'.by = r, row'.response = r,
               row'.expired = FALSE, req[r].ok
        PROVE  RowInv'
    <3>1. row'.by \in Requests /\ req'[row'.by].owned /\ req'[row'.by].pc = "done" /\ req'[row'.by].ok
      BY <1>2, <1>3, <2>4
    <3> QED
      BY <2>4, <3>1 DEF RowInv
  <2>5. RowInv'
    BY <1>5, <2>3, <2>4
  <2> QED
    BY <2>2, <2>5
<1>9. WorthInv'
  <2>1. effects \in Nat /\ excuses \in Nat /\ effects <= excuses + Worth
    BY DEF IInv, TypeOK, WorthInv
  <2>2. ~req[r].ok => Worth = 0
    BY <1>1, <1>3, <1>4 DEF Worth, Running
  <2>3. Worth \in {0, 1}
    BY DEF Worth
  <2>4. IF req[r].ok THEN Worth' = 1 ELSE Worth' = 0
    BY <1>5 DEF Worth, NoRow
  <2> QED
    BY <1>1, <2>1, <2>2, <2>3, <2>4 DEF WorthInv
<1>10. ReplaysAreTrue'
  <2>1. \A s \in Requests : req'[s].ok = req[s].ok /\ req'[s].did = req[s].did
                           /\ req'[s].answer = req[s].answer /\ req'[s].from = req[s].from
    BY <1>1, <1>2
  <2> QED
    BY <2>1 DEF IInv, ReplaysAreTrue, Body, TypeOK, Request
<1> QED
  BY <1>6, <1>7, <1>8, <1>9, <1>10 DEF IInv

LEMMA ReclaimKeeps == ASSUME IInv, NEW r \in Requests, Reclaim(r) PROVE IInv'
<1>1. /\ req[r].pc = "reclaim" /\ req[r] \in Request /\ ~req[r].owned /\ ~req[r].did
      /\ ~req[r].ok /\ req[r].answer = "none"
  BY DEF IInv, TypeOK, FreshInv, Reclaim
<1>2. \E q \in Request : /\ req' = [req EXCEPT ![r] = q]
                         /\ q.pc \in {"create", "run"} /\ ~q.owned /\ ~q.did /\ ~q.ok /\ q.answer = "none"
  <2>1. ASSUME HasAttempt(r)
        PROVE  [req[r] EXCEPT !.pc = "create", !.attempt = @ + 1, !.found = None] \in Request
    <3>1. req[r].attempt + 1 \in 0..1
      BY <1>1, <2>1 DEF HasAttempt, Request
    <3> QED
      BY <1>1, <3>1 DEF Request
  <2>2. [req[r] EXCEPT !.pc = "run", !.found = None] \in Request
    BY <1>1 DEF Request
  <2>3. CASE HasAttempt(r)
    <3> DEFINE q == [req[r] EXCEPT !.pc = "create", !.attempt = @ + 1, !.found = None]
    <3>1. req' = [req EXCEPT ![r] = q] /\ q \in Request
      BY <2>1, <2>3 DEF Reclaim, Again
    <3>2. q.pc = "create" /\ ~q.owned /\ ~q.did /\ ~q.ok /\ q.answer = "none"
      BY <1>1 DEF Request
    <3> QED
      BY <3>1, <3>2
  <2>4. CASE ~HasAttempt(r)
    <3> DEFINE q == [req[r] EXCEPT !.pc = "run", !.found = None]
    <3>1. req' = [req EXCEPT ![r] = q] /\ q \in Request
      BY <2>2, <2>4 DEF Reclaim, Again
    <3>2. q.pc = "run" /\ ~q.owned /\ ~q.did /\ ~q.ok /\ q.answer = "none"
      BY <1>1 DEF Request
    <3> QED
      BY <3>1, <3>2
  <2> QED
    BY <2>3, <2>4
<1>3. PICK q \in Request : /\ req' = [req EXCEPT ![r] = q]
                          /\ q.pc \in {"create", "run"} /\ ~q.owned /\ ~q.did /\ ~q.ok /\ q.answer = "none"
  BY <1>2
<1>4. CASE row.by = req[r].found /\ row.expired
  <2>1. row' = NoRow /\ excuses' = excuses + 1 /\ UNCHANGED <<effects, faults>>
    BY <1>4 DEF Reclaim
  <2>2. req'[r] = q /\ \A s \in Requests : s # r => req'[s] = req[s]
    BY <1>3 DEF IInv, TypeOK
  <2>3. \A s \in Requests : ~Running(s)
    BY <1>4 DEF IInv, OneReservation
  <2>4. TypeOK'
    BY <1>3, <2>1 DEF IInv, TypeOK, NoRow, Row
  <2>5. FreshInv' /\ RowInv' /\ OneReservation'
    BY <1>3, <2>1, <2>2, <2>3 DEF IInv, FreshInv, RowInv, OneReservation, Running, NoRow
  <2>6. WorthInv'
    <3>1. effects \in Nat /\ excuses \in Nat /\ effects <= excuses + 1
      BY DEF IInv, TypeOK, WorthInv, Worth
    <3>2. Worth' = 0
      BY <2>1 DEF Worth, NoRow
    <3> QED
      BY <2>1, <3>1, <3>2 DEF WorthInv
  <2>7. ReplaysAreTrue'
    <3>1. \A s \in Requests : /\ req[s].ok => req'[s].ok
                              /\ req[s].did => req'[s].did
                              /\ req'[s].answer = "replay" => req[s].answer = "replay" /\ req'[s].from = req[s].from
      BY <1>1, <1>3, <2>2
    <3>2. \A s \in Requests : req[s].from \in Requests \cup {None}
      BY DEF IInv, TypeOK, Request
    <3>3. ASSUME NEW s \in Requests, req'[s].answer = "replay"
          PROVE  /\ req'[s].from # None /\ req'[req'[s].from].did
                 /\ req'[req'[s].from].ok /\ Body(req'[s].from) = Body(s)
      <4>1. /\ req[s].from # None /\ req[req[s].from].did /\ req[req[s].from].ok
            /\ Body(req[s].from) = Body(s)
        BY <3>1, <3>3 DEF IInv, ReplaysAreTrue, Body
      <4>2. req[s].from \in Requests
        BY <3>2, <4>1
      <4>3. req'[s].from = req[s].from
        BY <3>1, <3>3
      <4>4. req'[req[s].from].did /\ req'[req[s].from].ok
        BY <3>1, <4>1, <4>2
      <4> QED
        BY <4>1, <4>3, <4>4
    <3> QED
      BY <3>3 DEF ReplaysAreTrue, Body
  <2> QED
    BY <2>4, <2>5, <2>6, <2>7 DEF IInv
<1>5. CASE ~(row.by = req[r].found /\ row.expired)
  <2>1. UNCHANGED <<row, effects, excuses, faults>>
    BY <1>5 DEF Reclaim
  <2>2. effects \in Nat /\ excuses \in Nat /\ faults \in 0..MaxFaults
    BY DEF IInv, TypeOK
  <2>3. q.owned = req[r].owned /\ q.ok = req[r].ok
    BY <1>1, <1>3 DEF Request
  <2>9. Beside(r, q)
    BY <1>1, <1>3, <2>1, <2>2, <2>3 DEF Beside
  <2> QED
    BY <2>9, AsideKeeps
<1> QED
  BY <1>4, <1>5

LEMMA ExpireKeeps == ASSUME IInv, Expire PROVE IInv'
<1>1. /\ row'.status = row.status /\ row'.by = row.by /\ row'.response = row.response
      /\ row'.expired = TRUE /\ row.status # "absent" /\ req[row.by].pc = "done"
      /\ UNCHANGED <<req, effects, excuses, faults>>
  BY DEF IInv, TypeOK, Expire, Row
<1>2. TypeOK'
  BY <1>1 DEF IInv, TypeOK, Expire, Row
<1>3. FreshInv' /\ RowInv' /\ OneReservation' /\ WorthInv' /\ ReplaysAreTrue'
  BY <1>1 DEF IInv, FreshInv, RowInv, OneReservation, WorthInv, Worth, ReplaysAreTrue, Running, Body
<1> QED
  BY <1>2, <1>3 DEF IInv

LEMMA StepInvariant == IInv /\ [Next]_vars => IInv'
<1> SUFFICES ASSUME IInv, [Next]_vars PROVE IInv'
  OBVIOUS
<1>1. ASSUME NEW r \in Requests,
             \/ Arrive(r) \/ Reserve(r) \/ Taken(r) \/ CreateFails(r)
             \/ FindNone(r) \/ FindExpired(r) \/ FindValid(r) \/ Reclaim(r)
             \/ Handle(r) \/ Respond(r) \/ Store(r) \/ Release(r)
             \/ SettleFails(r) \/ Crash(r)
             \/ \E did \in BOOLEAN : HandlerFails(r, did)
      PROVE  IInv'
  BY <1>1, LookKeeps, ReserveKeeps, HandleKeeps, OnwardKeeps, SettleKeeps, ReclaimKeeps
<1>2. CASE Expire
  BY <1>2, ExpireKeeps
<1>3. CASE UNCHANGED vars
  BY <1>3 DEF vars, IInv, TypeOK, FreshInv, RowInv, OneReservation, WorthInv, Worth,
              ReplaysAreTrue, Running, Body
<1> QED
  BY <1>1, <1>2, <1>3 DEF Next

\* The invariant holds in every reachable state.
THEOREM Invariant == Spec => []IInv
  BY InitInvariant, StepInvariant, PTL DEF Spec

\* Every variable stays in its type.
THEOREM TypeCorrect == Spec => []TypeOK
<1>1. IInv => TypeOK
  BY DEF IInv
<1> QED
  BY <1>1, Invariant, PTL

\* The key is one request's from its reservation to its settlement, however many
\* retries there are.
THEOREM OneAtATime == Spec => []OneReservation
<1>1. IInv => OneReservation
  BY DEF IInv
<1> QED
  BY <1>1, Invariant, PTL

\* More than one effect takes a failure after the effect, an expiry or a request
\* that went ahead unprotected.
THEOREM RerunsExplained == Spec => []RerunsAreExplained
<1>1. IInv => RerunsAreExplained
  BY DEF IInv, TypeOK, WorthInv, Worth, RerunsAreExplained
<1> QED
  BY <1>1, Invariant, PTL

\* A replayed answer is that of a run with the same body whose effect was
\* committed.
THEOREM ReplaysTrue == Spec => []ReplaysAreTrue
<1>1. IInv => ReplaysAreTrue
  BY DEF IInv
<1> QED
  BY <1>1, Invariant, PTL
==============================================================================
