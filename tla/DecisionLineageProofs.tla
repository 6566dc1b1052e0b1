---------------------- MODULE DecisionLineageProofs ----------------------
(***************************************************************************)
(* Proofs about DecisionLineage for every number of requests, cases,       *)
(* people and stamps.                                                      *)
(*                                                                         *)
(* The argument.  A transaction that rules on a case has passed the guard  *)
(* and holds the submission's row lock until it commits.  Every other      *)
(* action that writes a case waits for that lock, so the guard is still    *)
(* true at the commit: the case is live, hence without a ruling, and its   *)
(* handler may still act.                                                  *)
(***************************************************************************)
EXTENDS SerialLineage, WellFoundedInduction, TLAPS

------------------------------------------------------------------------------
(* The inductive invariant, in parts.                                       *)

Decided(s) == \E d \in decisions : d.sub = s

\* A case is about a submission that has a decision; ids are given out in order.
CasesInv ==
    \A c \in Cases : /\ case[c].status # "ABSENT" => case[c].sub \in Stamps /\ Decided(case[c].sub)
                     /\ c > lastCase => case[c].status = "ABSENT"

Writing(r) == request[r].pc \in {"ruling", "judging"}

\* What a request carries from one database step to the next.
InFlight(q) ==
    /\ q.pc \in {"claim", "rule", "ruling"} =>
           q.case \in Cases /\ q.by \in People /\ case[q.case].status # "ABSENT"
    /\ q.pc \in {"rule", "ruling"} =>
           /\ q.sub \in Stamps /\ q.at \in Stamps
           /\ q.verdict \in {"pass", "fail"}
           /\ case[q.case].sub = q.sub
    /\ q.pc = "ruling" => Guarded(q.by, q.case)
    /\ q.pc = "judging" => q.sub \in Stamps /\ q.at \in Stamps /\ q.verdict # "none"
    /\ q.pc = "notify" => q.at \in Stamps
    /\ q.pc = "appeal" => q.sub \in Stamps /\ Decided(q.sub)
    /\ q.pc \in {"reviews", "appeals"} => q.sub \in Stamps

RequestsInv == \A r \in Requests : InFlight(request[r])

\* The row lock: one transaction at a time writes a submission.
OneWriter ==
    \A r, q \in Requests : Writing(r) /\ Writing(q) /\ request[r].sub = request[q].sub => r = q

IInv == TypeOK /\ CasesInv /\ RequestsInv /\ OneWriter /\ RulingIsWhole

------------------------------------------------------------------------------
LEMMA InitInvariant == Init => IInv
<1>1. SUFFICES ASSUME Init PROVE IInv
  OBVIOUS
<1>2. Idle \in Request
  BY DEF Idle, Request, Moment
<1>3. NoRow \in CaseRow
  BY DEF NoRow, CaseRow, Moment, CaseStatus
<1>4. TypeOK
  BY <1>1, <1>2, <1>3 DEF Init, TypeOK, SubmissionStatus, NoCert, Moment
<1>5. CasesInv
  BY <1>1 DEF Init, CasesInv, NoRow
<1>6. RequestsInv /\ OneWriter
  BY <1>1 DEF Init, RequestsInv, InFlight, Idle, OneWriter, Writing
<1>7. RulingIsWhole
  BY <1>1 DEF Init, RulingIsWhole, NoRow
<1>8. QED
  BY <1>4, <1>5, <1>6, <1>7 DEF IInv

\* A step that moves one request and writes nothing the others can see.
LEMMA RequestMove ==
    ASSUME IInv, NEW r \in Requests, NEW q \in Request,
           request' = [request EXCEPT ![r] = q],
           UNCHANGED <<status, decisions, case, cert, outbox, lastCase>>,
           clock' \in Nat,
           InFlight(q),
           q.pc \in {"ruling", "judging"} => ~Locked(q.sub)
    PROVE  IInv'
<1>1. TypeOK'
  BY DEF IInv, TypeOK
<1>2. CasesInv'
  BY DEF IInv, CasesInv, Decided
<1>3. \A x \in Requests : request'[x] = IF x = r THEN q ELSE request[x]
  BY DEF IInv, TypeOK
<1>4. RequestsInv'
  BY <1>3 DEF IInv, RequestsInv, InFlight, Guarded, Decided
<1>5. OneWriter'
  BY <1>3 DEF IInv, OneWriter, Writing, Locked
<1>6. RulingIsWhole'
  BY DEF IInv, RulingIsWhole
<1>7. QED
  BY <1>1, <1>2, <1>4, <1>5, <1>6 DEF IInv

LEMMA IdleKeeps ==
    ASSUME IInv, NEW r \in Requests, request' = [request EXCEPT ![r] = Idle],
           UNCHANGED <<status, decisions, case, cert, outbox, lastCase>>, clock' \in Nat
    PROVE  IInv'
<1>1. Idle \in Request
  BY DEF Idle, Request, Moment
<1>2. InFlight(Idle) /\ Idle.pc = "idle"
  BY DEF InFlight, Idle
<1>3. QED
  BY <1>1, <1>2, RequestMove

------------------------------------------------------------------------------
(* The newest of some decisions exists: their moments are bounded.          *)
LEMMA NewestExists ==
    ASSUME TypeOK, NEW ds, ds \subseteq decisions, ds # {}
    PROVE  Newest(ds) \in ds /\ \A e \in ds : e.at <= Newest(ds).at
<1> DEFINE R == OpToRel(<, Nat)
           T == {MaxClock - d.at : d \in ds}
<1>1. \A d \in ds : d.at \in Stamps
  BY DEF TypeOK, Decision
<1>2. T \subseteq Nat /\ T # {}
  BY <1>1, LineageAssumption DEF Stamps
<1>3. \E x \in T : \A y \in T : ~(<<y, x>> \in R)
  <2>1. IsWellFoundedOn(R, Nat)
    BY NatLessThanWellFounded
  <2> HIDE DEF R, T
  <2>2. QED
    BY <2>1, <1>2, WFMin
<1>4. PICK d \in ds : \A y \in T : ~(<<y, MaxClock - d.at>> \in R)
  BY <1>3
<1>5. \A e \in ds : e.at <= d.at
  <2>1. SUFFICES ASSUME NEW e \in ds, ~(e.at <= d.at) PROVE FALSE
    OBVIOUS
  <2>2. MaxClock - e.at < MaxClock - d.at /\ MaxClock - e.at \in T /\ MaxClock - d.at \in Nat
    BY <2>1, <1>1, <1>2, LineageAssumption DEF Stamps
  <2>3. <<MaxClock - e.at, MaxClock - d.at>> \in R
    BY <2>2, <1>2 DEF OpToRel
  <2>4. QED
    BY <2>2, <2>3, <1>4
<1>6. \E x \in ds : \A e \in ds : e.at <= x.at
  BY <1>5
<1>7. QED
  BY <1>6 DEF Newest

LEMMA ParentExists ==
    ASSUME TypeOK, NEW s \in Stamps, Decided(s)
    PROVE  /\ ParentOf(s) \in Stamps
           /\ \E d \in decisions : d.at = ParentOf(s) /\ d.sub = s
<1>1. Of(s) \subseteq decisions
  BY DEF Of
<1>2. Newest(Of(s)) \in Of(s)
  <2>1. Of(s) # {}
    BY DEF Of, Decided
  <2>2. QED
    BY <1>1, <2>1, NewestExists
<1>3. QED
  BY <1>2 DEF Of, ParentOf, TypeOK, Decision

------------------------------------------------------------------------------
(* One lemma per action.                                                    *)

LEMMA ClaimReadKeeps ==
    ASSUME IInv, NEW r \in Requests, NEW p \in People, NEW c \in Cases, ClaimRead(r, p, c)
    PROVE  IInv'
<1> DEFINE q == [Idle EXCEPT !.pc = "claim", !.by = p, !.case = c]
<1>1. q \in Request
  BY DEF Idle, Request, Moment
<1>2. InFlight(q) /\ q.pc = "claim"
  BY DEF InFlight, Idle, ClaimRead, Live
<1>3. QED
  BY <1>1, <1>2, RequestMove DEF ClaimRead, OnlyRequest, IInv, TypeOK

LEMMA RuleReadKeeps ==
    ASSUME IInv, NEW r \in Requests, NEW p \in People, NEW c \in Cases, RuleRead(r, p, c)
    PROVE  IInv'
<1>1. PICK v \in {"pass", "fail"} :
          request' = [request EXCEPT ![r] =
              [Idle EXCEPT !.pc = "rule", !.by = p, !.case = c, !.sub = case[c].sub,
                           !.at = Now, !.parent = ParentOf(case[c].sub), !.verdict = v]]
  BY DEF RuleRead
<1> DEFINE q == [Idle EXCEPT !.pc = "rule", !.by = p, !.case = c, !.sub = case[c].sub,
                             !.at = Now, !.parent = ParentOf(case[c].sub), !.verdict = v]
<1>2. case[c].status # "ABSENT" /\ case[c].sub \in Stamps /\ Decided(case[c].sub)
  BY DEF RuleRead, Live, IInv, CasesInv
<1>3. ParentOf(case[c].sub) \in Stamps
  BY <1>2, ParentExists DEF IInv
<1>4. Now \in Stamps /\ Now \in Nat
  BY DEF RuleRead, Tick, Now, IInv, TypeOK
<1>5. q \in Request
  BY <1>2, <1>3, <1>4 DEF Idle, Request, Moment
<1>6. InFlight(q) /\ q.pc = "rule"
  BY <1>2, <1>4 DEF InFlight, Idle
<1>7. QED
  BY <1>1, <1>4, <1>5, <1>6, RequestMove DEF RuleRead, Tick

LEMMA RuleOpenKeeps ==
    ASSUME IInv, NEW r \in Requests, RuleOpen(r)
    PROVE  IInv'
<1> DEFINE u == Upsert(request[r].sub, request[r].verdict)
           q == [request[r] EXCEPT !.pc = "ruling", !.upsert = u]
<1>1. request[r] \in Request /\ request[r].pc = "rule"
  BY DEF RuleOpen, IInv, TypeOK
<1>2. u \in {"write", "skip"}
  BY DEF Upsert
<1>3. q \in Request
  BY <1>1, <1>2 DEF Request
<1>4. /\ q.pc = "ruling" /\ q.case = request[r].case /\ q.by = request[r].by
      /\ q.sub = request[r].sub /\ q.at = request[r].at /\ q.verdict = request[r].verdict
  BY <1>1 DEF Request
<1>5. InFlight(q)
  <2>1. InFlight(request[r])
    BY DEF IInv, RequestsInv
  <2>2. Guarded(request[r].by, request[r].case)
    BY DEF RuleOpen
  <2> HIDE DEF q
  <2>3. QED
    BY <1>1, <1>4, <2>1, <2>2 DEF InFlight
<1>6. request' = [request EXCEPT ![r] = q]
  BY <1>1 DEF RuleOpen
<1>7. ~Locked(q.sub)
  BY <1>4 DEF RuleOpen
<1> HIDE DEF q
<1>8. QED
  BY <1>3, <1>5, <1>6, <1>7, RequestMove DEF RuleOpen, OnlyRequest, IInv, TypeOK

LEMMA AppealReadKeeps ==
    ASSUME IInv, NEW r \in Requests, NEW s \in Stamps, AppealRead(r, s)
    PROVE  IInv'
<1> DEFINE q == [Idle EXCEPT !.pc = "appeal", !.sub = s]
<1>1. q \in Request
  BY DEF Idle, Request, Moment
<1>2. InFlight(q) /\ q.pc = "appeal"
  BY DEF InFlight, Idle, AppealRead, Of, Decided
<1>3. QED
  BY <1>1, <1>2, RequestMove DEF AppealRead, OnlyRequest, IInv, TypeOK

LEMMA JudgeOpenKeeps ==
    ASSUME IInv, NEW r \in Requests, NEW s \in Stamps, JudgeOpen(r, s)
    PROVE  IInv'
<1>1. PICK v \in {"pass", "fail", "review"} :
          request' = [request EXCEPT ![r] =
              [Idle EXCEPT !.pc = "judging", !.sub = s, !.at = Now, !.verdict = v,
                           !.upsert = Upsert(s, v)]]
  BY DEF JudgeOpen
<1> DEFINE q == [Idle EXCEPT !.pc = "judging", !.sub = s, !.at = Now, !.verdict = v,
                             !.upsert = Upsert(s, v)]
<1>2. Upsert(s, v) \in {"write", "skip"}
  BY DEF Upsert
<1>3. Now \in Stamps /\ Now \in Nat
  BY DEF JudgeOpen, Tick, Now, IInv, TypeOK
<1>4. q \in Request
  BY <1>2, <1>3 DEF Idle, Request, Moment
<1>5. InFlight(q) /\ q.pc = "judging" /\ q.sub = s
  BY <1>3 DEF InFlight, Idle
<1>6. ~Locked(q.sub)
  BY <1>5 DEF JudgeOpen
<1> HIDE DEF q
<1>7. request' = [request EXCEPT ![r] = q]
  BY <1>1 DEF q
<1>8. QED
  BY <1>3, <1>4, <1>5, <1>6, <1>7, RequestMove DEF JudgeOpen, Tick

LEMMA SubmitReadKeeps ==
    ASSUME IInv, NEW r \in Requests, SubmitRead(r)
    PROVE  IInv'
<1> DEFINE q == [Idle EXCEPT !.pc = "reviews", !.sub = Now, !.found = LiveOf("review")]
<1>1. Now \in Stamps /\ Now \in Nat
  BY DEF SubmitRead, Tick, Now, IInv, TypeOK
<1>2. q \in Request
  BY <1>1 DEF Idle, Request, Moment, LiveOf
<1>3. InFlight(q) /\ q.pc = "reviews"
  BY <1>1 DEF InFlight, Idle
<1>4. QED
  BY <1>1, <1>2, <1>3, RequestMove DEF SubmitRead, Tick

LEMMA SubmitReadAppealsKeeps ==
    ASSUME IInv, NEW r \in Requests, SubmitReadAppeals(r)
    PROVE  IInv'
<1> DEFINE f == request[r].found \cup LiveOf("appeal")
           q == [request[r] EXCEPT !.pc = "appeals", !.found = f]
<1>1. request[r] \in Request /\ request[r].pc = "reviews"
  BY DEF SubmitReadAppeals, IInv, TypeOK
<1>2. f \in SUBSET Cases
  BY <1>1 DEF Request, LiveOf
<1>3. q \in Request /\ q.pc = "appeals" /\ q.sub = request[r].sub
  BY <1>1, <1>2 DEF Request
<1>4. InFlight(request[r])
  BY DEF IInv, RequestsInv
<1>5. request' = [request EXCEPT ![r] = q]
  BY <1>1 DEF SubmitReadAppeals
<1> HIDE DEF q
<1>6. InFlight(q)
  BY <1>1, <1>3, <1>4 DEF InFlight
<1>7. QED
  BY <1>3, <1>5, <1>6, RequestMove DEF SubmitReadAppeals, OnlyRequest, IInv, TypeOK

LEMMA NotifyKeeps ==
    ASSUME IInv, NEW r \in Requests, Notify(r)
    PROVE  IInv'
<1>1. Idle \in Request /\ Idle.pc = "idle"
  BY DEF Idle, Request, Moment
<1>2. request[r].at \in Stamps
  BY DEF Notify, IInv, RequestsInv, InFlight
<1>3. outbox \subseteq outbox' /\ outbox' \subseteq Event
  BY <1>2 DEF Notify, IInv, TypeOK, Event
<1>4. TypeOK'
  BY <1>1, <1>3 DEF IInv, TypeOK, Notify
<1>5. CasesInv'
  BY DEF IInv, CasesInv, Notify, Decided
<1>6. \A x \in Requests : request'[x] = IF x = r THEN Idle ELSE request[x]
  BY DEF IInv, TypeOK, Notify
<1>7. RequestsInv'
  BY <1>1, <1>6 DEF IInv, RequestsInv, InFlight, Guarded, Decided, Notify
<1>8. OneWriter'
  BY <1>1, <1>6 DEF IInv, OneWriter, Writing
<1>9. RulingIsWhole'
  BY <1>3 DEF IInv, RulingIsWhole, Notify
<1>10. QED
  BY <1>4, <1>5, <1>7, <1>8, <1>9 DEF IInv

\* The row a claim or a ruling writes, and the rows it leaves alone.
LEMMA ClaimKeeps ==
    ASSUME IInv, NEW r \in Requests, Claim(r)
    PROVE  IInv'
<1> DEFINE c == request[r].case
           p == request[r].by
<1>1. c \in Cases /\ p \in People /\ case[c].status # "ABSENT" /\ case[c] \in CaseRow
  BY DEF Claim, IInv, RequestsInv, InFlight, TypeOK
<1>2. case' = [case EXCEPT ![c].status = "IN_REVIEW", ![c].handler = p]
  BY DEF Claim
<1> HIDE DEF c, p
<1>3. /\ \A x \in Cases : x # c => case'[x] = case[x]
      /\ case'[c].sub = case[c].sub /\ case'[c].kind = case[c].kind
      /\ case'[c].status = "IN_REVIEW" /\ case'[c].handler = p
  BY <1>1, <1>2 DEF IInv, TypeOK, CaseRow
<1>4. case' \in [Cases -> CaseRow]
  BY <1>1, <1>2 DEF IInv, TypeOK, CaseRow, CaseStatus
<1>5. Idle \in Request /\ Idle.pc = "idle"
  BY DEF Idle, Request, Moment
<1>6. TypeOK'
  BY <1>4, <1>5 DEF IInv, TypeOK, Claim
<1>7. CasesInv'
  <2>1. decisions' = decisions /\ lastCase' = lastCase
    BY DEF Claim
  <2>2. QED
    BY <1>1, <1>3, <2>1 DEF IInv, CasesInv, Decided
<1>8. \A x \in Requests : request'[x] = IF x = r THEN Idle ELSE request[x]
  BY DEF IInv, TypeOK, Claim
<1>9. \A x \in Requests : request[x].pc = "ruling" => request[x].case # c
  <2>1. ~Locked(case[c].sub)
    BY DEF Claim, c
  <2>2. QED
    BY <2>1 DEF Locked, IInv, RequestsInv, InFlight
<1>10. RequestsInv'
  <2>1. SUFFICES ASSUME NEW x \in Requests, x # r PROVE InFlight(request[x])'
    BY <1>5, <1>8 DEF RequestsInv, InFlight
  <2>2. InFlight(request[x]) /\ request'[x] = request[x]
    BY <1>8, <2>1 DEF IInv, RequestsInv
  <2>3. UNCHANGED decisions
    BY DEF Claim
  <2>4. QED
    BY <1>1, <1>3, <1>9, <2>2, <2>3 DEF InFlight, Guarded, Decided
<1>11. OneWriter'
  BY <1>5, <1>8 DEF IInv, OneWriter, Writing
<1>12. RulingIsWhole'
  <2>1. case[c].status # "RESOLVED"
    BY DEF Claim, c, Guarded, Live
  <2>2. decisions' = decisions /\ outbox' = outbox
    BY DEF Claim
  <2>3. \A x \in Cases : case'[x].status = "RESOLVED" <=> case[x].status = "RESOLVED"
    BY <1>1, <1>3, <2>1
  <2>4. QED
    BY <2>2, <2>3 DEF IInv, RulingIsWhole
<1>13. QED
  BY <1>6, <1>7, <1>10, <1>11, <1>12 DEF IInv

LEMMA RuleCommitKeeps ==
    ASSUME IInv, NEW r \in Requests, RuleCommit(r)
    PROVE  IInv'
<1> DEFINE q == request[r]
           d == [at |-> q.at, sub |-> q.sub, parent |-> q.parent,
                 verdict |-> q.verdict, case |-> q.case]
           n == [Idle EXCEPT !.pc = "notify", !.at = q.at]
<1>1. /\ q \in Request /\ q.pc = "ruling" /\ q.case \in Cases /\ q.by \in People
      /\ q.sub \in Stamps /\ q.at \in Stamps /\ q.verdict \in {"pass", "fail"}
      /\ case[q.case].sub = q.sub /\ case[q.case].status \in Live
  BY DEF RuleCommit, IInv, RequestsInv, InFlight, TypeOK, Guarded
<1>2. d \in Decision /\ n \in Request /\ n.pc = "notify" /\ n.at = q.at
  BY <1>1 DEF Decision, Request, Idle, Moment
<1>3. /\ case' = [case EXCEPT ![q.case].status = "RESOLVED", ![q.case].handler = q.by]
      /\ decisions' = decisions \cup {d}
      /\ request' = [request EXCEPT ![r] = n]
      /\ outbox' = outbox \cup {[decision |-> q.at, type |-> "courseCompletionCheck"]}
      /\ status' = [status EXCEPT ![q.sub] = "COMPLETED"]
      /\ cert' = Certified(q.at, q.verdict, q.upsert)
      /\ UNCHANGED <<lastCase, clock>>
  BY DEF RuleCommit
<1>4. d.case = q.case /\ d.sub = q.sub /\ d.at = q.at
  OBVIOUS
<1> HIDE DEF q, d, n
<1>5. /\ \A x \in Cases : x # q.case => case'[x] = case[x]
      /\ case'[q.case].sub = case[q.case].sub /\ case'[q.case].status = "RESOLVED"
  BY <1>1, <1>3 DEF IInv, TypeOK, CaseRow
<1>6. TypeOK'
  <2>1. case' \in [Cases -> CaseRow]
    BY <1>1, <1>3 DEF IInv, TypeOK, CaseRow, CaseStatus
  <2>2. cert' \in [status : {"NONE", "ACTIVE", "NOT_CERTIFIED"}, decision : Moment, passedAt : Moment]
    BY <1>1, <1>3 DEF IInv, TypeOK, Certified, Moment
  <2>3. outbox' \subseteq Event
    BY <1>1, <1>3 DEF IInv, TypeOK, Event
  <2>4. status' \in [Stamps -> SubmissionStatus]
    BY <1>1, <1>3 DEF IInv, TypeOK, SubmissionStatus
  <2>5. QED
    BY <1>2, <1>3, <2>1, <2>2, <2>3, <2>4 DEF IInv, TypeOK
<1>7. \A s \in Stamps : Decided(s) => Decided(s)'
  BY <1>3 DEF Decided
<1>8. CasesInv'
  BY <1>1, <1>3, <1>5, <1>7 DEF IInv, CasesInv, Live
<1>9. \A x \in Requests : request'[x] = IF x = r THEN n ELSE request[x]
  BY <1>3 DEF IInv, TypeOK
<1>10. \A x \in Requests : x # r /\ request[x].pc = "ruling" => request[x].case # q.case
  BY <1>1 DEF IInv, RequestsInv, InFlight, OneWriter, Writing, q
<1>11. RequestsInv'
  <2>1. InFlight(request[r])'
    <3>1. request'[r] = n
      BY <1>9
    <3>2. QED
      BY <1>1, <1>2, <3>1 DEF InFlight
  <2>2. SUFFICES ASSUME NEW x \in Requests, x # r PROVE InFlight(request[x])'
    BY <1>9, <2>1 DEF RequestsInv
  <2>3. InFlight(request[x]) /\ request'[x] = request[x]
    BY <1>9, <2>2 DEF IInv, RequestsInv
  <2>4. QED
    BY <1>5, <1>7, <1>10, <2>2, <2>3 DEF InFlight, Guarded
<1>12. OneWriter'
  BY <1>2, <1>9 DEF IInv, OneWriter, Writing
<1>13. RulingIsWhole'
  <2>1. \A e \in decisions : e.case # q.case
    BY <1>1 DEF IInv, RulingIsWhole, Live
  <2>2. q.case # NoCase
    BY <1>1, LineageAssumption
  <2>3. \A a, b \in decisions' : a.case = b.case /\ a.case # NoCase => a = b
    BY <1>3, <1>4, <2>1 DEF IInv, RulingIsWhole
  <2>4. \A c \in Cases : case'[c].status = "RESOLVED" <=> \E e \in decisions' : e.case = c
    <3>1. \A c \in Cases : case[c].status = "RESOLVED" <=> \E e \in decisions : e.case = c
      BY DEF IInv, RulingIsWhole
    <3>2. \A c : (\E e \in decisions' : e.case = c) <=> c = q.case \/ \E e \in decisions : e.case = c
      BY <1>3, <1>4
    <3>3. QED
      BY <1>5, <3>1, <3>2
  <2>5. \A e \in decisions' : e.case # NoCase =>
            [decision |-> e.at, type |-> "courseCompletionCheck"] \in outbox'
    BY <1>3, <1>4 DEF IInv, RulingIsWhole
  <2>6. QED
    BY <2>3, <2>4, <2>5 DEF RulingIsWhole
<1>14. QED
  BY <1>6, <1>8, <1>11, <1>12, <1>13 DEF IInv

\* A new case takes the next id, which no request and no decision knows.
LEMMA NewCase ==
    ASSUME IInv, lastCase + 1 \in Cases, lastCase' = lastCase + 1,
           NEW row \in CaseRow, row.status = "OPEN", row.sub \in Stamps,
           case' = [case EXCEPT ![lastCase + 1] = row],
           decisions \subseteq decisions', \E e \in decisions' : e.sub = row.sub,
           \A e \in decisions' : e.case # NoCase => e \in decisions,
           outbox' = outbox
    PROVE  /\ CasesInv' /\ RulingIsWhole' /\ case' \in [Cases -> CaseRow] /\ lastCase' \in Nat
           /\ \A q : InFlight(q) => InFlight(q)'
<1>1. case[lastCase + 1].status = "ABSENT" /\ lastCase \in Nat
  BY DEF IInv, CasesInv, TypeOK
<1>2. \A c \in Cases : case'[c] = IF c = lastCase + 1 THEN row ELSE case[c]
  BY DEF IInv, TypeOK
<1>3. case' \in [Cases -> CaseRow]
  BY DEF IInv, TypeOK
<1>4. \A s : Decided(s) => Decided(s)'
  BY DEF Decided
<1>5. CasesInv'
  <2>1. SUFFICES ASSUME NEW c \in Cases
                 PROVE  /\ case'[c].status # "ABSENT" => /\ case'[c].sub \in Stamps
                                                             /\ \E e \in decisions' : e.sub = case'[c].sub
                        /\ c > lastCase + 1 => case'[c].status = "ABSENT"
    BY DEF CasesInv, Decided
  <2>2. CASE c = lastCase + 1
    BY <1>1, <1>2, <2>2
  <2>3. CASE c # lastCase + 1
    <3>1. case'[c] = case[c] /\ c \in Nat
      BY <1>2, <2>3, LineageAssumption
    <3>2. QED
      BY <1>1, <1>4, <3>1 DEF IInv, CasesInv, Decided
  <2>4. QED
    BY <2>2, <2>3
<1>6. RulingIsWhole'
  <2>1. \A c \in Cases : case'[c].status = "RESOLVED" <=> case[c].status = "RESOLVED"
    BY <1>1, <1>2
  <2>2. \A c \in Cases : c # NoCase
    BY LineageAssumption
  <2>3. QED
    BY <2>1, <2>2 DEF IInv, RulingIsWhole
<1>7. ASSUME NEW q, InFlight(q) PROVE InFlight(q)'
  <2>1. q.pc \in {"claim", "rule", "ruling"} => case'[q.case] = case[q.case]
    BY <1>1, <1>2, <1>7 DEF InFlight
  <2>2. QED
    BY <1>4, <1>7, <2>1 DEF InFlight, Guarded
<1>8. QED
  BY <1>1, <1>3, <1>5, <1>6, <1>7

LEMMA RequestDone ==
    ASSUME IInv, NEW r \in Requests, request' = [request EXCEPT ![r] = Idle],
           \A q : InFlight(q) => InFlight(q)'
    PROVE  RequestsInv' /\ OneWriter' /\ request' \in [Requests -> Request]
<1>1. Idle \in Request /\ Idle.pc = "idle"
  BY DEF Idle, Request, Moment
<1>2. \A x \in Requests : request'[x] = IF x = r THEN Idle ELSE request[x]
  BY DEF IInv, TypeOK
<1>3. InFlight(Idle)
  BY <1>1 DEF InFlight
<1>4. \A x \in Requests : InFlight(request'[x])
  BY <1>2, <1>3 DEF IInv, RequestsInv
<1>5. RequestsInv'
  BY <1>4 DEF RequestsInv
<1>6. OneWriter'
  BY <1>1, <1>2 DEF IInv, OneWriter, Writing
<1>7. QED
  BY <1>1, <1>5, <1>6 DEF IInv, TypeOK

LEMMA AppealCreateKeeps ==
    ASSUME IInv, NEW r \in Requests, AppealCreate(r)
    PROVE  IInv'
<1> DEFINE row == [kind |-> "appeal", sub |-> request[r].sub, status |-> "OPEN", handler |-> Nobody]
<1>1. request[r].sub \in Stamps /\ Decided(request[r].sub)
  BY DEF AppealCreate, IInv, RequestsInv, InFlight
<1>2. row \in CaseRow /\ row.status = "OPEN" /\ row.sub \in Stamps
      /\ \E e \in decisions' : e.sub = row.sub
  BY <1>1 DEF CaseRow, CaseStatus, Kind, Moment, AppealCreate, Decided
<1>3. /\ CasesInv' /\ RulingIsWhole' /\ case' \in [Cases -> CaseRow] /\ lastCase' \in Nat
      /\ \A q : InFlight(q) => InFlight(q)'
  BY <1>2, NewCase DEF AppealCreate
<1>4. RequestsInv' /\ OneWriter' /\ request' \in [Requests -> Request]
  BY <1>3, RequestDone DEF AppealCreate
<1>5. status' \in [Stamps -> SubmissionStatus]
  BY <1>1 DEF AppealCreate, IInv, TypeOK, SubmissionStatus
<1>6. TypeOK'
  BY <1>3, <1>4, <1>5 DEF IInv, TypeOK, AppealCreate
<1>7. QED
  BY <1>3, <1>4, <1>6 DEF IInv

LEMMA JudgeCommitKeeps ==
    ASSUME IInv, NEW r \in Requests, JudgeCommit(r)
    PROVE  IInv'
<1> DEFINE q == request[r]
           d == [at |-> q.at, sub |-> q.sub, parent |-> Never,
                 verdict |-> q.verdict, case |-> NoCase]
           row == [kind |-> "review", sub |-> q.sub, status |-> "OPEN", handler |-> Nobody]
<1>1. q \in Request /\ q.sub \in Stamps /\ q.at \in Stamps /\ q.verdict \in {"pass", "fail", "review"}
  BY DEF JudgeCommit, IInv, RequestsInv, InFlight, TypeOK, Request
<1>2. d \in Decision /\ d.case = NoCase /\ d.sub = q.sub
  BY <1>1 DEF Decision, Moment
<1>3. decisions' = decisions \cup {d} /\ request' = [request EXCEPT ![r] = Idle]
      /\ UNCHANGED <<outbox, clock>>
  BY DEF JudgeCommit
<1>4. row \in CaseRow /\ row.status = "OPEN" /\ row.sub = q.sub
  BY <1>1 DEF CaseRow, CaseStatus, Kind, Moment
<1>5. \/ /\ lastCase + 1 \in Cases /\ lastCase' = lastCase + 1
         /\ case' = [case EXCEPT ![lastCase + 1] = row]
         /\ status' = [status EXCEPT ![q.sub] = "UNDER_REVIEW"]
         /\ UNCHANGED cert
      \/ /\ status' = [status EXCEPT ![q.sub] = "COMPLETED"]
         /\ cert' = Certified(q.at, q.verdict, q.upsert)
         /\ UNCHANGED <<case, lastCase>>
  BY DEF JudgeCommit
<1> HIDE DEF q, d, row
<1>6. decisions \subseteq decisions' /\ \A e \in decisions' : e.case # NoCase => e \in decisions
  BY <1>2, <1>3
<1>7. (\E e \in decisions' : e.sub = q.sub) /\ \A s : Decided(s) => Decided(s)'
  BY <1>2, <1>3 DEF Decided
<1>8. /\ CasesInv' /\ RulingIsWhole' /\ case' \in [Cases -> CaseRow] /\ lastCase' \in Nat
      /\ \A x : InFlight(x) => InFlight(x)'
  <2>1. CASE UNCHANGED <<case, lastCase>>
    <3>1. CasesInv'
      BY <1>7, <2>1 DEF IInv, CasesInv
    <3>2. RulingIsWhole'
      <4>1. \A c \in Cases : c # NoCase
        BY LineageAssumption
      <4>2. QED
        BY <1>3, <1>6, <2>1, <4>1 DEF IInv, RulingIsWhole
    <3>3. \A x : InFlight(x) => InFlight(x)'
      BY <1>7, <2>1 DEF InFlight, Guarded
    <3>4. QED
      BY <2>1, <3>1, <3>2, <3>3 DEF IInv, TypeOK
  <2>2. CASE /\ lastCase + 1 \in Cases /\ lastCase' = lastCase + 1
             /\ case' = [case EXCEPT ![lastCase + 1] = row]
    <3>1. (\E e \in decisions' : e.sub = row.sub) /\ row.sub \in Stamps
      BY <1>1, <1>4, <1>7
    <3>2. QED
      BY <1>3, <1>4, <1>6, <2>2, <3>1, NewCase
  <2>3. QED
    BY <1>5, <2>1, <2>2
<1>9. RequestsInv' /\ OneWriter' /\ request' \in [Requests -> Request]
  BY <1>3, <1>8, RequestDone
<1>10. TypeOK'
  <2>1. status' \in [Stamps -> SubmissionStatus]
    BY <1>1, <1>5 DEF IInv, TypeOK, SubmissionStatus
  <2>2. cert' \in [status : {"NONE", "ACTIVE", "NOT_CERTIFIED"}, decision : Moment, passedAt : Moment]
    BY <1>1, <1>5 DEF IInv, TypeOK, Certified, Moment
  <2>3. QED
    BY <1>2, <1>3, <1>8, <1>9, <2>1, <2>2 DEF IInv, TypeOK
<1>11. QED
  BY <1>8, <1>9, <1>10 DEF IInv

LEMMA SubmitCommitKeeps ==
    ASSUME IInv, NEW r \in Requests, SubmitCommit(r)
    PROVE  IInv'
<1> DEFINE q == request[r]
<1>1. q \in Request /\ q.sub \in Stamps /\ q.found \subseteq Cases
  BY DEF SubmitCommit, IInv, RequestsInv, InFlight, TypeOK, Request
<1>2. case' = [c \in Cases |-> IF c \in Closed(q.found)
                               THEN [case[c] EXCEPT !.status = "SUPERSEDED"] ELSE case[c]]
  BY DEF SubmitCommit
<1>3. \A c \in Closed(q.found) : c \in Cases /\ case[c].status \in Live /\ ~Locked(case[c].sub)
  BY <1>1 DEF SubmitCommit, Closed
<1>4. UNCHANGED <<decisions, cert, outbox, lastCase, clock>>
      /\ request' = [request EXCEPT ![r] = Idle]
  BY DEF SubmitCommit
<1>5. status' \in [Stamps -> SubmissionStatus]
  BY DEF SubmitCommit, IInv, TypeOK, SubmissionStatus
<1> HIDE DEF q
<1>6. \A c \in Cases : /\ case[c] \in CaseRow /\ case'[c] \in CaseRow
                       /\ case'[c].sub = case[c].sub /\ case'[c].handler = case[c].handler
                       /\ c \notin Closed(q.found) => case'[c] = case[c]
                       /\ c \in Closed(q.found) => case'[c].status = "SUPERSEDED"
  <2>1. SUFFICES ASSUME NEW c \in Cases
                 PROVE  LET x == IF c \in Closed(q.found)
                                 THEN [case[c] EXCEPT !.status = "SUPERSEDED"] ELSE case[c]
                        IN /\ case[c] \in CaseRow /\ x \in CaseRow
                           /\ x.sub = case[c].sub /\ x.handler = case[c].handler
                           /\ c \notin Closed(q.found) => x = case[c]
                           /\ c \in Closed(q.found) => x.status = "SUPERSEDED"
    BY <1>2
  <2>2. case[c] \in CaseRow
    BY DEF IInv, TypeOK
  <2>3. QED
    BY <2>2 DEF CaseRow, CaseStatus
<1>7. case' \in [Cases -> CaseRow]
  BY <1>2, <1>6
<1>8. CasesInv'
  BY <1>3, <1>4, <1>6 DEF IInv, CasesInv, Decided, Live
<1>9. RulingIsWhole'
  BY <1>3, <1>4, <1>6 DEF IInv, RulingIsWhole, Live
<1>10. ASSUME NEW x \in Requests PROVE InFlight(request[x])'  \/ x = r
  <2>1. SUFFICES ASSUME x # r PROVE InFlight(request[x])'
    OBVIOUS
  <2>2. InFlight(request[x]) /\ request'[x] = request[x]
    BY <1>4, <2>1 DEF IInv, RequestsInv, TypeOK
  <2>3. request[x].pc = "ruling" => request[x].case \notin Closed(q.found)
    BY <1>3, <2>2 DEF InFlight, Locked
  <2>4. QED
    BY <1>3, <1>4, <1>6, <2>2, <2>3 DEF InFlight, Guarded, Decided, Live
<1>11. Idle \in Request /\ Idle.pc = "idle"
  BY DEF Idle, Request, Moment
<1>12. \A x \in Requests : request'[x] = IF x = r THEN Idle ELSE request[x]
  BY <1>4 DEF IInv, TypeOK
<1>13. RequestsInv'
  BY <1>10, <1>11, <1>12 DEF RequestsInv, InFlight
<1>14. OneWriter'
  BY <1>11, <1>12 DEF IInv, OneWriter, Writing
<1>15. TypeOK'
  BY <1>4, <1>5, <1>7, <1>11 DEF IInv, TypeOK
<1>16. QED
  BY <1>8, <1>9, <1>13, <1>14, <1>15 DEF IInv

------------------------------------------------------------------------------
LEMMA StepInvariant == IInv /\ [Next]_vars => IInv'
<1>1. SUFFICES ASSUME IInv, [Next]_vars PROVE IInv'
  OBVIOUS
<1>2. CASE UNCHANGED vars
  BY <1>1, <1>2 DEF IInv, TypeOK, CasesInv, RequestsInv, InFlight, OneWriter, Writing,
     RulingIsWhole, Guarded, Decided, vars
<1>3. CASE Next
  <2>1. PICK r \in Requests : RequestStep(r)
    BY <1>3 DEF Next
  <2>2. CASE \E p \in People, c \in Cases : ClaimRead(r, p, c) \/ RuleRead(r, p, c)
    BY <1>1, <2>2, ClaimReadKeeps, RuleReadKeeps
  <2>3. CASE \E s \in Stamps : JudgeOpen(r, s) \/ AppealRead(r, s)
    BY <1>1, <2>3, JudgeOpenKeeps, AppealReadKeeps
  <2>4. CASE Claim(r) \/ RuleOpen(r) \/ RuleCommit(r) \/ Notify(r)
    BY <1>1, <2>4, ClaimKeeps, RuleOpenKeeps, RuleCommitKeeps, NotifyKeeps
  <2>5. CASE ClaimRefused(r) \/ RuleRefused(r) \/ Abort(r)
    BY <1>1, <2>5, IdleKeeps DEF ClaimRefused, RuleRefused, Abort, OnlyRequest, IInv, TypeOK
  <2>6. CASE JudgeCommit(r) \/ AppealCreate(r)
    BY <1>1, <2>6, JudgeCommitKeeps, AppealCreateKeeps
  <2>7. CASE SubmitRead(r) \/ SubmitReadAppeals(r) \/ SubmitCommit(r)
    BY <1>1, <2>7, SubmitReadKeeps, SubmitReadAppealsKeeps, SubmitCommitKeeps
  <2>8. QED
    BY <2>1, <2>2, <2>3, <2>4, <2>5, <2>6, <2>7 DEF RequestStep
<1>4. QED
  BY <1>1, <1>2, <1>3

------------------------------------------------------------------------------
(* The theorems.                                                            *)

\* The inductive invariant holds throughout.
THEOREM Invariant == Spec => []IInv
<1>1. QED
  BY InitInvariant, StepInvariant, PTL DEF Spec

\* Every variable keeps its type.
THEOREM TypeCorrect == Spec => []TypeOK
<1>1. IInv => TypeOK
  BY DEF IInv
<1>2. QED
  BY Invariant, <1>1, PTL

\* A resolved case has exactly one decision, written with its completion check,
\* and no other case has any, whatever requests race, abort or supersede.
THEOREM RulingsAreWhole == Spec => []RulingIsWhole
<1>1. IInv => RulingIsWhole
  BY DEF IInv
<1>2. QED
  BY Invariant, <1>1, PTL

------------------------------------------------------------------------------
(* The lineage.  A ruling stands on a decision its request has read, and    *)
(* the clock has moved on since; the machine's verdict finds no decision    *)
(* when it opens, and the row lock keeps every other one out until it is    *)
(* committed.                                                               *)

Stands(q, now) ==
    /\ q.pc \in {"rule", "ruling"} =>
           /\ q.at <= now /\ q.parent \in Stamps
           /\ \E e \in decisions : e.at = q.parent /\ e.sub = q.sub /\ e.at < q.at
    /\ q.pc = "judging" => q.at <= now /\ ~Decided(q.sub)

LineageInv ==
    /\ \A d \in decisions : d.at <= clock
    /\ \A r \in Requests : Stands(request[r], clock)
    /\ LineageRooted

LEMMA InitLineage == Init => LineageInv
  BY DEF Init, LineageInv, LineageRooted, Stands, Idle

LEMMA LineageMove ==
    ASSUME IInv, LineageInv, NEW r \in Requests, NEW q,
           request' = [request EXCEPT ![r] = q],
           UNCHANGED decisions, clock' \in Nat, clock <= clock',
           Stands(q, clock')
    PROVE  LineageInv'
<1>1. \A d \in decisions : d.at \in Int /\ d.at <= clock'
  BY DEF IInv, TypeOK, Decision, Stamps, LineageInv
<1>2. \A x \in Requests : request'[x] = IF x = r THEN q ELSE request[x]
  BY DEF IInv, TypeOK
<1>3. ASSUME NEW x \in Requests PROVE Stands(request'[x], clock')
  <2>1. CASE x = r
    BY <1>2, <2>1
  <2>2. CASE x # r
    <3>1. Stands(request[x], clock) /\ request'[x] = request[x]
      BY <1>2, <2>2 DEF LineageInv
    <3>2. request[x].at \in Int
      BY DEF IInv, TypeOK, Request, Moment, Never, Stamps
    <3>3. QED
      BY <3>1, <3>2 DEF Stands, IInv, TypeOK
  <2>3. QED
    BY <2>1, <2>2
<1>4. LineageRooted'
  BY DEF LineageInv, LineageRooted
<1>5. \A x \in Requests : Stands(request[x], clock)'
  BY <1>3 DEF Stands, Decided
<1>6. QED
  BY <1>1, <1>4, <1>5 DEF LineageInv

LEMMA RuleReadStands ==
    ASSUME IInv, LineageInv, NEW r \in Requests, NEW p \in People, NEW c \in Cases, RuleRead(r, p, c)
    PROVE  LineageInv'
<1>1. PICK v \in {"pass", "fail"} :
          request' = [request EXCEPT ![r] =
              [Idle EXCEPT !.pc = "rule", !.by = p, !.case = c, !.sub = case[c].sub,
                           !.at = Now, !.parent = ParentOf(case[c].sub), !.verdict = v]]
  BY DEF RuleRead
<1> DEFINE q == [Idle EXCEPT !.pc = "rule", !.by = p, !.case = c, !.sub = case[c].sub,
                             !.at = Now, !.parent = ParentOf(case[c].sub), !.verdict = v]
<1>2. case[c].sub \in Stamps /\ Decided(case[c].sub)
  BY DEF RuleRead, Live, IInv, CasesInv
<1>3. /\ ParentOf(case[c].sub) \in Stamps
      /\ \E d \in decisions : d.at = ParentOf(case[c].sub) /\ d.sub = case[c].sub
  BY <1>2, ParentExists DEF IInv
<1>4. clock \in Nat /\ Now = clock + 1 /\ clock' = Now /\ UNCHANGED decisions
  BY DEF RuleRead, Tick, Now, IInv, TypeOK
<1>5. \A d \in decisions : d.at \in Int /\ d.at <= clock
  BY DEF IInv, TypeOK, Decision, Stamps, LineageInv
<1>6. q.pc = "rule" /\ q.at = Now /\ q.sub = case[c].sub /\ q.parent = ParentOf(case[c].sub)
  BY DEF Idle
<1> HIDE DEF q
<1>7. \E e \in decisions : e.at = q.parent /\ e.sub = q.sub /\ e.at < q.at
  BY <1>3, <1>4, <1>5, <1>6
<1>8. Stands(q, clock')
  BY <1>3, <1>4, <1>6, <1>7 DEF Stands
<1>9. request' = [request EXCEPT ![r] = q]
  BY <1>1 DEF q
<1>10. UNCHANGED decisions /\ clock' \in Nat /\ clock <= clock'
  BY <1>4
<1>11. QED
  BY <1>8, <1>9, <1>10, LineageMove

LEMMA RuleOpenStands ==
    ASSUME IInv, LineageInv, NEW r \in Requests, RuleOpen(r)
    PROVE  LineageInv'
<1> DEFINE u == Upsert(request[r].sub, request[r].verdict)
           q == [request[r] EXCEPT !.pc = "ruling", !.upsert = u]
<1>1. request[r] \in Request /\ request[r].pc = "rule" /\ Stands(request[r], clock)
  BY DEF RuleOpen, IInv, TypeOK, LineageInv
<1>2. /\ q.pc = "ruling" /\ q.parent = request[r].parent
      /\ q.sub = request[r].sub /\ q.at = request[r].at
  BY <1>1 DEF Request
<1>3. request' = [request EXCEPT ![r] = q]
  BY <1>1 DEF RuleOpen
<1> HIDE DEF q
<1>4. UNCHANGED decisions /\ clock' \in Nat /\ clock' = clock /\ clock <= clock'
  BY DEF RuleOpen, OnlyRequest, IInv, TypeOK
<1>5. Stands(q, clock')
  BY <1>1, <1>2, <1>4 DEF Stands
<1>6. QED
  BY <1>3, <1>4, <1>5, LineageMove

LEMMA JudgeOpenStands ==
    ASSUME IInv, LineageInv, NEW r \in Requests, NEW s \in Stamps, JudgeOpen(r, s)
    PROVE  LineageInv'
<1>1. PICK v \in {"pass", "fail", "review"} :
          request' = [request EXCEPT ![r] =
              [Idle EXCEPT !.pc = "judging", !.sub = s, !.at = Now, !.verdict = v,
                           !.upsert = Upsert(s, v)]]
  BY DEF JudgeOpen
<1> DEFINE q == [Idle EXCEPT !.pc = "judging", !.sub = s, !.at = Now, !.verdict = v,
                             !.upsert = Upsert(s, v)]
<1>2. clock \in Nat /\ Now = clock + 1 /\ clock' = Now /\ UNCHANGED decisions /\ Of(s) = {}
  BY DEF JudgeOpen, Tick, Now, IInv, TypeOK
<1>3. q.pc = "judging" /\ q.at = Now /\ q.sub = s
  BY DEF Idle
<1> HIDE DEF q
<1>4. Stands(q, clock')
  BY <1>2, <1>3 DEF Stands, Of, Decided
<1>5. request' = [request EXCEPT ![r] = q]
  BY <1>1 DEF q
<1>6. UNCHANGED decisions /\ clock' \in Nat /\ clock <= clock'
  BY <1>2
<1>7. QED
  BY <1>4, <1>5, <1>6, LineageMove

\* The other steps that decide nothing: their request stands on nothing.
LEMMA OtherStands ==
    ASSUME IInv, LineageInv, NEW r \in Requests, NEW q, request' = [request EXCEPT ![r] = q],
           q.pc \notin {"rule", "ruling", "judging"},
           UNCHANGED decisions, clock' \in Nat, clock <= clock'
    PROVE  LineageInv'
  BY LineageMove DEF Stands

\* Two decisions can be appended: a ruling, and the machine's verdict.
LEMMA AppendStands ==
    ASSUME IInv, LineageInv, NEW r \in Requests, NEW n \in Request, n.pc \in {"idle", "notify"},
           NEW d \in Decision, d.at <= clock,
           Writing(r), d.sub = request[r].sub,
           request' = [request EXCEPT ![r] = n], decisions' = decisions \cup {d}, UNCHANGED clock,
           d.parent # Never => \E e \in decisions : e.at = d.parent /\ e.sub = d.sub /\ e.at < d.at,
           d.parent = Never => ~Decided(d.sub)
    PROVE  LineageInv'
<1>1. \A x \in Requests : request'[x] = IF x = r THEN n ELSE request[x]
  BY DEF IInv, TypeOK
<1>2. ASSUME NEW x \in Requests PROVE Stands(request[x], clock)'
  <2>1. CASE x = r
    BY <1>1, <2>1 DEF Stands
  <2>2. CASE x # r
    <3>1. Stands(request[x], clock) /\ request'[x] = request[x]
      BY <1>1, <2>2 DEF LineageInv
    <3>2. request[x].pc = "judging" => request[x].sub # d.sub
      BY <2>2 DEF IInv, OneWriter, Writing
    <3>3. QED
      BY <3>1, <3>2 DEF Stands, Decided
  <2>3. QED
    BY <2>1, <2>2
<1>3. LineageRooted'
  <2>1. \A a \in decisions' : a.parent # Never =>
            \E e \in decisions' : e.at = a.parent /\ e.sub = a.sub /\ e.at < a.at
    BY DEF LineageInv, LineageRooted
  <2>2. ASSUME NEW a \in decisions', NEW b \in decisions',
               a.parent = Never, b.parent = Never, a.sub = b.sub
        PROVE  a = b
    BY <2>2 DEF LineageInv, LineageRooted, Decided
  <2>3. QED
    BY <2>1, <2>2 DEF LineageRooted
<1>4. QED
  BY <1>2, <1>3 DEF LineageInv

LEMMA RuleCommitStands ==
    ASSUME IInv, LineageInv, NEW r \in Requests, RuleCommit(r)
    PROVE  LineageInv'
<1> DEFINE q == request[r]
           d == [at |-> q.at, sub |-> q.sub, parent |-> q.parent,
                 verdict |-> q.verdict, case |-> q.case]
           n == [Idle EXCEPT !.pc = "notify", !.at = q.at]
<1>1. /\ q.pc = "ruling" /\ q.sub \in Stamps /\ q.at \in Stamps /\ q.case \in Cases
      /\ q.verdict \in {"pass", "fail"} /\ Stands(q, clock)
  BY DEF RuleCommit, IInv, RequestsInv, InFlight, LineageInv
<1>2. d \in Decision /\ d.at = q.at /\ d.sub = q.sub /\ d.parent = q.parent
  BY <1>1 DEF Decision, Moment, Stands
<1>3. d.at <= clock /\ d.parent # Never /\ \E e \in decisions : e.at = d.parent /\ e.sub = d.sub /\ e.at < d.at
  BY <1>1, <1>2 DEF Stands, Stamps, Never
<1>4. decisions' = decisions \cup {d} /\ request' = [request EXCEPT ![r] = n] /\ UNCHANGED clock
  BY DEF RuleCommit
<1>5. n \in Request /\ n.pc \in {"idle", "notify"} /\ Writing(r)
  BY <1>1 DEF Idle, Writing, Request, Moment
<1> HIDE DEF d, n
<1>6. QED
  BY <1>2, <1>3, <1>4, <1>5, AppendStands

LEMMA JudgeCommitStands ==
    ASSUME IInv, LineageInv, NEW r \in Requests, JudgeCommit(r)
    PROVE  LineageInv'
<1> DEFINE q == request[r]
           d == [at |-> q.at, sub |-> q.sub, parent |-> Never,
                 verdict |-> q.verdict, case |-> NoCase]
<1>1. /\ q.pc = "judging" /\ q.sub \in Stamps /\ q.at \in Stamps
      /\ q.verdict \in {"pass", "fail", "review"} /\ Stands(q, clock)
  BY DEF JudgeCommit, IInv, TypeOK, Request, RequestsInv, InFlight, LineageInv
<1>2. d \in Decision /\ d.at = q.at /\ d.sub = q.sub /\ d.parent = Never
  BY <1>1 DEF Decision, Moment
<1>3. d.at <= clock /\ ~Decided(d.sub)
  BY <1>1, <1>2 DEF Stands
<1>4. decisions' = decisions \cup {d} /\ request' = [request EXCEPT ![r] = Idle] /\ UNCHANGED clock
  BY DEF JudgeCommit
<1>5. Idle \in Request /\ Idle.pc \in {"idle", "notify"} /\ Writing(r)
  BY <1>1 DEF Idle, Writing, Request, Moment
<1> HIDE DEF d
<1>6. QED
  BY <1>2, <1>3, <1>4, <1>5, AppendStands

LEMMA StepLineage == IInv /\ LineageInv /\ [Next]_vars => LineageInv'
<1>1. SUFFICES ASSUME IInv, LineageInv, [Next]_vars PROVE LineageInv'
  OBVIOUS
<1>2. CASE UNCHANGED vars
  BY <1>1, <1>2 DEF LineageInv, LineageRooted, Stands, Decided, vars
<1>3. CASE Next
  <2>1. PICK r \in Requests : RequestStep(r)
    BY <1>3 DEF Next
  <2>2. clock \in Nat /\ clock <= clock /\ request \in [Requests -> Request]
    BY <1>1 DEF IInv, TypeOK
  <2>3. Idle.pc = "idle"
    BY DEF Idle
  <2>4. ASSUME NEW p \in People, NEW c \in Cases, ClaimRead(r, p, c) PROVE LineageInv'
    <3> DEFINE q == [Idle EXCEPT !.pc = "claim", !.by = p, !.case = c]
    <3>1. q.pc = "claim"
      BY DEF Idle
    <3>2. QED
      BY <1>1, <2>2, <2>4, <3>1, OtherStands DEF ClaimRead, OnlyRequest
  <2>5. ASSUME NEW s \in Stamps, AppealRead(r, s) PROVE LineageInv'
    <3> DEFINE q == [Idle EXCEPT !.pc = "appeal", !.sub = s]
    <3>1. q.pc = "appeal"
      BY DEF Idle
    <3>2. QED
      BY <1>1, <2>2, <2>5, <3>1, OtherStands DEF AppealRead, OnlyRequest
  <2>6. CASE Claim(r) \/ ClaimRefused(r) \/ RuleRefused(r) \/ Notify(r) \/ AppealCreate(r)
             \/ SubmitCommit(r) \/ Abort(r)
    <3>1. request' = [request EXCEPT ![r] = Idle] /\ UNCHANGED <<decisions, clock>>
      BY <2>6 DEF Claim, ClaimRefused, RuleRefused, Notify, AppealCreate, SubmitCommit, Abort, OnlyRequest
    <3>2. QED
      BY <1>1, <2>2, <2>3, <3>1, OtherStands
  <2>7. CASE SubmitRead(r)
    <3> DEFINE q == [Idle EXCEPT !.pc = "reviews", !.sub = Now, !.found = LiveOf("review")]
    <3>1. q.pc = "reviews"
      BY DEF Idle
    <3>2. request' = [request EXCEPT ![r] = q] /\ clock' \in Nat /\ clock <= clock' /\ UNCHANGED decisions
      BY <2>2, <2>7 DEF SubmitRead, Tick, Now
    <3> HIDE DEF q
    <3>3. QED
      BY <1>1, <3>1, <3>2, OtherStands
  <2>8. CASE SubmitReadAppeals(r)
    <3> DEFINE q == [request[r] EXCEPT !.pc = "appeals", !.found = request[r].found \cup LiveOf("appeal")]
    <3>1. q.pc = "appeals" /\ request' = [request EXCEPT ![r] = q]
      BY <2>2, <2>8 DEF SubmitReadAppeals, Request
    <3> HIDE DEF q
    <3>2. QED
      BY <1>1, <2>2, <2>8, <3>1, OtherStands DEF SubmitReadAppeals, OnlyRequest
  <2>9. QED
    BY <1>1, <2>1, <2>4, <2>5, <2>6, <2>7, <2>8, RuleReadStands, RuleOpenStands, JudgeOpenStands,
       RuleCommitStands, JudgeCommitStands DEF RequestStep
<1>4. QED
  BY <1>1, <1>2, <1>3

\* From every decision the parents lead, through older decisions of the same
\* submission, to the one automatic verdict that submission has.
THEOREM LineageIsRooted == Spec => []LineageRooted
<1>1. LineageInv => LineageRooted
  BY DEF LineageInv
<1>2. QED
  BY InitInvariant, StepInvariant, InitLineage, StepLineage, <1>1, PTL DEF Spec

------------------------------------------------------------------------------
(* The refinement of CaseDesk.  Seen from the desk a request is invisible   *)
(* until it commits, and the commit finds the case as the guard left it.    *)

\* A case nobody has opened is held by nobody.
AbsentUnheld == \A c \in Cases : case[c].status = "ABSENT" => case[c].handler = Nobody

\* What StageOf makes of a status.
LEMMA Stage ==
    ASSUME NEW c \in Cases
    PROVE  /\ case[c].status = "ABSENT" => StageOf(c) = "absent"
           /\ case[c].status \in Live => StageOf(c) = "open"
           /\ case[c].status = "RESOLVED" => StageOf(c) = "ruled"
           /\ case[c].status = "SUPERSEDED" => StageOf(c) = "dropped"
  BY DEF StageOf, Live

LEMMA StageNext ==
    ASSUME NEW c \in Cases
    PROVE  /\ case'[c].status = "ABSENT" => StageOf(c)' = "absent"
           /\ case'[c].status \in Live => StageOf(c)' = "open"
           /\ case'[c].status = "RESOLVED" => StageOf(c)' = "ruled"
           /\ case'[c].status = "SUPERSEDED" => StageOf(c)' = "dropped"
           /\ case'[c] = case[c] => StageOf(c)' = StageOf(c)
  BY DEF StageOf, Live

LEMMA InitDesk == Init => Desk!Init /\ AbsentUnheld
<1>1. SUFFICES ASSUME Init PROVE Desk!Init /\ AbsentUnheld
  OBVIOUS
<1>2. \A c \in Cases : case[c].status = "ABSENT" /\ case[c].handler = Nobody
  BY <1>1 DEF Init, NoRow
<1>3. \A c \in Cases : RulingsOf(c) = {}
  BY <1>1 DEF Init, RulingsOf
<1>4. \A c \in Cases : StageOf(c) = "absent"
  BY <1>2, Stage
<1>5. QED
  BY <1>2, <1>3, <1>4 DEF Desk!Init, AbsentUnheld

\* A step that writes neither a case nor a ruling is a stutter of the desk.
LEMMA DeskStutter ==
    ASSUME UNCHANGED case, \A c \in Cases : RulingsOf(c)' = RulingsOf(c)
    PROVE  UNCHANGED Desk!vars
<1>1. \A c \in Cases : StageOf(c)' = StageOf(c)
  BY StageNext
<1>2. QED
  BY <1>1 DEF Desk!vars

LEMMA DeskClaim ==
    ASSUME IInv, NEW r \in Requests, Claim(r)
    PROVE  Desk!Next
<1>1. PICK c \in Cases, p \in People :
          /\ Guarded(p, c)
          /\ case' = [case EXCEPT ![c].status = "IN_REVIEW", ![c].handler = p]
          /\ UNCHANGED decisions
  BY DEF Claim, IInv, RequestsInv, InFlight
<1>2. /\ \A x \in Cases : x # c => case'[x] = case[x]
      /\ case'[c].status = "IN_REVIEW" /\ case'[c].handler = p
  BY <1>1 DEF IInv, TypeOK, CaseRow
<1>3. \A x \in Cases : StageOf(x)' = StageOf(x)
  BY <1>1, <1>2, Stage, StageNext DEF Guarded, Live
<1>4. StageOf(c) = "open"
  BY <1>1, Stage DEF Guarded
<1>5. \A x \in Cases : RulingsOf(x)' = RulingsOf(x)
  BY <1>1 DEF RulingsOf
<1>6. Desk!Claim(c, p)
  <2>1. Desk!MayAct(p, c)
    BY <1>1 DEF Desk!MayAct, Guarded
  <2>2. [x \in Cases |-> case[x].handler]' = [[x \in Cases |-> case[x].handler] EXCEPT ![c] = p]
    <3>1. \A x \in Cases : case'[x].handler = IF x = c THEN p ELSE case[x].handler
      BY <1>2
    <3>2. QED
      BY <3>1
  <2>3. QED
    BY <1>1, <1>3, <1>4, <1>5, <2>1, <2>2 DEF Desk!Claim
<1>7. \E x \in Cases : \E y \in People : Desk!Claim(x, y)
  BY <1>1, <1>6
<1>8. QED
  BY <1>7 DEF Desk!Next

LEMMA DeskRule ==
    ASSUME IInv, NEW r \in Requests, RuleCommit(r)
    PROVE  Desk!Next
<1>1. PICK c \in Cases, p \in People, a \in Stamps :
          /\ Guarded(p, c)
          /\ case' = [case EXCEPT ![c].status = "RESOLVED", ![c].handler = p]
          /\ \E d : d.case = c /\ d.at = a /\ decisions' = decisions \cup {d}
  <2> DEFINE q == request[r]
             d == [at |-> q.at, sub |-> q.sub, parent |-> q.parent,
                   verdict |-> q.verdict, case |-> q.case]
  <2>1. q.case \in Cases /\ q.by \in People /\ Guarded(q.by, q.case) /\ q.at \in Stamps
    BY DEF RuleCommit, IInv, RequestsInv, InFlight
  <2>2. case' = [case EXCEPT ![q.case].status = "RESOLVED", ![q.case].handler = q.by]
    BY DEF RuleCommit
  <2>3. d.case = q.case /\ d.at = q.at /\ decisions' = decisions \cup {d}
    BY DEF RuleCommit
  <2> HIDE DEF q, d
  <2>4. QED
    BY <2>1, <2>2, <2>3
<1>2. PICK d : d.case = c /\ d.at = a /\ decisions' = decisions \cup {d}
  BY <1>1
<1>3. /\ \A x \in Cases : x # c => case'[x] = case[x]
      /\ case'[c].status = "RESOLVED" /\ case'[c].handler = p
  BY <1>1 DEF IInv, TypeOK, CaseRow
<1>4. \A x \in Cases : StageOf(x)' = IF x = c THEN "ruled" ELSE StageOf(x)
  BY <1>1, <1>3, StageNext
<1>5. StageOf(c) = "open"
  BY <1>1, Stage DEF Guarded
<1>6. \A x \in Cases : x # c => RulingsOf(x)' = RulingsOf(x)
  BY <1>2 DEF RulingsOf
<1>7. RulingsOf(c)' = {d}
  <2>1. \A e \in decisions : e.case # c
    BY <1>1 DEF IInv, RulingIsWhole, Guarded, Live
  <2>2. QED
    BY <1>2, <2>1 DEF RulingsOf
<1>8. Desk!Rule(c, p)
  <2>1. Desk!MayAct(p, c)
    BY <1>1 DEF Desk!MayAct, Guarded
  <2>2. [x \in Cases |-> case[x].handler]' = [[x \in Cases |-> case[x].handler] EXCEPT ![c] = p]
    <3>1. \A x \in Cases : case'[x].handler = IF x = c THEN p ELSE case[x].handler
      BY <1>3
    <3>2. QED
      BY <3>1
  <2>3. [x \in Cases |-> StageOf(x)]' = [[x \in Cases |-> StageOf(x)] EXCEPT ![c] = "ruled"]
    BY <1>4
  <2>4. {e.at : e \in RulingsOf(c)'} = {a}
    BY <1>2, <1>7
  <2>5. [x \in Cases |-> {e.at : e \in RulingsOf(x)}]'
            = [[x \in Cases |-> {e.at : e \in RulingsOf(x)}] EXCEPT ![c] = {a}]
    BY <1>6, <2>4
  <2>6. QED
    BY <1>5, <2>1, <2>2, <2>3, <2>5 DEF Desk!Rule
<1>9. \E x \in Cases : \E y \in People : Desk!Rule(x, y)
  BY <1>8
<1>10. QED
  BY <1>9 DEF Desk!Next

\* A new case opens on the desk.
LEMMA DeskOpen ==
    ASSUME IInv, AbsentUnheld, lastCase + 1 \in Cases,
           NEW row, row.status = "OPEN", row.handler = Nobody,
           case' = [case EXCEPT ![lastCase + 1] = row],
           \A c \in Cases : RulingsOf(c)' = RulingsOf(c)
    PROVE  Desk!Next
<1>1. case[lastCase + 1].status = "ABSENT"
  BY DEF IInv, CasesInv, TypeOK
<1>2. \A c \in Cases : case'[c] = IF c = lastCase + 1 THEN row ELSE case[c]
  BY DEF IInv, TypeOK
<1>3. \A c \in Cases : StageOf(c)' = IF c = lastCase + 1 THEN "open" ELSE StageOf(c)
  BY <1>2, StageNext DEF Live
<1>4. StageOf(lastCase + 1) = "absent"
  BY <1>1, Stage
<1>5. \A c \in Cases : case'[c].handler = case[c].handler
  BY <1>1, <1>2 DEF AbsentUnheld
<1>6. Desk!Open(lastCase + 1)
  BY <1>3, <1>4, <1>5 DEF Desk!Open
<1>7. QED
  BY <1>6 DEF Desk!Next

LEMMA DeskDrop ==
    ASSUME IInv, NEW r \in Requests, SubmitCommit(r)
    PROVE  Desk!Next
<1> DEFINE cs == Closed(request[r].found)
<1>1. request[r].found \subseteq Cases
  BY DEF IInv, TypeOK, Request
<1>2. /\ case' = [c \in Cases |-> IF c \in cs THEN [case[c] EXCEPT !.status = "SUPERSEDED"] ELSE case[c]]
      /\ UNCHANGED decisions
  BY DEF SubmitCommit
<1>3. cs \subseteq Cases /\ \A c \in cs : case[c].status \in Live
  BY <1>1 DEF Closed
<1> HIDE DEF cs
<1>4. \A c \in Cases : /\ case'[c].handler = case[c].handler
                       /\ c \in cs => case'[c].status = "SUPERSEDED"
                       /\ c \notin cs => case'[c] = case[c]
  BY <1>2 DEF IInv, TypeOK, CaseRow
<1>5. \A c \in Cases : StageOf(c)' = IF c \in cs THEN "dropped" ELSE StageOf(c)
  BY <1>4, StageNext
<1>6. \A c \in cs : StageOf(c) = "open"
  BY <1>3, Stage
<1>7. \A c \in Cases : RulingsOf(c)' = RulingsOf(c)
  BY <1>2 DEF RulingsOf
<1>8. Desk!Drop(cs)
  BY <1>3, <1>4, <1>5, <1>6, <1>7 DEF Desk!Drop
<1>9. QED
  BY <1>3, <1>8 DEF Desk!Next

LEMMA DeskJudge ==
    ASSUME IInv, AbsentUnheld, NEW r \in Requests, JudgeCommit(r)
    PROVE  Desk!Next \/ UNCHANGED Desk!vars
<1> DEFINE q == request[r]
           d == [at |-> q.at, sub |-> q.sub, parent |-> Never,
                 verdict |-> q.verdict, case |-> NoCase]
           row == [kind |-> "review", sub |-> q.sub, status |-> "OPEN", handler |-> Nobody]
<1>1. decisions' = decisions \cup {d} /\ d.case = NoCase
  BY DEF JudgeCommit
<1>2. \A c \in Cases : RulingsOf(c)' = RulingsOf(c)
  BY <1>1, LineageAssumption DEF RulingsOf
<1>3. \/ lastCase + 1 \in Cases /\ case' = [case EXCEPT ![lastCase + 1] = row]
      \/ UNCHANGED case
  BY DEF JudgeCommit
<1>4. row.status = "OPEN" /\ row.handler = Nobody
  OBVIOUS
<1> HIDE DEF row
<1>5. QED
  BY <1>2, <1>3, <1>4, DeskOpen, DeskStutter

LEMMA DeskAppeal ==
    ASSUME IInv, AbsentUnheld, NEW r \in Requests, AppealCreate(r)
    PROVE  Desk!Next
<1> DEFINE row == [kind |-> "appeal", sub |-> request[r].sub, status |-> "OPEN", handler |-> Nobody]
<1>1. \A c \in Cases : RulingsOf(c)' = RulingsOf(c)
  BY DEF AppealCreate, RulingsOf
<1>2. lastCase + 1 \in Cases /\ case' = [case EXCEPT ![lastCase + 1] = row]
  BY DEF AppealCreate
<1>3. row.status = "OPEN" /\ row.handler = Nobody
  OBVIOUS
<1> HIDE DEF row
<1>4. QED
  BY <1>1, <1>2, <1>3, DeskOpen

\* A step of the system is a step of the desk, or none.
LEMMA StepDesk == IInv /\ AbsentUnheld /\ [Next]_vars => [Desk!Next]_(Desk!vars)
<1>1. SUFFICES ASSUME IInv, AbsentUnheld, [Next]_vars PROVE Desk!Next \/ UNCHANGED Desk!vars
  OBVIOUS
<1>2. CASE UNCHANGED <<case, decisions>>
  <2>1. \A c \in Cases : RulingsOf(c)' = RulingsOf(c)
    BY <1>2 DEF RulingsOf
  <2>2. QED
    BY <1>2, <2>1, DeskStutter
<1>3. CASE UNCHANGED vars
  BY <1>2, <1>3 DEF vars
<1>4. CASE Next
  <2>1. PICK r \in Requests : RequestStep(r)
    BY <1>4 DEF Next
  <2>2. CASE Claim(r) \/ RuleCommit(r) \/ SubmitCommit(r) \/ JudgeCommit(r) \/ AppealCreate(r)
    BY <1>1, <2>2, DeskClaim, DeskRule, DeskDrop, DeskJudge, DeskAppeal
  <2>3. CASE (\E p \in People, c \in Cases : ClaimRead(r, p, c) \/ RuleRead(r, p, c))
             \/ (\E s \in Stamps : JudgeOpen(r, s) \/ AppealRead(r, s))
    BY <1>2, <2>3 DEF ClaimRead, RuleRead, JudgeOpen, AppealRead, OnlyRequest
  <2>4. CASE ClaimRefused(r) \/ RuleOpen(r) \/ RuleRefused(r) \/ Notify(r)
             \/ SubmitRead(r) \/ SubmitReadAppeals(r) \/ Abort(r)
    BY <1>2, <2>4 DEF ClaimRefused, RuleOpen, RuleRefused, Notify, SubmitRead, SubmitReadAppeals,
       Abort, OnlyRequest
  <2>5. QED
    BY <2>1, <2>2, <2>3, <2>4 DEF RequestStep
<1>5. QED
  BY <1>1, <1>3, <1>4

LEMMA StepAbsent == IInv /\ AbsentUnheld /\ [Next]_vars => AbsentUnheld'
<1>1. SUFFICES ASSUME IInv, AbsentUnheld, [Next]_vars PROVE AbsentUnheld'
  OBVIOUS
<1>2. CASE UNCHANGED case
  BY <1>1, <1>2 DEF AbsentUnheld
<1>3. CASE UNCHANGED vars
  BY <1>2, <1>3 DEF vars
<1>4. CASE Next
  <2>1. PICK r \in Requests : RequestStep(r)
    BY <1>4 DEF Next
  <2>2. case \in [Cases -> CaseRow]
    BY <1>1 DEF IInv, TypeOK
  <2>3. CASE Claim(r) \/ RuleCommit(r)
    BY <1>1, <2>2, <2>3 DEF Claim, RuleCommit, AbsentUnheld, CaseRow
  <2>4. CASE SubmitCommit(r)
    BY <1>1, <2>2, <2>4 DEF SubmitCommit, AbsentUnheld, CaseRow
  <2>5. CASE JudgeCommit(r) \/ AppealCreate(r)
    BY <1>1, <1>2, <2>2, <2>5 DEF JudgeCommit, AppealCreate, AbsentUnheld
  <2>6. CASE (\E p \in People, c \in Cases : ClaimRead(r, p, c) \/ RuleRead(r, p, c))
             \/ (\E s \in Stamps : JudgeOpen(r, s) \/ AppealRead(r, s))
    BY <1>2, <2>6 DEF ClaimRead, RuleRead, JudgeOpen, AppealRead, OnlyRequest
  <2>7. CASE ClaimRefused(r) \/ RuleOpen(r) \/ RuleRefused(r) \/ Notify(r)
             \/ SubmitRead(r) \/ SubmitReadAppeals(r) \/ Abort(r)
    BY <1>2, <2>7 DEF ClaimRefused, RuleOpen, RuleRefused, Notify, SubmitRead, SubmitReadAppeals,
       Abort, OnlyRequest
  <2>8. QED
    BY <2>1, <2>3, <2>4, <2>5, <2>6, <2>7 DEF RequestStep
<1>5. QED
  BY <1>1, <1>3, <1>4

\* Each case is opened once, held by one person whom only an administrator
\* replaces, and ended once, whatever the requests do (CaseDesk).
THEOREM DeskIsKept == Spec => DeskKept
<1>1. Spec => Desk!Init /\ [][Desk!Next]_(Desk!vars)
  BY InitInvariant, StepInvariant, InitDesk, StepAbsent, StepDesk, PTL DEF Spec
<1>2. QED
  BY <1>1 DEF DeskKept, Desk!Spec

------------------------------------------------------------------------------
(* One request at a time.  As long as no two have overlapped, what the one  *)
(* in flight has read is still so when it commits: its parent is the newest *)
(* decision of its submission, its stamp is the newest of all and the       *)
(* certification row still calls for what it found.                         *)

\* Nothing is about a submission of the future, and a decision comes after the
\* submission it is about.
SubsPast ==
    /\ \A s \in Stamps : status[s] # "ABSENT" => s <= clock
    /\ \A c \in Cases : case[c].sub <= clock
    /\ \A r \in Requests : /\ request[r].sub <= clock
                           /\ request[r].pc \in {"rule", "ruling", "judging"} => request[r].sub < request[r].at
    /\ \A d \in decisions : d.sub < d.at

\* What request q has read still holds.
Fresh(q) ==
    /\ q.pc \in {"rule", "ruling", "judging"} => \A d \in decisions : d.at < q.at
    /\ q.pc \in {"rule", "ruling"} => \A d \in decisions : d.sub = q.sub => d.at <= q.parent
    /\ q.pc \in {"ruling", "judging"} => q.upsert = Upsert(q.sub, q.verdict)

\* The row is as young as every pass, or a still newer attempt has failed.
PassesKept ==
    /\ cert.status = "NOT_CERTIFIED" => cert.passedAt = Never
    /\ \A d \in decisions : d.verdict = "pass" =>
           \/ d.at <= cert.passedAt
           \/ \E e \in decisions : e.verdict = "fail" /\ d.at <= e.sub

SerialInv ==
    overlapped \/ (Alone /\ ParentIsPrior /\ PassesKept /\ \A r \in Requests : Fresh(request[r]))

LEMMA InitSerial == HInit => SubsPast /\ SerialInv
<1>1. SUFFICES ASSUME HInit PROVE SubsPast /\ SerialInv
  OBVIOUS
<1>2. SubsPast
  BY <1>1 DEF HInit, Init, SubsPast, NoRow, Idle, Never
<1>3. Alone /\ ParentIsPrior
  BY <1>1 DEF HInit, Init, Alone, Active, Idle, ParentIsPrior
<1>4. PassesKept
  BY <1>1 DEF HInit, Init, PassesKept, NoCert
<1>5. \A r \in Requests : Fresh(request[r])
  BY <1>1 DEF HInit, Init, Fresh, Idle
<1>6. QED
  BY <1>2, <1>3, <1>4, <1>5 DEF SerialInv

\* The moments are numbers.
LEMMA Moments ==
    ASSUME IInv
    PROVE  /\ clock \in Nat
           /\ \A d \in decisions : d.at \in Int /\ d.sub \in Int /\ d.sub \in Stamps
           /\ \A c \in Cases : case[c].sub \in Int
           /\ \A r \in Requests : request[r].sub \in Int /\ request[r].at \in Int
           /\ cert.passedAt \in Int
  BY DEF IInv, TypeOK, Decision, CaseRow, Request, Moment, Stamps, Never

\* A step of one request, whose submissions and cases are of the past.
LEMMA SubsStep ==
    ASSUME IInv, LineageInv, SubsPast, NEW r \in Requests, NEW q,
           request' = [request EXCEPT ![r] = q],
           q.sub \in Int, q.sub <= clock',
           q.pc \in {"rule", "ruling", "judging"} => q.sub < q.at,
           clock' \in Nat, clock <= clock',
           \A s \in Stamps : status'[s] # "ABSENT" => status[s] # "ABSENT" \/ s <= clock,
           \A c \in Cases : case'[c].sub = case[c].sub \/ (case'[c].sub \in Int /\ case'[c].sub <= clock),
           \A d \in decisions' : d \in decisions \/ d.sub < d.at
    PROVE  SubsPast'
<1>1. \A x \in Requests : request'[x] = IF x = r THEN q ELSE request[x]
  BY DEF IInv, TypeOK
<1>2. \A s \in Stamps : status'[s] # "ABSENT" => s <= clock'
  BY Moments DEF SubsPast, Stamps
<1>3. \A c \in Cases : case'[c].sub <= clock'
  BY Moments DEF SubsPast
<1>4. \A x \in Requests : /\ request'[x].sub <= clock'
                          /\ request'[x].pc \in {"rule", "ruling", "judging"} =>
                                 request'[x].sub < request'[x].at
  BY <1>1, Moments DEF SubsPast
<1>5. \A d \in decisions' : d.sub < d.at
  BY DEF SubsPast
<1>6. QED
  BY <1>2, <1>3, <1>4, <1>5 DEF SubsPast

LEMMA StepSubs == IInv /\ LineageInv /\ SubsPast /\ [Next]_vars => SubsPast'
<1>1. SUFFICES ASSUME IInv, LineageInv, SubsPast, [Next]_vars PROVE SubsPast'
  OBVIOUS
<1>2. CASE UNCHANGED vars
  BY <1>1, <1>2 DEF SubsPast, vars
<1>3. CASE Next
  <2>1. PICK r \in Requests : RequestStep(r)
    BY <1>3 DEF Next
  <2>2. /\ clock \in Nat /\ request \in [Requests -> Request]
        /\ \A x \in Requests : request[x].sub \in Int /\ request[x].sub <= clock
        /\ \A c \in Cases : case[c].sub \in Int /\ case[c].sub <= clock
    BY <1>1, Moments DEF IInv, TypeOK, SubsPast
  <2>3. Idle.pc = "idle" /\ Idle.sub = Never /\ Never = 0
    BY DEF Idle, Never
  <2>4. ASSUME NEW p \in People, NEW c \in Cases, ClaimRead(r, p, c) PROVE SubsPast'
    <3> DEFINE q == [Idle EXCEPT !.pc = "claim", !.by = p, !.case = c]
    <3>1. q.pc = "claim" /\ q.sub = 0
      BY <2>3 DEF Idle
    <3>2. request' = [request EXCEPT ![r] = q] /\ UNCHANGED <<status, decisions, case, clock>>
      BY <2>4 DEF ClaimRead, OnlyRequest
    <3> HIDE DEF q
    <3>3. q.sub \in Int /\ q.sub <= clock' /\ clock' \in Nat /\ clock <= clock'
      BY <2>2, <3>1, <3>2
    <3>4. QED
      BY <1>1, <2>2, <3>1, <3>2, <3>3, SubsStep
  <2>5. ASSUME NEW s \in Stamps, AppealRead(r, s) PROVE SubsPast'
    <3> DEFINE q == [Idle EXCEPT !.pc = "appeal", !.sub = s]
    <3>1. q.pc = "appeal" /\ q.sub = s
      BY DEF Idle
    <3>2. s \in Int /\ s <= clock
      <4>1. PICK d \in decisions : d.sub = s
        BY <2>5 DEF AppealRead, Of
      <4>2. d.sub < d.at /\ d.at <= clock
        BY <1>1, <4>1 DEF SubsPast, LineageInv
      <4>3. QED
        BY <1>1, <2>2, <4>1, <4>2, Moments
    <3>3. request' = [request EXCEPT ![r] = q] /\ UNCHANGED <<status, decisions, case, clock>>
      BY <2>5 DEF AppealRead, OnlyRequest
    <3> HIDE DEF q
    <3>4. q.sub \in Int /\ q.sub <= clock' /\ clock' \in Nat /\ clock <= clock'
      BY <2>2, <3>1, <3>2, <3>3
    <3>5. QED
      BY <1>1, <2>2, <3>1, <3>3, <3>4, SubsStep
  <2>6. ASSUME NEW p \in People, NEW c \in Cases, RuleRead(r, p, c) PROVE SubsPast'
    <3>1. PICK v \in {"pass", "fail"} :
              request' = [request EXCEPT ![r] =
                  [Idle EXCEPT !.pc = "rule", !.by = p, !.case = c, !.sub = case[c].sub,
                               !.at = Now, !.parent = ParentOf(case[c].sub), !.verdict = v]]
      BY <2>6 DEF RuleRead
    <3> DEFINE q == [Idle EXCEPT !.pc = "rule", !.by = p, !.case = c, !.sub = case[c].sub,
                                 !.at = Now, !.parent = ParentOf(case[c].sub), !.verdict = v]
    <3>2. q.sub = case[c].sub /\ q.at = Now
      BY DEF Idle
    <3>3. /\ request' = [request EXCEPT ![r] = q] /\ UNCHANGED <<status, decisions, case>>
          /\ clock' = Now /\ Now = clock + 1
      BY <2>6, <3>1 DEF RuleRead, Tick, Now
    <3> HIDE DEF q
    <3>4. q.sub < q.at /\ q.sub <= clock' /\ clock' \in Nat /\ clock <= clock' /\ q.sub \in Int
      BY <2>2, <3>2, <3>3
    <3>5. QED
      BY <1>1, <2>2, <3>3, <3>4, SubsStep
  <2>7. ASSUME NEW s \in Stamps, JudgeOpen(r, s) PROVE SubsPast'
    <3>1. PICK v \in {"pass", "fail", "review"} :
              request' = [request EXCEPT ![r] =
                  [Idle EXCEPT !.pc = "judging", !.sub = s, !.at = Now, !.verdict = v,
                               !.upsert = Upsert(s, v)]]
      BY <2>7 DEF JudgeOpen
    <3> DEFINE q == [Idle EXCEPT !.pc = "judging", !.sub = s, !.at = Now, !.verdict = v,
                                 !.upsert = Upsert(s, v)]
    <3>2. q.sub = s /\ q.at = Now
      BY DEF Idle
    <3>3. /\ request' = [request EXCEPT ![r] = q] /\ UNCHANGED <<status, decisions, case>>
          /\ clock' = Now /\ Now = clock + 1
      BY <2>7, <3>1 DEF JudgeOpen, Tick, Now
    <3> HIDE DEF q
    <3>4. s \in Int /\ s <= clock
      BY <1>1, <2>7 DEF JudgeOpen, SubsPast, Stamps
    <3>5. q.sub < q.at /\ q.sub <= clock' /\ clock' \in Nat /\ clock <= clock' /\ q.sub \in Int
      BY <2>2, <3>2, <3>3, <3>4
    <3>6. QED
      BY <1>1, <2>2, <3>3, <3>5, SubsStep
  <2>8. CASE RuleOpen(r) \/ SubmitReadAppeals(r)
    <3> DEFINE u == [request[r] EXCEPT !.pc = "ruling",
                                       !.upsert = Upsert(request[r].sub, request[r].verdict)]
               a == [request[r] EXCEPT !.pc = "appeals", !.found = request[r].found \cup LiveOf("appeal")]
    <3>1. PICK q : /\ request' = [request EXCEPT ![r] = q]
                   /\ q.sub = request[r].sub /\ q.at = request[r].at
                   /\ q.pc \in {"rule", "ruling", "judging"} => request[r].pc = "rule"
      <4>1. CASE RuleOpen(r)
        <5> WITNESS u
        <5>1. request' = [request EXCEPT ![r] = u]
          BY <2>2, <4>1 DEF RuleOpen
        <5>2. u.sub = request[r].sub /\ u.at = request[r].at /\ request[r].pc = "rule"
          BY <2>2, <4>1 DEF RuleOpen, Request
        <5>3. QED
          BY <5>1, <5>2
      <4>2. CASE SubmitReadAppeals(r)
        <5> WITNESS a
        <5>1. request' = [request EXCEPT ![r] = a]
          BY <2>2, <4>2 DEF SubmitReadAppeals
        <5>2. a.sub = request[r].sub /\ a.at = request[r].at /\ a.pc = "appeals"
          BY <2>2 DEF Request
        <5>3. QED
          BY <5>1, <5>2
      <4>3. QED
        BY <2>8, <4>1, <4>2
    <3>2. UNCHANGED <<status, decisions, case, clock>>
      BY <2>8 DEF RuleOpen, SubmitReadAppeals, OnlyRequest
    <3>3. q.sub \in Int /\ q.sub <= clock' /\ clock' \in Nat /\ clock <= clock' /\ (q.pc \in {"rule", "ruling", "judging"} => q.sub < q.at)
      BY <1>1, <2>2, <3>1, <3>2 DEF SubsPast
    <3>4. QED
      BY <1>1, <2>2, <3>1, <3>2, <3>3, SubsStep
  <2>9. CASE SubmitRead(r)
    <3> DEFINE q == [Idle EXCEPT !.pc = "reviews", !.sub = Now, !.found = LiveOf("review")]
    <3>1. q.pc = "reviews" /\ q.sub = Now
      BY DEF Idle
    <3>2. /\ request' = [request EXCEPT ![r] = q] /\ UNCHANGED <<status, decisions, case>>
          /\ clock' = Now /\ Now = clock + 1
      BY <2>9 DEF SubmitRead, Tick, Now
    <3> HIDE DEF q
    <3>3. q.sub \in Int /\ q.sub <= clock' /\ clock' \in Nat /\ clock <= clock'
      BY <2>2, <3>1, <3>2
    <3>4. QED
      BY <1>1, <2>2, <3>1, <3>2, <3>3, SubsStep
  <2>10. CASE Claim(r) \/ ClaimRefused(r) \/ RuleRefused(r) \/ Notify(r) \/ Abort(r) \/ AppealCreate(r)
              \/ JudgeCommit(r) \/ SubmitCommit(r)
    <3>1. request' = [request EXCEPT ![r] = Idle] /\ clock' = clock
      BY <2>10 DEF Claim, ClaimRefused, RuleRefused, Notify, Abort, AppealCreate, JudgeCommit,
         SubmitCommit, OnlyRequest
    <3>2. \A s \in Stamps : status'[s] # "ABSENT" => status[s] # "ABSENT" \/ s <= clock
      <4>1. CASE AppealCreate(r) \/ JudgeCommit(r)
        <5>1. PICK x : status' = [status EXCEPT ![request[r].sub] = x]
          BY <4>1 DEF AppealCreate, JudgeCommit
        <5>2. QED
          BY <2>2, <5>1, <1>1 DEF IInv, TypeOK
      <4>2. CASE SubmitCommit(r)
        <5>1. \A s \in Abandoned(request[r].found) : s <= clock
          BY <2>2 DEF Abandoned, Request
        <5>2. QED
          BY <2>2, <4>2, <5>1 DEF SubmitCommit
      <4>3. QED
        BY <2>10, <4>1, <4>2 DEF Claim, ClaimRefused, RuleRefused, Notify, Abort, OnlyRequest
    <3>3. \A c \in Cases : case'[c].sub = case[c].sub \/ (case'[c].sub \in Int /\ case'[c].sub <= clock)
      <4>1. case \in [Cases -> CaseRow]
        BY <1>1 DEF IInv, TypeOK
      <4>2. CASE Claim(r)
        BY <4>1, <4>2 DEF Claim, CaseRow
      <4>3. CASE SubmitCommit(r)
        BY <4>1, <4>3 DEF SubmitCommit, CaseRow
      <4>4. CASE AppealCreate(r) \/ JudgeCommit(r)
        BY <2>2, <4>1, <4>4 DEF AppealCreate, JudgeCommit
      <4>5. QED
        BY <2>10, <4>2, <4>3, <4>4 DEF ClaimRefused, RuleRefused, Notify, Abort, OnlyRequest
    <3>4. \A d \in decisions' : d \in decisions \/ d.sub < d.at
      <4>1. CASE JudgeCommit(r)
        BY <1>1, <4>1 DEF JudgeCommit, SubsPast
      <4>2. QED
        BY <2>10, <4>1 DEF Claim, ClaimRefused, RuleRefused, Notify, Abort, AppealCreate, SubmitCommit,
           OnlyRequest
    <3>5. Idle.sub \in Int /\ Idle.sub <= clock' /\ clock' \in Nat /\ clock <= clock'
      BY <2>2, <2>3, <3>1
    <3>6. QED
      BY <1>1, <2>2, <2>3, <3>1, <3>2, <3>3, <3>4, <3>5, SubsStep
  <2>11. CASE RuleCommit(r)
    <3> DEFINE q == [Idle EXCEPT !.pc = "notify", !.at = request[r].at]
    <3>1. q.pc = "notify" /\ q.sub = 0
      BY <2>3 DEF Idle
    <3>2. request' = [request EXCEPT ![r] = q] /\ clock' = clock
      BY <2>11 DEF RuleCommit
    <3>3. \A s \in Stamps : status'[s] # "ABSENT" => status[s] # "ABSENT" \/ s <= clock
      BY <1>1, <2>2, <2>11 DEF RuleCommit, IInv, TypeOK
    <3>4. \A c \in Cases : case'[c].sub = case[c].sub
      BY <1>1, <2>11 DEF RuleCommit, IInv, TypeOK, CaseRow
    <3>5. \A d \in decisions' : d \in decisions \/ d.sub < d.at
      BY <1>1, <2>11 DEF RuleCommit, SubsPast
    <3> HIDE DEF q
    <3>6. q.sub \in Int /\ q.sub <= clock' /\ clock' \in Nat /\ clock <= clock'
      BY <2>2, <3>1, <3>2
    <3>7. QED
      BY <1>1, <2>2, <3>1, <3>2, <3>3, <3>4, <3>5, <3>6, SubsStep
  <2>12. QED
    BY <2>1, <2>4, <2>5, <2>6, <2>7, <2>8, <2>9, <2>10, <2>11 DEF RequestStep
<1>4. QED
  BY <1>1, <1>2, <1>3

\* A request that moves while nothing is decided or certified.
LEMMA FreshMove ==
    ASSUME IInv, \A x \in Requests : Fresh(request[x]), NEW r \in Requests, NEW q,
           request' = [request EXCEPT ![r] = q], UNCHANGED <<decisions, cert>>, Fresh(q)
    PROVE  \A x \in Requests : Fresh(request[x])'
<1>1. \A x \in Requests : request'[x] = IF x = r THEN q ELSE request[x]
  BY DEF IInv, TypeOK
<1>2. \A x \in Requests : Fresh(request'[x])
  BY <1>1
<1>3. QED
  BY <1>2 DEF Fresh, Upsert

\* A verdict commits while no other request is in flight: it is younger than
\* every decision there is, and what it does to the certification row is what
\* the row calls for.
Appends(r, n, d) ==
    /\ Writing(r)
    /\ n.pc \in {"idle", "notify"} /\ request' = [request EXCEPT ![r] = n]
    /\ d \in Decision /\ decisions' = decisions \cup {d}
    /\ d.at = request[r].at /\ d.sub = request[r].sub /\ d.verdict = request[r].verdict
    /\ d.parent # Never => request[r].pc = "ruling" /\ d.parent = request[r].parent
    /\ cert' = IF d.verdict = "review" THEN cert ELSE Certified(d.at, d.verdict, request[r].upsert)

LEMMA AppendSerial ==
    ASSUME IInv, LineageInv, SubsPast, Alone, ParentIsPrior, PassesKept,
           NEW r \in Requests, Fresh(request[r]), NEW n, NEW d, Appends(r, n, d)
    PROVE  ParentIsPrior' /\ PassesKept' /\ \A x \in Requests : Fresh(request[x])'
<1>1. /\ \A e \in decisions : e.at < d.at /\ e.at \in Int /\ e.sub \in Int
      /\ request[r].upsert = Upsert(d.sub, d.verdict)
      /\ d.at \in Int /\ d.sub \in Int /\ d.at \in Stamps /\ d.sub < d.at
  BY Moments DEF Appends, Writing, Fresh, Decision, SubsPast, Stamps
<1>2. d.parent # Never => \A e \in decisions : e.sub = d.sub => e.at <= d.parent
  BY DEF Appends, Fresh
<1>3. ParentIsPrior'
  <2>1. SUFFICES ASSUME NEW f \in decisions', NEW e \in decisions', f.parent # Never, f.sub = e.sub
                 PROVE  ~(f.parent < e.at /\ e.at < f.at)
    BY DEF ParentIsPrior
  <2>2. f.parent \in Int /\ e.at \in Int
    BY <2>1, Moments DEF Appends, IInv, TypeOK, Decision, Stamps, Moment, Never
  <2>3. CASE f \in decisions /\ e \in decisions
    BY <2>1, <2>3 DEF ParentIsPrior
  <2>4. CASE f = d /\ e \in decisions
    BY <1>2, <2>1, <2>2, <2>4
  <2>5. CASE e = d
    BY <1>1, <2>1, <2>5 DEF Appends
  <2>6. QED
    BY <2>1, <2>3, <2>4, <2>5 DEF Appends
<1>4. PassesKept'
  <2>1. /\ cert'.status = "NOT_CERTIFIED" => cert'.passedAt = Never
        /\ cert' = cert \/ cert'.passedAt = d.at \/ cert'.passedAt = Never
    BY DEF Appends, PassesKept, Certified
  <2>2. ASSUME NEW e \in decisions', e.verdict = "pass"
        PROVE  \/ e.at <= cert'.passedAt
               \/ \E f \in decisions' : f.verdict = "fail" /\ e.at <= f.sub
    <3>1. CASE d.verdict = "pass"
      <4>1. cert'.passedAt = d.at
        BY <1>1, <3>1 DEF Appends, Certified, Upsert
      <4>2. e.at <= d.at
        BY <1>1, <2>2 DEF Appends
      <4>3. QED
        BY <4>1, <4>2
    <3>2. CASE d.verdict # "pass"
      <4>1. e \in decisions
        BY <2>2, <3>2 DEF Appends
      <4>2. CASE \E f \in decisions : f.verdict = "fail" /\ e.at <= f.sub
        BY <4>2 DEF Appends
      <4>3. CASE e.at <= cert.passedAt /\ cert' = cert
        BY <4>3
      <4>4. CASE e.at <= cert.passedAt /\ cert' # cert
        <5>1. d.verdict = "fail" /\ ~(cert.passedAt > d.sub)
          BY <1>1, <3>2, <4>4 DEF Appends, Certified, Upsert, Decision
        <5>2. e.at <= d.sub
          BY <1>1, <4>1, <4>4, <5>1, Moments
        <5>3. QED
          BY <5>1, <5>2 DEF Appends
      <4>5. QED
        BY <2>2, <4>1, <4>2, <4>3, <4>4 DEF PassesKept
    <3>3. QED
      BY <3>1, <3>2
  <2>3. QED
    BY <2>1, <2>2 DEF PassesKept
<1>5. ASSUME NEW x \in Requests PROVE request'[x].pc \in {"idle", "notify"}
  <2>1. request'[x] = IF x = r THEN n ELSE request[x]
    BY DEF Appends, IInv, TypeOK
  <2>2. x # r => request[x].pc = "idle"
    BY DEF Appends, Alone, Active, Writing
  <2>3. QED
    BY <2>1, <2>2 DEF Appends
<1>6. \A x \in Requests : Fresh(request[x])'
  BY <1>5 DEF Fresh
<1>7. QED
  BY <1>3, <1>4, <1>6

LEMMA StepSerial ==
    IInv /\ LineageInv /\ SubsPast /\ SerialInv /\ [HNext]_<<vars, overlapped>> => SerialInv'
<1>1. SUFFICES ASSUME IInv, LineageInv, SubsPast, SerialInv, [HNext]_<<vars, overlapped>>, ~overlapped'
               PROVE  (Alone /\ ParentIsPrior /\ PassesKept /\ \A x \in Requests : Fresh(request[x]))'
  BY DEF SerialInv
<1>2. CASE UNCHANGED <<vars, overlapped>>
  <2>1. UNCHANGED <<decisions, cert, request, overlapped>>
    BY <1>2 DEF vars
  <2>2. QED
    BY <1>1, <2>1 DEF SerialInv, Alone, Active, ParentIsPrior, PassesKept, Fresh, Upsert
<1>3. CASE HNext
  <2>1. PICK r \in Requests : RequestStep(r)
    BY <1>3 DEF HNext, Next
  <2>2. /\ Alone' /\ Alone /\ ParentIsPrior /\ PassesKept
        /\ \A x \in Requests : Fresh(request[x])
    BY <1>1, <1>3 DEF HNext, SerialInv
  <2> DEFINE Kept == ParentIsPrior' /\ PassesKept' /\ \A x \in Requests : Fresh(request[x])'
  <2>3. /\ clock \in Nat /\ request \in [Requests -> Request]
        /\ \A d \in decisions : d.at \in Int /\ d.at <= clock
    BY <1>1, Moments DEF IInv, TypeOK, LineageInv
  <2>4. Idle.pc = "idle"
    BY DEF Idle
  <2>5. ASSUME NEW q, request' = [request EXCEPT ![r] = q], UNCHANGED <<decisions, cert>>, Fresh(q)
        PROVE  Kept
    <3>1. \A x \in Requests : Fresh(request[x])'
      BY <1>1, <2>2, <2>5, FreshMove
    <3>2. ParentIsPrior' /\ PassesKept'
      BY <2>2, <2>5 DEF ParentIsPrior, PassesKept
    <3>3. QED
      BY <3>1, <3>2
  <2>6. ASSUME NEW q, request' = [request EXCEPT ![r] = q], UNCHANGED <<decisions, cert>>,
               q.pc \notin {"rule", "ruling", "judging"}
        PROVE  Kept
    <3>1. Fresh(q)
      BY <2>6 DEF Fresh
    <3>2. QED
      BY <2>5, <2>6, <3>1
  <2>7. ASSUME NEW p \in People, NEW c \in Cases, ClaimRead(r, p, c) PROVE Kept
    <3> DEFINE q == [Idle EXCEPT !.pc = "claim", !.by = p, !.case = c]
    <3>1. q.pc = "claim" /\ request' = [request EXCEPT ![r] = q] /\ UNCHANGED <<decisions, cert>>
      BY <2>7 DEF ClaimRead, OnlyRequest, Idle
    <3> HIDE DEF q
    <3>2. QED
      BY <2>6, <3>1
  <2>8. ASSUME NEW s \in Stamps, AppealRead(r, s) PROVE Kept
    <3> DEFINE q == [Idle EXCEPT !.pc = "appeal", !.sub = s]
    <3>1. q.pc = "appeal" /\ request' = [request EXCEPT ![r] = q] /\ UNCHANGED <<decisions, cert>>
      BY <2>8 DEF AppealRead, OnlyRequest, Idle
    <3> HIDE DEF q
    <3>2. QED
      BY <2>6, <3>1
  <2>9. CASE Claim(r) \/ ClaimRefused(r) \/ RuleRefused(r) \/ Notify(r) \/ Abort(r) \/ AppealCreate(r)
             \/ SubmitCommit(r)
    <3>1. request' = [request EXCEPT ![r] = Idle] /\ UNCHANGED <<decisions, cert>>
      BY <2>9 DEF Claim, ClaimRefused, RuleRefused, Notify, Abort, AppealCreate, SubmitCommit, OnlyRequest
    <3>2. QED
      BY <2>2, <2>4, <2>6, <3>1
  <2>10. CASE SubmitRead(r) \/ SubmitReadAppeals(r)
    <3> DEFINE q == [Idle EXCEPT !.pc = "reviews", !.sub = Now, !.found = LiveOf("review")]
               a == [request[r] EXCEPT !.pc = "appeals", !.found = request[r].found \cup LiveOf("appeal")]
    <3>1. q.pc = "reviews" /\ a.pc = "appeals" /\ UNCHANGED <<decisions, cert>>
          /\ (request' = [request EXCEPT ![r] = q] \/ request' = [request EXCEPT ![r] = a])
      BY <2>3, <2>10 DEF SubmitRead, SubmitReadAppeals, OnlyRequest, Idle, Request
    <3> HIDE DEF q, a
    <3>2. QED
      BY <2>2, <2>6, <3>1
  <2>11. ASSUME NEW p \in People, NEW c \in Cases, RuleRead(r, p, c) PROVE Kept
    <3>1. PICK v \in {"pass", "fail"} :
              request' = [request EXCEPT ![r] =
                  [Idle EXCEPT !.pc = "rule", !.by = p, !.case = c, !.sub = case[c].sub,
                               !.at = Now, !.parent = ParentOf(case[c].sub), !.verdict = v]]
      BY <2>11 DEF RuleRead
    <3> DEFINE q == [Idle EXCEPT !.pc = "rule", !.by = p, !.case = c, !.sub = case[c].sub,
                                 !.at = Now, !.parent = ParentOf(case[c].sub), !.verdict = v]
    <3>2. q.pc = "rule" /\ q.at = Now /\ q.sub = case[c].sub /\ q.parent = ParentOf(case[c].sub)
      BY DEF Idle
    <3>3. request' = [request EXCEPT ![r] = q] /\ UNCHANGED <<decisions, cert>>
      BY <2>11, <3>1 DEF RuleRead
    <3> HIDE DEF q
    <3>4. \A d \in decisions : d.at < q.at
      BY <2>3, <3>2 DEF Now
    <3>5. \A d \in decisions : d.sub = q.sub => d.at <= q.parent
      <4>1. SUFFICES ASSUME NEW d \in decisions, d.sub = q.sub PROVE d.at <= q.parent
        OBVIOUS
      <4>2. d \in Of(case[c].sub) /\ Of(case[c].sub) \subseteq decisions
        BY <3>2, <4>1 DEF Of
      <4>3. d.at <= Newest(Of(case[c].sub)).at
        <5>1. Of(case[c].sub) # {} /\ TypeOK
          BY <1>1, <4>2 DEF IInv
        <5>2. QED
          BY <4>2, <5>1, NewestExists
      <4>4. QED
        BY <3>2, <4>3 DEF ParentOf
    <3>6. Fresh(q)
      BY <3>2, <3>4, <3>5 DEF Fresh
    <3>7. QED
      BY <2>5, <3>3, <3>6
  <2>12. CASE RuleOpen(r)
    <3> DEFINE u == Upsert(request[r].sub, request[r].verdict)
               q == [request[r] EXCEPT !.pc = "ruling", !.upsert = u]
    <3>1. /\ q.pc = "ruling" /\ q.at = request[r].at /\ q.sub = request[r].sub
          /\ q.parent = request[r].parent /\ q.verdict = request[r].verdict /\ q.upsert = u
          /\ request[r].pc = "rule"
      BY <2>3, <2>12 DEF RuleOpen, Request
    <3>2. request' = [request EXCEPT ![r] = q] /\ UNCHANGED <<decisions, cert>>
      BY <2>3, <2>12 DEF RuleOpen, OnlyRequest
    <3> HIDE DEF q
    <3>3. Fresh(request[r])
      BY <2>2
    <3>4. Fresh(q)
      BY <3>1, <3>3 DEF Fresh
    <3>5. QED
      BY <2>2, <2>5, <3>2, <3>4
  <2>13. ASSUME NEW s \in Stamps, JudgeOpen(r, s) PROVE Kept
    <3>1. PICK v \in {"pass", "fail", "review"} :
              request' = [request EXCEPT ![r] =
                  [Idle EXCEPT !.pc = "judging", !.sub = s, !.at = Now, !.verdict = v,
                               !.upsert = Upsert(s, v)]]
      BY <2>13 DEF JudgeOpen
    <3> DEFINE q == [Idle EXCEPT !.pc = "judging", !.sub = s, !.at = Now, !.verdict = v,
                                 !.upsert = Upsert(s, v)]
    <3>2. q.pc = "judging" /\ q.at = Now /\ q.sub = s /\ q.verdict = v /\ q.upsert = Upsert(s, v)
      BY DEF Idle
    <3>3. request' = [request EXCEPT ![r] = q] /\ UNCHANGED <<decisions, cert>>
      BY <2>13, <3>1 DEF JudgeOpen
    <3> HIDE DEF q
    <3>4. \A d \in decisions : d.at < q.at
      BY <2>3, <3>2 DEF Now
    <3>5. Fresh(q)
      BY <3>2, <3>4 DEF Fresh
    <3>6. QED
      BY <2>5, <3>3, <3>5
  <2>14. CASE RuleCommit(r) \/ JudgeCommit(r)
    <3>1. request[r] \in Request /\ Writing(r) /\ InFlight(request[r]) /\ Stands(request[r], clock)
      BY <1>1, <2>14 DEF IInv, TypeOK, Writing, RuleCommit, JudgeCommit, RequestsInv, LineageInv
    <3>2. PICK n, d : Appends(r, n, d)
      <4> DEFINE q == request[r]
                 a == [Idle EXCEPT !.pc = "notify", !.at = q.at]
                 b == [at |-> q.at, sub |-> q.sub, parent |-> q.parent,
                       verdict |-> q.verdict, case |-> q.case]
                 j == [at |-> q.at, sub |-> q.sub, parent |-> Never,
                       verdict |-> q.verdict, case |-> NoCase]
      <4>1. CASE RuleCommit(r)
        <5>1. a.pc = "notify" /\ request' = [request EXCEPT ![r] = a]
          BY <4>1 DEF RuleCommit, Idle
        <5>2. b \in Decision /\ b.verdict # "review" /\ decisions' = decisions \cup {b} /\ q.pc = "ruling"
          BY <3>1, <4>1 DEF RuleCommit, InFlight, Decision, Request
        <5>3. cert' = Certified(q.at, q.verdict, q.upsert)
          BY <4>1 DEF RuleCommit
        <5>4. Appends(r, a, b)
          BY <3>1, <5>1, <5>2, <5>3 DEF Appends
        <5>5. QED
          BY <5>4
      <4>2. CASE JudgeCommit(r)
        <5>1. request' = [request EXCEPT ![r] = Idle]
          BY <4>2 DEF JudgeCommit
        <5>2. j \in Decision /\ decisions' = decisions \cup {j}
          BY <3>1, <4>2 DEF JudgeCommit, InFlight, Decision, Request, Moment
        <5>3. cert' = IF q.verdict = "review" THEN cert ELSE Certified(q.at, q.verdict, q.upsert)
          BY <4>2 DEF JudgeCommit
        <5>4. Appends(r, Idle, j)
          BY <2>4, <3>1, <5>1, <5>2, <5>3 DEF Appends
        <5>5. QED
          BY <5>4
      <4>3. QED
        BY <2>14, <4>1, <4>2
    <3>3. QED
      BY <1>1, <2>2, <3>1, <3>2, AppendSerial
  <2>15. Kept
    BY <2>1, <2>7, <2>8, <2>9, <2>10, <2>11, <2>12, <2>13, <2>14 DEF RequestStep
  <2>16. QED
    BY <2>2, <2>15
<1>4. QED
  BY <1>1, <1>2, <1>3

\* The history is kept beside the system and changes nothing in it.
LEMMA SerialInvariant == HSpec => []SerialInv
<1>1. HInit => Init
  BY DEF HInit
<1>2. [HNext]_<<vars, overlapped>> => [Next]_vars
  BY DEF HNext, vars
<1>3. QED
  BY <1>1, <1>2, InitInvariant, StepInvariant, InitLineage, StepLineage, InitSerial, StepSubs, StepSerial, PTL
  DEF HSpec

\* As long as requests come one after the other, every ruling stands on the
\* decision before it: none of its submission lies in between.
THEOREM ParentIsPriorWhenAlone == HSpec => []ParentIsPriorAlone
<1>1. SerialInv => ParentIsPriorAlone
  BY DEF SerialInv, ParentIsPriorAlone
<1>2. QED
  BY <1>1, SerialInvariant, PTL

\* As long as requests come one after the other, a participant is without a
\* certificate only when an attempt newer than each of his passes has failed.
THEOREM NewerPassStandsWhenAlone == HSpec => []NewerPassStandsAlone
<1>1. ASSUME IInv, LineageInv, SubsPast, SerialInv PROVE NewerPassStandsAlone
  <2>1. SUFFICES ASSUME PassesKept, cert.status = "NOT_CERTIFIED", NEW d \in decisions, d.verdict = "pass"
                 PROVE  \E e \in decisions : e.verdict = "fail" /\ e.sub > d.sub
    BY <1>1 DEF SerialInv, NewerPassStandsAlone, NewerPassStands
  <2>2. d.sub < d.at /\ d.at \in Nat /\ d.at # 0 /\ d.sub \in Int
    BY <1>1, Moments DEF SubsPast, IInv, TypeOK, Decision, Stamps
  <2>3. cert.passedAt = 0
    BY <2>1 DEF PassesKept, Never
  <2>4. PICK e \in decisions : e.verdict = "fail" /\ d.at <= e.sub
    BY <2>1, <2>2, <2>3 DEF PassesKept
  <2>5. e.sub \in Int
    BY <1>1, Moments
  <2>6. QED
    BY <2>2, <2>4, <2>5
<1>2. HInit => Init
  BY DEF HInit
<1>3. [HNext]_<<vars, overlapped>> => [Next]_vars
  BY DEF HNext, vars
<1>4. QED
  BY <1>1, <1>2, <1>3, InitInvariant, StepInvariant, InitLineage, StepLineage, InitSerial, StepSubs,
     SerialInvariant, PTL DEF HSpec
=============================================================================
