----------------------- MODULE EvaluationPipelineProofs -----------------------
(***************************************************************************)
(* Proofs about EvaluationPipeline for every rubric, threshold, band and   *)
(* set of answers.                                                         *)
(*                                                                         *)
(* The argument.  The run's place tells which passes were made and why:    *)
(* a second one exactly when the first triggered it, and a forced review   *)
(* exactly when the two disagree.  The rest is about the rules: they are   *)
(* unfolded on the passes that a place leaves possible.  That a better     *)
(* answer is not judged worse rests on the score growing with the rubric,  *)
(* which rounding keeps.                                                   *)
(***************************************************************************)
EXTENDS EvaluationPipeline, TLAPS

------------------------------------------------------------------------------
(* The inductive invariant.                                                 *)

\* The passes that were made, and the reason.
PassesInv ==
    /\ pc = "primary" => primary = None
    /\ pc \in {"trigger", "secondary", "compare", "decide", "done"} => primary \in Results
    /\ pc \in {"primary", "trigger", "secondary", "failed"} => second = None /\ ~forced
    /\ pc \in {"secondary", "compare"} => Triggered(case, primary)
    /\ pc = "compare" => second \in Results
    /\ pc \in {"decide", "done"} =>
          IF second = None THEN ~Triggered(case, primary) /\ ~forced
          ELSE /\ Triggered(case, primary)
               /\ forced = (Disagree(primary, second) /\ ~Suppressed(primary, second))

\* The outcome is that of the last pass.
OutcomeInv ==
    IF pc = "done" THEN outcome = Verdict(case, Final, forced) ELSE outcome = None

IInv == TypeOK /\ PassesInv /\ OutcomeInv

LEMMA NoneApart == None \notin Results /\ None \notin Outcomes
  BY EvaluationAssumption

LEMMA AttemptsPositive == MaxAttempts \in Nat \ {0}
  BY EvaluationAssumption

LEMMA VerdictType ==
    ASSUME NEW c, NEW r, NEW f PROVE Verdict(c, r, f) \in Outcomes
  BY DEF Verdict, Outcomes

------------------------------------------------------------------------------
LEMMA InitInvariant == Init => IInv
<1> SUFFICES ASSUME Init PROVE IInv
  OBVIOUS
<1>1. TypeOK
  <2>1. 1 \in 1 .. MaxAttempts
    BY AttemptsPositive
  <2> QED
    BY <2>1 DEF Init, TypeOK
<1>2. PassesInv /\ OutcomeInv
  BY DEF Init, PassesInv, OutcomeInv
<1> QED
  BY <1>1, <1>2 DEF IInv

LEMMA StepInvariant == IInv /\ [Next]_vars => IInv'
<1> SUFFICES ASSUME IInv, [Next]_vars PROVE IInv'
  OBVIOUS
<1> USE DEF IInv
<1>1. CASE PrimaryPass
  <2>1. TypeOK'
    BY <1>1 DEF TypeOK, PrimaryPass
  <2>2. PassesInv' /\ OutcomeInv'
    BY <1>1 DEF PrimaryPass, PassesInv, OutcomeInv
  <2> QED
    BY <2>1, <2>2
<1>2. CASE EvaluateTrigger
  <2>1. TypeOK'
    BY <1>2 DEF TypeOK, EvaluateTrigger
  <2>2. PassesInv' /\ OutcomeInv'
    BY <1>2 DEF EvaluateTrigger, PassesInv, OutcomeInv
  <2> QED
    BY <2>1, <2>2
<1>3. CASE SecondaryPass
  <2>1. TypeOK'
    BY <1>3 DEF TypeOK, SecondaryPass
  <2>2. PassesInv' /\ OutcomeInv'
    BY <1>3 DEF SecondaryPass, PassesInv, OutcomeInv
  <2> QED
    BY <2>1, <2>2
<1>4. CASE EvaluateDisagreement
  <2>1. TypeOK'
    BY <1>4 DEF TypeOK, EvaluateDisagreement
  <2>2. PassesInv' /\ OutcomeInv'
    BY <1>4, NoneApart DEF EvaluateDisagreement, PassesInv, OutcomeInv
  <2> QED
    BY <2>1, <2>2
<1>5. CASE Decide
  <2>1. outcome' \in Outcomes
    BY <1>5, VerdictType DEF Decide
  <2>2. TypeOK'
    BY <1>5, <2>1 DEF TypeOK, Decide
  <2>3. PassesInv' /\ OutcomeInv'
    BY <1>5 DEF Decide, PassesInv, OutcomeInv, Final
  <2> QED
    BY <2>2, <2>3
<1>6. CASE RunFails
  <2>1. TypeOK'
    <3>1. attempts' \in 1 .. MaxAttempts
      BY <1>6, AttemptsPositive DEF TypeOK, RunFails
    <3> QED
      BY <1>6, <3>1 DEF TypeOK, RunFails
  <2>2. PassesInv' /\ OutcomeInv'
    BY <1>6 DEF RunFails, PassesInv, OutcomeInv
  <2> QED
    BY <2>1, <2>2
<1>7. CASE UNCHANGED vars
  BY <1>7 DEF vars, TypeOK, PassesInv, OutcomeInv, Final
<1> QED
  BY <1>1, <1>2, <1>3, <1>4, <1>5, <1>6, <1>7 DEF Next

\* What is known of a run in every state.
THEOREM Invariant == Spec => []IInv
<1> QED
  BY InitInvariant, StepInvariant, PTL DEF Spec

\* Every variable keeps its type: the cases, answers, outcomes and places of
\* the evaluator.
THEOREM TypeCorrect == Spec => []TypeOK
<1>1. IInv => TypeOK
  BY DEF IInv
<1> QED
  BY <1>1, Invariant, PTL

------------------------------------------------------------------------------
\* An automatic verdict is that of the last pass, and nothing forced a review.
LEMMA Automatically ==
    ASSUME IInv, Automatic
    PROVE  /\ pc = "done" /\ primary \in Results /\ second \in Results \cup {None}
           /\ outcome = Verdict(case, Final, forced)
           /\ ~NeedsReview(case, Final, forced)
<1>1. pc = "done"
  BY NoneApart DEF IInv, OutcomeInv, Automatic, Outcomes
<1>2. outcome = Verdict(case, Final, forced)
  BY <1>1 DEF IInv, OutcomeInv
<1> QED
  BY <1>1, <1>2 DEF IInv, TypeOK, PassesInv, Automatic, Verdict

\* A pass that asked for a human is not followed by an automatic verdict, but
\* for the fail of a short and thin answer.
THEOREM AskingIsHeard == Spec => []HumanIsHeard
<1>1. IInv => HumanIsHeard
  <2> SUFFICES ASSUME IInv, Automatic, NEW r \in Made, Asked(r)
               PROVE  /\ outcome = "fail"
                      /\ Final.insufficient \/ OnlyInsufficientFlags(Final)
                      /\ SubstantiallyShort(case)
    BY DEF HumanIsHeard
  <2>1. /\ pc = "done" /\ primary \in Results /\ second \in Results \cup {None}
        /\ outcome = Verdict(case, Final, forced)
        /\ ~NeedsReview(case, Final, forced)
    BY Automatically
  <2>2. ~forced
    BY <2>1 DEF NeedsReview
  <2>3. RecommendsReview(Final)
    <3>1. CASE r = Final
      BY <3>1 DEF Asked
    <3>2. CASE r # Final
      <4>1. second # None /\ r = primary /\ primary.asks /\ MismatchCounts
        BY <3>2 DEF Asked, Made, Final
      <4>2. ~ClearlyThin(primary)
        BY <2>1, <4>1 DEF IInv, PassesInv, Triggered
      <4>3. ~Disagree(primary, second)
        BY <2>1, <2>2, <4>1, <4>2 DEF IInv, PassesInv, Suppressed
      <4>4. second.asks
        <5>1. primary \in Result /\ second \in Result
          BY <2>1, <4>1, EvaluationAssumption
        <5> QED
          BY <4>1, <4>3, <5>1 DEF Disagree, Result
      <4> QED
        BY <4>1, <4>4 DEF RecommendsReview, Final
    <3> QED
      BY <3>1, <3>2
  <2>4. AutoFails(case, Final, forced)
    BY <2>1, <2>3 DEF NeedsReview
  <2>5. outcome = "fail"
    BY <2>1, <2>4 DEF AutoFails, Verdict
  <2> QED
    BY <2>3, <2>4, <2>5 DEF AutoFails
<1> QED
  BY <1>1, Invariant, PTL

------------------------------------------------------------------------------
(* Scores.                                                                  *)

LEMMA ProductGrows ==
    ASSUME NEW a \in Int, NEW b \in Int, NEW k \in Nat, a <= b
    PROVE  a * k <= b * k /\ a * k \in Int /\ b * k \in Int
  OBVIOUS

LEMMA QuotientGrows ==
    ASSUME NEW a \in Int, NEW b \in Int, NEW n \in Nat \ {0}, a <= b
    PROVE  a \div n <= b \div n
<1> DEFINE q == a \div n
           p == b \div n
<1>1. q \in Int /\ p \in Int /\ n * q <= a /\ b < n * (p + 1)
  OBVIOUS
<1> HIDE DEF q, p
<1>2. ASSUME p + 1 <= q PROVE FALSE
  <2>1. (p + 1) * n <= q * n
    BY <1>1, <1>2, ProductGrows
  <2> QED
    BY <1>1, <2>1
<1>3. q <= p
  BY <1>1, <1>2
<1> QED
  BY <1>3 DEF q, p

LEMMA RoundedGrows ==
    ASSUME NEW a \in Int, NEW b \in Int, NEW n \in Nat \ {0}, a <= b
    PROVE  Rounded(a, n) <= Rounded(b, n) /\ Rounded(a, n) \in Int /\ Rounded(b, n) \in Int
<1>1. /\ 2 * a + n \in Int /\ 2 * b + n \in Int /\ 2 * n \in Nat \ {0}
      /\ 2 * a + n <= 2 * b + n
  OBVIOUS
<1>2. (2 * a + n) \div (2 * n) <= (2 * b + n) \div (2 * n)
  BY <1>1, QuotientGrows
<1> QED
  BY <1>1, <1>2 DEF Rounded

\* What the assumption says of the numbers.
LEMMA Numbers ==
    /\ RubricMax \in Nat \ {0} /\ PracticalMax \in Nat \ {0} /\ McqMax \in Nat
    /\ TotalMin \in Nat /\ BelowMin \in Nat
    /\ YellowRed \in Nat \cup {None} /\ None \notin Int
  BY EvaluationAssumption DEF Points

LEMMA CaseFields ==
    ASSUME NEW c \in Cases
    PROVE  /\ c.mcq \in Nat /\ c.freetextOnly \in BOOLEAN /\ c.policy \in Policy
           /\ Weights(c.policy).practical \in Nat /\ Weights(c.policy).mcq \in Nat
           /\ MinTotal(c.policy) \in Nat
<1>1. c \in Case
  BY EvaluationAssumption
<1>2. c.policy \in Policy /\ c.mcq \in Points /\ c.freetextOnly \in BOOLEAN
  BY <1>1 DEF Case
<1>3. Weights(c.policy).practical \in Nat /\ Weights(c.policy).mcq \in Nat
  BY <1>2, EvaluationAssumption DEF Policy, Weights, Points
<1>4. MinTotal(c.policy) \in Points
  BY <1>2, EvaluationAssumption DEF Policy, MinTotal
<1> QED
  BY <1>2, <1>3, <1>4 DEF Points

\* The practical score and the whole score grow with the rubric.
LEMMA PracticalGrows ==
    ASSUME NEW c \in Cases, NEW r, NEW s, r.rubric \in Nat, s.rubric \in Nat, r.rubric <= s.rubric
    PROVE  Practical(c, r) <= Practical(c, s) /\ Practical(c, r) \in Int /\ Practical(c, s) \in Int
<1> DEFINE k == 100 * (IF c.freetextOnly THEN 100 ELSE PracticalScale)
<1>1. k \in Nat
  BY DEF PracticalScale
<1>2. Practical(c, r) = Rounded(k * r.rubric, RubricMax) /\ Practical(c, s) = Rounded(k * s.rubric, RubricMax)
  BY DEF Practical
<1> HIDE DEF k
<1>3. k * r.rubric \in Int /\ k * s.rubric \in Int /\ k * r.rubric <= k * s.rubric
  BY <1>1, ProductGrows
<1> QED
  BY <1>2, <1>3, Numbers, RoundedGrows

LEMMA TotalGrows ==
    ASSUME NEW c \in Cases, NEW r, NEW s, r.rubric \in Nat, s.rubric \in Nat, r.rubric <= s.rubric
    PROVE  Total(c, r) <= Total(c, s) /\ Total(c, r) \in Int /\ Total(c, s) \in Int
<1> DEFINE x == Practical(c, r)
           y == Practical(c, s)
           w == Weights(c.policy).practical
           m == PracticalMax * c.mcq * Weights(c.policy).mcq
<1>1. x <= y /\ x \in Int /\ y \in Int
  BY PracticalGrows
<1>2. w \in Nat /\ m \in Int
  BY CaseFields, Numbers
<1>3. Total(c, r) = IF c.freetextOnly THEN x ELSE Rounded(x * w + m, PracticalMax)
  BY DEF Total
<1>4. Total(c, s) = IF c.freetextOnly THEN y ELSE Rounded(y * w + m, PracticalMax)
  BY DEF Total
<1> HIDE DEF x, y, w, m
<1>5. x * w <= y * w /\ x * w \in Int /\ y * w \in Int
  BY <1>1, <1>2, ProductGrows
<1>6. x * w + m <= y * w + m /\ x * w + m \in Int /\ y * w + m \in Int
  BY <1>2, <1>5
<1>7. /\ Rounded(x * w + m, PracticalMax) <= Rounded(y * w + m, PracticalMax)
      /\ Rounded(x * w + m, PracticalMax) \in Int /\ Rounded(y * w + m, PracticalMax) \in Int
  BY <1>6, Numbers, RoundedGrows
<1> QED
  BY <1>1, <1>3, <1>4, <1>7

\* The window's ends, where there is one.
LEMMA WindowFields ==
    ASSUME NEW c \in Cases, Window(c.policy) # None
    PROVE  /\ Window(c.policy).min \in Nat /\ Window(c.policy).max \in Nat
           /\ Window(c.policy).open \in BOOLEAN
           /\ WindowTouches(c.policy) =>
                /\ Window(c.policy).min <= MinTotal(c.policy)
                /\ MinTotal(c.policy) <= Window(c.policy).max
           /\ Window(c.policy).open => Window(c.policy).max = MinTotal(c.policy)
<1> DEFINE p == c.policy
<1>1. p \in Policy /\ MinTotal(p) \in Nat
  BY CaseFields
<1>2. CASE p.window # None
  <2>1. p.window \in [min : Points, max : Points]
    BY <1>1, <1>2 DEF Policy
  <2>2. Window(p) = [min |-> p.window.min, max |-> p.window.max, open |-> FALSE]
    BY <1>2 DEF Window
  <2> QED
    BY <1>2, <2>1, <2>2 DEF Points, WindowTouches
<1>3. CASE p.window = None
  <2>1. Window(p) = [min |-> Larger(0, MinTotal(p) - BelowMin), max |-> MinTotal(p), open |-> TRUE]
    BY <1>3 DEF Window
  <2>2. Larger(0, MinTotal(p) - BelowMin) \in Nat /\ Larger(0, MinTotal(p) - BelowMin) <= MinTotal(p)
    BY <1>1, Numbers DEF Larger
  <2> QED
    BY <1>1, <2>1, <2>2
<1> QED
  BY <1>2, <1>3

\* One pass alone fails an answer on its score only far below what a human
\* would see.
THEOREM LoneFailClear == Spec => []LoneFailsAreClear
<1>1. IInv => LoneFailsAreClear
  <2> SUFFICES ASSUME IInv, outcome = "fail", second = None, case.policy.secondPass,
                      ~primary.insufficient,
                      Total(case, primary) < 100 * MinTotal(case.policy),
                      WindowTouches(case.policy), Window(case.policy) # None, YellowRed # None
               PROVE  Total(case, primary) < 100 * (Window(case.policy).min - YellowRed)
    BY DEF LoneFailsAreClear
  <2> DEFINE t == Total(case, primary)
             w == Window(case.policy)
  <2>1. /\ pc = "done" /\ primary \in Results /\ Final = primary
        /\ ~NeedsReview(case, primary, forced)
    BY Automatically DEF Automatic, Final
  <2>2. case \in Cases /\ primary.rubric \in Nat
    BY <2>1, EvaluationAssumption DEF IInv, TypeOK, Result
  <2>3. t \in Int
    BY <2>2, TotalGrows
  <2>4. /\ w.min \in Nat /\ w.max \in Nat /\ w.min <= MinTotal(case.policy)
        /\ MinTotal(case.policy) \in Nat /\ MinTotal(case.policy) <= w.max
        /\ w.open \in BOOLEAN /\ w.open => w.max = MinTotal(case.policy)
    BY <2>2, WindowFields, CaseFields
  <2>5. YellowRed \in Nat
    BY Numbers
  <2>6. ~InWindow(case, primary)
    BY <2>1 DEF NeedsReview
  <2>7. ~Near(case, primary, w.min, YellowRed)
    <3>1. ~Triggered(case, primary) /\ ~ClearlyThin(primary)
      BY <2>1 DEF IInv, PassesInv, ClearlyThin
    <3>2. FailBoundary(case.policy) = w.min
      BY DEF FailBoundary
    <3> QED
      BY <3>1, <3>2 DEF Triggered
  <2> HIDE DEF t, w
  <2>8. t < 100 * w.min
    BY <2>3, <2>4, <2>6 DEF InWindow, t, w
  <2>9. ~(Abs(t - 100 * w.min) <= 100 * YellowRed)
    BY <2>4, <2>5, <2>7, Numbers DEF Near, t
  <2> QED
    BY <2>3, <2>4, <2>5, <2>8, <2>9 DEF Abs, t, w
<1> QED
  BY <1>1, Invariant, PTL

------------------------------------------------------------------------------
(* A better answer.                                                         *)

\* b is the answer r with a rubric score at least as high, and d the case c
\* with the same answer length or none.
Better(c, d, r, b) ==
    /\ c \in Cases /\ r \in Result
    /\ d.policy = c.policy /\ d.freetextOnly = c.freetextOnly /\ d.mcq = c.mcq /\ d.signal = c.signal
    /\ d.words \in {c.words, None}
    /\ b.rubric \in Nat /\ r.rubric <= b.rubric
    /\ (b.reported = b.rubric) <=> (r.reported = r.rubric)
    /\ b.flags = r.flags /\ b.insufficient = r.insufficient
    /\ b.asks = r.asks /\ b.recommends = r.recommends

\* The words do not count in the score, so d's total is c's, and grows.
LEMMA BetterTotal ==
    ASSUME NEW c, NEW d, NEW r, NEW b, Better(c, d, r, b)
    PROVE  /\ Total(c, r) \in Int /\ Total(d, b) \in Int
           /\ Total(c, r) <= Total(d, b)
           /\ MinTotal(c.policy) \in Nat
<1>1. Total(d, b) = Total(c, b)
  BY DEF Better, Total, Practical
<1>2. r.rubric \in Nat
  BY DEF Better, Result
<1> QED
  BY <1>1, <1>2, TotalGrows, CaseFields DEF Better

LEMMA BetterGates ==
    ASSUME NEW c, NEW d, NEW r, NEW b, Better(c, d, r, b), GatesPass(c, r)
    PROVE  GatesPass(d, b)
<1>1. c.policy.practicalMin \in Points \cup {None} /\ r.rubric \in Nat
  BY CaseFields DEF Better, Policy, Result
<1>2. c.policy.practicalMin # None => c.policy.practicalMin * RubricMax \in Int
  BY <1>1, Numbers DEF Points
<1>3. c.policy.practicalMin # None => 100 * b.rubric >= c.policy.practicalMin * RubricMax
  BY <1>1, <1>2 DEF Better, GatesPass
<1> QED
  BY <1>3 DEF Better, GatesPass

\* Where the worse of two answers is between the window's lower end and the
\* threshold, so is the better one, unless it passes the threshold.
LEMMA BetterWindow ==
    ASSUME NEW c, NEW d, NEW r, NEW b, Better(c, d, r, b), WindowTouches(c.policy)
    PROVE  /\ InWindow(c, r) /\ Total(d, b) < 100 * MinTotal(c.policy) => InWindow(d, b)
           /\ ~InWindow(c, r) /\ Total(c, r) >= 100 * MinTotal(c.policy) => ~InWindow(d, b)
<1> DEFINE w == Window(c.policy)
           x == Total(c, r)
           y == Total(d, b)
           m == MinTotal(c.policy)
<1>1. x \in Int /\ y \in Int /\ x <= y /\ m \in Nat
  BY BetterTotal
<1>2. CASE w = None
  BY <1>2 DEF InWindow, Better
<1>3. CASE w # None
  <2>1. /\ w.min \in Nat /\ w.max \in Nat /\ w.min <= m /\ m <= w.max
        /\ w.open \in BOOLEAN /\ w.open => w.max = m
    BY <1>3, WindowFields DEF Better
  <2>2. InWindow(c, r) <=> x >= 100 * w.min /\ (IF w.open THEN x < 100 * w.max ELSE x <= 100 * w.max)
    BY <1>3 DEF InWindow
  <2>3. InWindow(d, b) <=> y >= 100 * w.min /\ (IF w.open THEN y < 100 * w.max ELSE y <= 100 * w.max)
    BY <1>3 DEF InWindow, Better
  <2> HIDE DEF w, x, y, m
  <2>4. /\ InWindow(c, r) /\ y < 100 * m => InWindow(d, b)
        /\ ~InWindow(c, r) /\ x >= 100 * m => ~InWindow(d, b)
    BY <1>1, <2>1, <2>2, <2>3
  <2> QED
    BY <2>4 DEF x, y, m
<1> QED
  BY <1>2, <1>3

\* A pass stays a pass.
LEMMA BetterPasses ==
    ASSUME NEW c, NEW d, NEW r, NEW b, NEW f \in BOOLEAN, Better(c, d, r, b),
           WindowTouches(c.policy), GatesPass(c, r), Verdict(c, r, f) = "pass"
    PROVE  Verdict(d, b, f) = "pass"
<1>1. ~NeedsReview(c, r, f) /\ PassesThresholds(c, r)
  BY DEF Verdict
<1>2. Total(c, r) >= 100 * MinTotal(c.policy) /\ "forcing" \notin r.flags
  BY <1>1 DEF PassesThresholds
<1>3. PassesThresholds(d, b)
  <2>1. Total(d, b) >= 100 * MinTotal(c.policy)
    BY <1>2, BetterTotal
  <2>2. GatesPass(d, b)
    BY BetterGates
  <2> QED
    BY <1>2, <2>1, <2>2 DEF PassesThresholds, Better
<1>4. ~InWindow(d, b)
  BY <1>1, <1>2, BetterWindow DEF NeedsReview
<1>5. ~RecommendsReview(r)
  BY <1>1 DEF NeedsReview, AutoFails
<1>6. ~NeedsReview(d, b, f)
  BY <1>1, <1>2, <1>4, <1>5 DEF NeedsReview, Better, RecommendsReview
<1> QED
  BY <1>3, <1>6 DEF Verdict

\* A review stays one, or becomes a pass.
LEMMA BetterReviews ==
    ASSUME NEW c, NEW d, NEW r, NEW b, NEW f \in BOOLEAN, Better(c, d, r, b),
           WindowTouches(c.policy), GatesPass(c, r), NeedsReview(c, r, f),
           ~PassesThresholds(d, b)
    PROVE  NeedsReview(d, b, f)
<1>1. CASE f \/ r.reported # r.rubric \/ "forcing" \in r.flags \/ c.signal
  BY <1>1 DEF NeedsReview, Better
<1>2. CASE ~(f \/ r.reported # r.rubric \/ "forcing" \in r.flags \/ c.signal)
  <2>1. Total(d, b) < 100 * MinTotal(c.policy)
    <3>1. GatesPass(d, b) /\ "forcing" \notin b.flags
      BY <1>2, BetterGates DEF Better
    <3>2. ~(Total(d, b) >= 100 * MinTotal(c.policy))
      BY <3>1 DEF PassesThresholds, Better
    <3> QED
      BY <3>2, BetterTotal
  <2>2. CASE InWindow(c, r)
    BY <2>1, <2>2, BetterWindow DEF NeedsReview
  <2>3. CASE RecommendsReview(r) /\ ~AutoFails(c, r, f)
    <3>1. ~PassesThresholds(c, r)
      <4>1. ~(Total(c, r) >= 100 * MinTotal(c.policy))
        BY <2>1, BetterTotal
      <4> QED
        BY <4>1 DEF PassesThresholds
    <3>2. ~(r.insufficient \/ OnlyInsufficientFlags(r)) \/ ~SubstantiallyShort(c)
      BY <1>2, <2>3, <3>1 DEF AutoFails
    <3>3. SubstantiallyShort(d) => SubstantiallyShort(c)
      BY DEF SubstantiallyShort, Better
    <3>4. RecommendsReview(b) /\ (OnlyInsufficientFlags(b) <=> OnlyInsufficientFlags(r))
      BY <2>3 DEF RecommendsReview, OnlyInsufficientFlags, Better
    <3>5. ~AutoFails(d, b, f)
      BY <3>2, <3>3, <3>4 DEF AutoFails, Better
    <3> QED
      BY <3>4, <3>5 DEF NeedsReview
  <2> QED
    BY <1>2, <2>2, <2>3 DEF NeedsReview
<1> QED
  BY <1>1, <1>2

\* A higher rubric score or an unknown length never worsens the outcome.
THEOREM BetterNotWorse == Spec => []BetterIsNotWorse
<1>1. IInv => BetterIsNotWorse
  <2> SUFFICES ASSUME IInv, outcome # None, WindowTouches(case.policy), GatesPass(case, Final),
                      NEW n \in Final.rubric .. RubricMax, NEW words \in {case.words, None}
               PROVE  Rank(Verdict([case EXCEPT !.words = words],
                                   [Final EXCEPT !.rubric = n, !.reported = @ + n - Final.rubric],
                                   forced)) >= Rank(outcome)
    BY DEF BetterIsNotWorse
  <2> DEFINE d == [case EXCEPT !.words = words]
             b == [Final EXCEPT !.rubric = n, !.reported = @ + n - Final.rubric]
  <2>1. pc = "done" /\ outcome = Verdict(case, Final, forced) /\ forced \in BOOLEAN /\ case \in Cases
    BY DEF IInv, OutcomeInv, TypeOK
  <2>2. Final \in Result /\ case \in Case
    BY <2>1, EvaluationAssumption DEF IInv, TypeOK, PassesInv, Final
  <2>3. Better(case, d, Final, b)
    <3>1. /\ d.policy = case.policy /\ d.freetextOnly = case.freetextOnly /\ d.mcq = case.mcq
          /\ d.signal = case.signal /\ d.words = words
      BY <2>2 DEF Case
    <3>2. /\ b.rubric = n /\ b.reported = Final.reported + n - Final.rubric
          /\ b.flags = Final.flags /\ b.insufficient = Final.insufficient
          /\ b.asks = Final.asks /\ b.recommends = Final.recommends
      BY <2>2 DEF Result
    <3>3. Final.rubric \in Nat /\ Final.reported \in Nat /\ n \in Nat /\ Final.rubric <= n
      BY <2>2, Numbers DEF Result
    <3>4. (b.reported = b.rubric) <=> (Final.reported = Final.rubric)
      BY <3>2, <3>3
    <3> HIDE DEF d, b
    <3> QED
      BY <2>1, <2>2, <3>1, <3>2, <3>3, <3>4 DEF Better
  <2> HIDE DEF d, b
  <2>4. Rank(Verdict(d, b, forced)) >= Rank(outcome)
    <3>1. CASE outcome = "fail"
      BY <3>1 DEF Rank
    <3>2. CASE outcome = "pass"
      <4>1. Verdict(d, b, forced) = "pass"
        BY <2>1, <2>3, <3>2, BetterPasses
      <4> QED
        BY <3>2, <4>1 DEF Rank
    <3>3. CASE outcome = "review"
      <4>1. NeedsReview(case, Final, forced)
        BY <2>1, <3>3 DEF Verdict
      <4>2. NeedsReview(d, b, forced) \/ PassesThresholds(d, b)
        BY <2>1, <2>3, <4>1, BetterReviews
      <4>3. Verdict(d, b, forced) # "fail"
        BY <4>2 DEF Verdict
      <4> QED
        BY <3>3, <4>3 DEF Rank
    <3> QED
      BY <3>1, <3>2, <3>3 DEF IInv, TypeOK, Outcomes
  <2> QED
    BY <2>4 DEF d, b
<1> QED
  BY <1>1, Invariant, PTL
==============================================================================
