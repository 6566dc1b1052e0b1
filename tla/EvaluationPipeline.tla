--------------------------- MODULE EvaluationPipeline ---------------------------
(***************************************************************************)
(* How one free-text submission is judged: a first pass of the language    *)
(* model, a second one where the first leaves doubt, the comparison of the *)
(* two, and the rules that make of the last one a pass, a fail or a review *)
(* by a human.  A run that fails is begun anew by the queue                *)
(* (AssessmentJobs), which decides from its own passes alone.              *)
(*                                                                         *)
(* What the model answers is any member of Results.  Scores are counted in *)
(* hundredths, thresholds and percentages in whole points.                 *)
(***************************************************************************)
EXTENDS Integers

CONSTANTS
    RubricMax,                        \* criteria of the rubric times four
    PracticalMax, McqMax,             \* weights
    TotalMin, BelowMin,               \* thresholds.totalMin, borderlineBelowMin
    GreenYellow, YellowRed,           \* scoreBoundaryBands; None switches one off
    AskTriggers,                      \* triggerRules.manualReviewRecommended
    PracticalDelta, RubricDelta,      \* disagreementRules
    MismatchCounts,                   \* manualReviewRecommendationMismatch
    ScopePercent,                     \* autoFailBelowScopeRatio
    Cases, Results,                   \* what is judged, what the model may answer
    MaxAttempts,                      \* AssessmentJob.maxAttempts
    None

------------------------------------------------------------------------------
Points == 0 .. 100

\* The practical part's share of a score of 100, fixed in the code whatever
\* weights.practicalMaxScore says.
PracticalScale == 70

\* ModuleAssessmentPolicy, the secondary-assessment switch of the module and
\* the shortest answer its task expects.
Policy ==
    [totalMin : Points \cup {None}, mcqMin : Points \cup {None},
     practicalMin : Points \cup {None},
     window : [min : Points, max : Points] \cup {None},
     weights : [practical : Points, mcq : Points] \cup {None},
     secondPass : BOOLEAN, expected : Nat \cup {None}]

\* words: the length of the answer, None when it cannot be measured.
\* signal: the AI-influence signals ask for a review.
Case == [policy : Policy, freetextOnly : BOOLEAN, mcq : Points,
         words : Nat \cup {None}, signal : BOOLEAN]

\* A flag's class after normalisation: insufficient_submission; a configured
\* code of high or of medium severity; anything else.
Flag == {"insufficient", "forcing", "trigger", "other"}

\* rubric: the sum over the known criteria, each clamped to 0..4.  reported,
\* practical, passing: rubric_total, practical_score_scaled and
\* pass_fail_practical as the model gave them.  asks: manual_review_recommended.
\* recommends: recommended_outcome is manual_review.  doubt: low confidence.
Result == [rubric : 0 .. RubricMax, reported : Nat, practical : 0 .. PracticalScale,
           passing : BOOLEAN, flags : SUBSET Flag, insufficient : BOOLEAN,
           asks : BOOLEAN, recommends : BOOLEAN, doubt : BOOLEAN]

Outcomes == {"fail", "review", "pass"}

ASSUME EvaluationAssumption ==
    /\ RubricMax \in Nat \ {0} /\ PracticalMax \in Nat \ {0} /\ McqMax \in Nat \ {0}
    /\ TotalMin \in Points /\ BelowMin \in Nat
    /\ GreenYellow \in Nat \cup {None} /\ YellowRed \in Nat \cup {None}
    /\ AskTriggers \in BOOLEAN /\ MismatchCounts \in BOOLEAN
    /\ PracticalDelta \in Nat /\ RubricDelta \in Nat /\ ScopePercent \in Points
    /\ Cases \subseteq Case /\ Results \subseteq Result
    /\ MaxAttempts \in Nat \ {0}
    /\ None \notin Int /\ None \notin Result /\ None \notin Outcomes
    /\ None \notin [min : Points, max : Points] \cup [practical : Points, mcq : Points]

VARIABLES
    case,        \* what the run judges
    primary,     \* LLMEvaluation of this run's first pass
    second,      \* and of its second
    forced,      \* forceManualReviewReason is set
    outcome,     \* of the decision
    attempts,    \* AssessmentJob.attempts
    pc

vars == <<case, primary, second, forced, outcome, attempts, pc>>

------------------------------------------------------------------------------
Abs(n) == IF n < 0 THEN -n ELSE n
Larger(m, n) == IF m > n THEN m ELSE n

\* Number((m / n).toFixed(0)) of hundredths.
Rounded(m, n) == (2 * m + n) \div (2 * n)

\* The rubric's share of the score and the score itself, recomputed from the
\* criteria: the model's own totals are not trusted.
Practical(c, r) == Rounded(100 * (IF c.freetextOnly THEN 100 ELSE PracticalScale) * r.rubric, RubricMax)

Weights(p) == IF p.weights = None THEN [practical |-> PracticalMax, mcq |-> McqMax] ELSE p.weights

Total(c, r) ==
    IF c.freetextOnly THEN Practical(c, r)
    ELSE Rounded(Practical(c, r) * Weights(c.policy).practical
                     + PracticalMax * c.mcq * Weights(c.policy).mcq, PracticalMax)

MinTotal(p) == IF p.totalMin = None THEN TotalMin ELSE p.totalMin

------------------------------------------------------------------------------
\* Mutants of the definitions below, one plausible bug each.
GlobalBoundary(p) == Larger(0, TotalMin - BelowMin)
GlobalWindow(p) ==
    IF p.window # None THEN [min |-> p.window.min, max |-> p.window.max, open |-> FALSE]
    ELSE [min |-> Larger(0, TotalMin - BelowMin), max |-> TotalMin, open |-> TRUE]
ComparesScores(p, s) ==
    \/ Abs(p.practical - s.practical) >= PracticalDelta
    \/ Abs(p.reported - s.reported) >= RubricDelta

\* The band below the threshold in which a human decides: the module's own, or
\* the standard one, which the threshold itself is not part of.
Window(p) ==
    IF p.window # None THEN [min |-> p.window.min, max |-> p.window.max, open |-> FALSE]
    ELSE IF BelowMin > 0 THEN [min |-> Larger(0, MinTotal(p) - BelowMin), max |-> MinTotal(p), open |-> TRUE]
    ELSE None

InWindow(c, r) ==
    LET w == Window(c.policy) IN
        /\ w # None
        /\ Total(c, r) >= 100 * w.min
        /\ IF w.open THEN Total(c, r) < 100 * w.max ELSE Total(c, r) <= 100 * w.max

\* resolveZoneBoundaries: where automatic fails begin.
FailBoundary(p) == IF Window(p) = None THEN None ELSE Window(p).min

Near(c, r, boundary, band) ==
    /\ boundary # None /\ band # None
    /\ Abs(Total(c, r) - 100 * boundary) <= 100 * band

OnlyInsufficientFlags(r) == r.flags = {"insufficient"}
RecommendsReview(r) == r.recommends \/ r.asks

\* The answer was too thin to assess, and nothing else is wrong with it.
ClearlyThin(r) == r.insufficient /\ (r.flags = {} \/ OnlyInsufficientFlags(r))

\* A second pass is to be made.
Triggered(c, r) ==
    /\ c.policy.secondPass
    /\ ~ClearlyThin(r)
    /\ \/ AskTriggers /\ RecommendsReview(r)
       \/ r.doubt
       \/ r.flags \cap {"trigger", "forcing"} # {}
       \/ Near(c, r, MinTotal(c.policy), GreenYellow)
       \/ Near(c, r, FailBoundary(c.policy), YellowRed)

Disagree(p, s) ==
    \/ Abs(p.practical - s.practical) >= PracticalDelta
    \/ Abs(p.reported - s.reported) >= RubricDelta
    \/ MismatchCounts /\ p.asks # s.asks

Suppressed(p, s) == ClearlyThin(p) /\ ClearlyThin(s)

------------------------------------------------------------------------------
SubstantiallyShort(c) ==
    /\ c.words # None /\ c.policy.expected # None
    /\ c.policy.expected > 0
    /\ 100 * c.words < ScopePercent * c.policy.expected

GatesPass(c, r) ==
    /\ c.freetextOnly \/ c.policy.mcqMin = None \/ c.mcq >= c.policy.mcqMin
    /\ c.policy.practicalMin = None \/ 100 * r.rubric >= c.policy.practicalMin * RubricMax

PassesThresholds(c, r) ==
    /\ Total(c, r) >= 100 * MinTotal(c.policy)
    /\ "forcing" \notin r.flags
    /\ GatesPass(c, r)

\* Evidence that is missing overrides the model's wish for a human only when
\* the answer is measurably short.
AutoFails(c, r, f) ==
    /\ ~f
    /\ "forcing" \notin r.flags
    /\ ~PassesThresholds(c, r)
    /\ r.insufficient \/ OnlyInsufficientFlags(r)
    /\ ~RecommendsReview(r) \/ SubstantiallyShort(c)

NeedsReview(c, r, f) ==
    \/ f
    \/ r.reported # r.rubric
    \/ "forcing" \in r.flags
    \/ RecommendsReview(r) /\ ~AutoFails(c, r, f)
    \/ InWindow(c, r)
    \/ c.signal

Verdict(c, r, f) ==
    IF NeedsReview(c, r, f) THEN "review"
    ELSE IF PassesThresholds(c, r) THEN "pass" ELSE "fail"

------------------------------------------------------------------------------
\* finalLlmResult: the last pass the run made.
Final == IF second = None THEN primary ELSE second

Init ==
    /\ case \in Cases
    /\ primary = None /\ second = None
    /\ forced = FALSE /\ outcome = None
    /\ attempts = 1
    /\ pc = "primary"

PrimaryPass ==
    /\ pc = "primary"
    /\ primary' \in Results
    /\ pc' = "trigger"
    /\ UNCHANGED <<case, second, forced, outcome, attempts>>

EvaluateTrigger ==
    /\ pc = "trigger"
    /\ pc' = IF Triggered(case, primary) THEN "secondary" ELSE "decide"
    /\ UNCHANGED <<case, primary, second, forced, outcome, attempts>>

SecondaryPass ==
    /\ pc = "secondary"
    /\ second' \in Results
    /\ pc' = "compare"
    /\ UNCHANGED <<case, primary, forced, outcome, attempts>>

EvaluateDisagreement ==
    /\ pc = "compare"
    /\ forced' = (Disagree(primary, second) /\ ~Suppressed(primary, second))
    /\ pc' = "decide"
    /\ UNCHANGED <<case, primary, second, outcome, attempts>>

Decide ==
    /\ pc = "decide"
    /\ outcome' = Verdict(case, Final, forced)
    /\ pc' = "done"
    /\ UNCHANGED <<case, primary, second, forced, attempts>>

\* A call of the model or a statement throws, or the process dies: the job is
\* tried again from the start, or has failed.  Earlier rows of the passes stay
\* in the table and are not read.
RunFails ==
    /\ pc \notin {"done", "failed"}
    /\ IF attempts < MaxAttempts
       THEN attempts' = attempts + 1 /\ pc' = "primary"
       ELSE attempts' = attempts /\ pc' = "failed"
    /\ primary' = None /\ second' = None /\ forced' = FALSE
    /\ UNCHANGED <<case, outcome>>

Next == PrimaryPass \/ EvaluateTrigger \/ SecondaryPass \/ EvaluateDisagreement \/ Decide \/ RunFails

Spec == Init /\ [][Next]_vars

------------------------------------------------------------------------------
\* Every variable has its type.
TypeOK ==
    /\ case \in Cases
    /\ primary \in Results \cup {None} /\ second \in Results \cup {None}
    /\ forced \in BOOLEAN
    /\ outcome \in Outcomes \cup {None}
    /\ attempts \in 1 .. MaxAttempts
    /\ pc \in {"primary", "trigger", "secondary", "compare", "decide", "done", "failed"}

Automatic == outcome \in {"pass", "fail"}
Made == {primary, second} \ {None}

\* The last pass asks for a human or recommends a review as the outcome, or
\* the first of two asked and the rules count a mismatch as a disagreement.
Asked(r) == IF r = Final THEN RecommendsReview(r) ELSE MismatchCounts /\ r.asks

\* A pass that asked for a human gets one: no verdict follows automatically,
\* but for a fail of an answer whose evidence the last pass calls insufficient
\* and whose length is known to be far below what the task expects (#1048).
HumanIsHeard ==
    Automatic =>
        \A r \in Made : Asked(r) =>
            /\ outcome = "fail"
            /\ Final.insufficient \/ OnlyInsufficientFlags(Final)
            /\ SubstantiallyShort(case)

\* A module's own window reaches from below its threshold up to it.
WindowTouches(p) ==
    p.window # None => p.window.min <= MinTotal(p) /\ MinTotal(p) <= p.window.max

\* One pass of the model alone fails an answer on its score only when that
\* score is farther than the band below the lowest score a human would see,
\* by the module's own threshold and window (#1023).
LoneFailsAreClear ==
    /\ outcome = "fail" /\ second = None /\ case.policy.secondPass
    /\ ~primary.insufficient
    /\ Total(case, primary) < 100 * MinTotal(case.policy)
    /\ WindowTouches(case.policy) /\ Window(case.policy) # None /\ YellowRed # None
    => Total(case, primary) < 100 * (Window(case.policy).min - YellowRed)

\* fail < review < pass
Rank(o) == IF o = "fail" THEN 0 ELSE IF o = "review" THEN 1 ELSE 2

\* The same answer with a higher rubric score, or of a length that cannot be
\* measured, is never judged worse, where no gate had failed it: windows,
\* thresholds and the evidence rule have no step down.
BetterIsNotWorse ==
    outcome # None /\ WindowTouches(case.policy) /\ GatesPass(case, Final) =>
        \A n \in Final.rubric .. RubricMax, words \in {case.words, None} :
            LET better == [Final EXCEPT !.rubric = n, !.reported = @ + n - Final.rubric]
            IN  Rank(Verdict([case EXCEPT !.words = words], better, forced)) >= Rank(outcome)

\* Two passes that differ on whether the practical part is passed are not
\* decided automatically (doc/design/ASSESSMENT_DECISION_POLICY.md).
PassFailMismatchReviewed ==
    Automatic /\ second # None => primary.passing = second.passing
==============================================================================
