------------------------- MODULE MCEvaluationPipeline -------------------------
(***************************************************************************)
(* An instance of EvaluationPipeline for TLC: a rubric of five criteria.   *)
(***************************************************************************)
EXTENDS EvaluationPipeline

\* What the model answers when nothing is the matter.
Plain(n) ==
    [rubric |-> n, reported |-> n, practical |-> (70 * n) \div 20, passing |-> n >= 10, flags |-> {},
     insufficient |-> FALSE, asks |-> FALSE, recommends |-> FALSE, doubt |-> FALSE]

\* Every score, and around the boundaries every kind of signal and some of
\* their combinations.
Answers ==
    {Plain(n) : n \in 0 .. 20}
    \cup {[Plain(n) EXCEPT !.insufficient = i, !.asks = a, !.recommends = s] :
              n \in {5, 11, 15}, i \in BOOLEAN, a \in BOOLEAN, s \in BOOLEAN}
    \cup {[Plain(n) EXCEPT !.flags = f, !.insufficient = i] : n \in {5, 15},
              f \in {{"insufficient"}, {"forcing"}, {"trigger"}, {"other", "insufficient"}}, i \in BOOLEAN}
    \cup {[Plain(n) EXCEPT !.reported = n + d, !.practical = @ + 2 * d, !.doubt = TRUE] : n \in {9, 12}, d \in {0, 2, 3}}
    \cup {[Plain(n) EXCEPT !.passing = ~@, !.doubt = TRUE] : n \in {9, 10, 16}}

Usual == [totalMin |-> None, mcqMin |-> None, practicalMin |-> None, window |-> None,
          weights |-> None, secondPass |-> TRUE, expected |-> 100]

Policies ==
    {Usual,
     [Usual EXCEPT !.totalMin = 50],
     [Usual EXCEPT !.totalMin = 50, !.expected = None, !.practicalMin = 70],
     [Usual EXCEPT !.window = [min |-> 64, max |-> 75]],
     [Usual EXCEPT !.totalMin = 60, !.weights = [practical |-> 40, mcq |-> 60], !.mcqMin = 50],
     [Usual EXCEPT !.secondPass = FALSE]}

\* Mixed modules and free text alone, a short answer and a long one.
Submitted ==
    {[policy |-> p, freetextOnly |-> f, mcq |-> IF f THEN 0 ELSE 65, words |-> w, signal |-> FALSE] :
         p \in Policies, f \in BOOLEAN, w \in {40, 60}}
    \cup {[policy |-> Usual, freetextOnly |-> TRUE, mcq |-> 0, words |-> None, signal |-> s] : s \in BOOLEAN}
==============================================================================
