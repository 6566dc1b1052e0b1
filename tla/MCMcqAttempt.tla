----------------------------- MODULE MCMcqAttempt -----------------------------
(***************************************************************************)
(* Instances of McqAttempt for TLC.                                        *)
(***************************************************************************)
EXTENDS McqAttempt, TLC

CONSTANTS p1, p2, p3, q1, q2

\* A whole sheet, a part of it, and one that overlaps with neither in full.
Sheets == [r \in Submits |-> IF r = p1 THEN {q1, q2} ELSE IF r = p2 THEN {q1} ELSE {q2}]

\* Starts are alike.
Alike == Permutations(Starts)
==============================================================================
