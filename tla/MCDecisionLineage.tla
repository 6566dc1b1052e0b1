------------------------ MODULE MCDecisionLineage ------------------------
(***************************************************************************)
(* Instances of DecisionLineage and SerialLineage for TLC.                 *)
(***************************************************************************)
EXTENDS SerialLineage, TLC

MCCases2 == 1..2
SymRequests == Permutations(Requests)
=============================================================================
