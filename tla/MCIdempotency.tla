---------------------------- MODULE MCIdempotency ----------------------------
(***************************************************************************)
(* Instances of Idempotency for TLC.                                       *)
(***************************************************************************)
EXTENDS Idempotency, TLC

\* Requests with the same body are alike.
Retries == Permutations(Requests \ Changed)
==============================================================================
