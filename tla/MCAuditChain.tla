----------------------------- MODULE MCAuditChain -----------------------------
(***************************************************************************)
(* Instances of AuditChain for TLC.                                        *)
(***************************************************************************)
EXTENDS AuditChain, TLC

SymActors == Permutations(Actors)
==============================================================================
