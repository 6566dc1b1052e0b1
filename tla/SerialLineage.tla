--------------------------- MODULE SerialLineage ---------------------------
(***************************************************************************)
(* DecisionLineage with a memory: overlapped remembers whether two         *)
(* requests have ever been in flight together.                             *)
(*                                                                         *)
(* Neither the newest decision a ruling stands on nor the certification    *)
(* row a verdict has read is looked at again at the commit, so two         *)
(* properties of the lineage hold only of requests that come one after the *)
(* other.                                                                  *)
(***************************************************************************)
EXTENDS DecisionLineage

VARIABLE overlapped

Active == {r \in Requests : request[r].pc # "idle"}
Alone == \A r, q \in Active : r = q

HInit == Init /\ overlapped = FALSE
HNext == Next /\ overlapped' = (overlapped \/ ~Alone')
HSpec == HInit /\ [][HNext]_<<vars, overlapped>>

------------------------------------------------------------------------------
\* Requests that come one after the other make the lineage a chain: every
\* ruling stands on the decision before it (resolveAppeal, finalizeReview).
ParentIsPriorAlone == overlapped \/ ParentIsPrior

\* Nor does a late FAIL of theirs take a newer pass away, whose row
\* upsertCertification reads before it writes.
NewerPassStandsAlone == overlapped \/ NewerPassStands
=============================================================================
