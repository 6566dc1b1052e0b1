----------------------------- MODULE CaseDesk -----------------------------
(***************************************************************************)
(* What the review queue and the appeal queue promise about one case,      *)
(* without requests, transactions, certificates or submissions: a case is  *)
(* opened once, has one holder at a time whom only an administrator can    *)
(* replace, and ends once, either ruled on (with exactly one ruling) or    *)
(* dropped because the participant handed in again.                        *)
(*                                                                         *)
(* DecisionLineage implements this specification.                          *)
(***************************************************************************)
CONSTANTS Cases, People, Admins, Nobody, Rulings

VARIABLES
    stage,      \* per case: absent, open, ruled or dropped
    holder,     \* per case: who has claimed it or ruled on it
    ruling      \* per case: the decisions that rule on it

vars == <<stage, holder, ruling>>

\* Who may act on a case without taking it from somebody.
MayAct(p, c) == holder[c] \in {Nobody, p} \/ p \in Admins

Init ==
    /\ stage = [c \in Cases |-> "absent"]
    /\ holder = [c \in Cases |-> Nobody]
    /\ ruling = [c \in Cases |-> {}]

Open(c) ==
    /\ stage[c] = "absent"
    /\ stage' = [stage EXCEPT ![c] = "open"]
    /\ UNCHANGED <<holder, ruling>>

Claim(c, p) ==
    /\ stage[c] = "open"
    /\ MayAct(p, c)
    /\ holder' = [holder EXCEPT ![c] = p]
    /\ UNCHANGED <<stage, ruling>>

Rule(c, p) ==
    /\ stage[c] = "open"
    /\ MayAct(p, c)
    /\ \E d \in Rulings : ruling' = [ruling EXCEPT ![c] = {d}]
    /\ stage' = [stage EXCEPT ![c] = "ruled"]
    /\ holder' = [holder EXCEPT ![c] = p]

\* A new submission drops every case it finds open, at once.
Drop(cs) ==
    /\ \A c \in cs : stage[c] = "open"
    /\ stage' = [c \in Cases |-> IF c \in cs THEN "dropped" ELSE stage[c]]
    /\ UNCHANGED <<holder, ruling>>

Next ==
    \/ \E c \in Cases : Open(c) \/ \E p \in People : Claim(c, p) \/ Rule(c, p)
    \/ \E cs \in SUBSET Cases : Drop(cs)

Spec == Init /\ [][Next]_vars
=============================================================================
