--------------------------- MODULE MCCourseContent ---------------------------
(***************************************************************************)
(* TLC instance of SharedContent, explored where one thing is hard at a    *)
(* time: authors who meet, participants, or a section in its second        *)
(* version.                                                                *)
(***************************************************************************)
EXTENDS SharedContent, TLC

CONSTANTS c1, m1, s1, u1, a1, a2

Participated ==
  \/ \E p \in Users \X Modules : attempt[p] # "none"
  \/ \E u \in Users : check[u] # NoCheck
  \/ reads # {} \/ certificate # {}
Edited == \E x \in Sections : content[x].latest > 1
Met == crossed # {} \/ recast # {} \/ \E a, b \in Authors : a # b /\ author[a] # Idle /\ author[b] # Idle

\* No guard of an author's reads whether the course itself is published or archived: where authors meet it is
\* neither.
Flagged == \E c \in Courses : course[c].published \/ course[c].archived

\* The authors are alike: the second one begins while the first is at work. Nobody begins once two have met
\* about an item.
Alone(a) == \A b \in Authors \ {a} : author[b] = Idle
MayBegin(a) ==
  /\ a = a1 \/ author[a1] # Idle
  /\ crossed = {} /\ recast = {}
  /\ Alone(a) \/ ~(Participated \/ Edited \/ Flagged)

\* SharedNext, with the beginnings that would leave the bounds left out.
MCNext ==
  /\ \/ Writes
     \/ \E a \in Authors : (MayBegin(a) /\ AuthorReads(a)) \/ AuthorWrites(a)
     \/ ~Met /\ ~Edited /\ \E u \in Users : Participates(u)
  /\ Remember
MCSpec == SharedInit /\ [][MCNext]_sharedVars

Bounded ==
  /\ ~(Met /\ (Edited \/ Flagged))
  /\ ~(Participated /\ Edited)
  /\ ~(Participated /\ \E c \in Courses : course[c].archived)
  /\ Cardinality(crossed \cup recast) <= 1

Symmetry == Permutations(Authors)

==============================================================================
