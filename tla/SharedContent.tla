--------------------------- MODULE SharedContent ---------------------------
(***************************************************************************)
(* CourseContent with a memory of the authors' requests that met.          *)
(*                                                                         *)
(* The entry door and the use lock are read before the transaction that    *)
(* writes, and the plan of a publication before its items are published:   *)
(* two requests that overlap do not see each other. crossed and recast     *)
(* remember which item of which course such a meeting was about, and the   *)
(* two promises made to participants hold of every other.                  *)
(***************************************************************************)
EXTENDS CourseContent

VARIABLES
  crossed,   \* <<c, x>>: x was withdrawn while somebody put it into c
  recast     \* <<c, x>>: x was put into c while c was being published

sharedVars == <<vars, crossed, recast>>

\* r writes x into course c; withdraws x; publishes c, its items first.
Entering(r, c, x) == r.op \in {"set_items", "set_modules", "rewrite"} /\ r.on = c /\ r.plan[x] # None
Withdrawing(r, x) == r.op \in {"archive", "unpublish"} /\ r.on = x
Publishing(r, c) == r.op \in {"publish_items", "publish_course"} /\ r.on = c

Crossings == {p \in Courses \X Contents :
  \E a \in Authors : Withdrawing(author[a], p[2]) /\ \E b \in Authors : Entering(author[b], p[1], p[2])}
Recasts == {p \in Courses \X Contents :
  \E a \in Authors : Publishing(author[a], p[1]) /\ \E b \in Authors : Entering(author[b], p[1], p[2])}

SharedInit == Init /\ crossed = {} /\ recast = {}
Remember == crossed' = crossed \cup Crossings' /\ recast' = recast \cup Recasts'
SharedNext == Next /\ Remember
SharedSpec == SharedInit /\ [][SharedNext]_sharedVars

----------------------------------------------------------------------------
(* Properties *)

\* No course holds deleted content, and archived content only if its archiving met the rewrite that put it
\* there: the use lock (G2) keeps what is in a course from being archived, the entry door (#938/#992) keeps
\* what is archived out, and only together do they close the circle - however many authors there are, for
\* every item of which no two requests met. (For the others it fails: see the README's known gaps.)
ItemsInCirculation ==
  \A c \in Courses : \A x \in course[c].items :
    Here(x) /\ (content[x].archived => <<c, x>> \in crossed)

\* A course is published whole: whether its items were published before or along with it, one by one and each
\* in a transaction of its own, every item can be opened when the course itself goes live, unless it was
\* withdrawn as it was put in, or put in while the publication was under way.
WholeWhenPublished ==
  \A a \in Authors :
    author[a].op = "publish_course" =>
      \A x \in course[author[a].on].items : Available(x) \/ <<author[a].on, x>> \in crossed \cup recast

============================================================================
