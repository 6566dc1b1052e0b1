--------------------------- MODULE CourseContent ---------------------------
(***************************************************************************)
(* Courses, the modules and sections they offer, and the certificates that *)
(* participants earn in them. Authors create, publish, withdraw and delete;*)
(* every guard of theirs is read outside the transaction that writes, so a *)
(* request is at least two steps. A participant's completion check reads   *)
(* the same rows statement by statement.                                   *)
(* READ COMMITTED: a step sees what is committed. The database's foreign   *)
(* keys are conditions of the writes (Unreferenced, AllHere).              *)
(***************************************************************************)
EXTENDS Integers, FiniteSets

CONSTANTS
  Courses, Modules, Sections,
  Users,        \* participants
  Authors,      \* author requests that can be under way at once
  MaxModuleVersions, MaxSectionVersions,   \* bounds: versions saved of one module, of one section
  None

ASSUME KindsAreApart ==
  /\ Modules \cap Sections = {}
  /\ None \notin Courses \cup Modules \cup Sections \cup Nat

Contents == Modules \cup Sections
Versions == Nat       \* 0: no version

VARIABLES
  course,       \* Course and CourseItem rows
  content,      \* Module, CourseSection and their versions
  attempt,      \* how far a user is with a module
  reads,        \* committed CourseSectionRead rows
  certificate,  \* CourseCompletion rows, with the snapshot of what they cover
  author,       \* where each author request stands
  check         \* where each user's completion check stands

authored == <<course, content>>
earned == <<attempt, reads, certificate>>
vars == <<course, content, attempt, reads, certificate, author, check>>

Rows == {"new", "here", "gone"}   \* ids are never used again
Attempts == {"none", "handed_in", "passed", "lapsed"}   \* lapsed: passed once, and no longer

Course == [row : Rows, published : BOOLEAN, archived : BOOLEAN, items : SUBSET Contents]
Content == [row : Rows, archived : BOOLEAN, latest : Versions, active : Versions]

\* What an author request carries: the row it is about, the plan its reads made (the contents still to be
\* handled, each with the version it would publish; in a rewrite, those of its own and those it stands
\* beside) and the modules whose publication is a revision.
Ops == {"idle", "publish", "unpublish", "archive", "restore", "delete", "purge",
        "set_items", "set_modules", "rewrite", "publish_items", "publish_course", "publish_pending", "archive_course",
        "delete_course", "cascade_delete"}
Request == [op : Ops, on : Courses \cup Contents \cup {None}, at : Contents \cup {None},
            plan : [Contents -> Versions \cup {None}], revised : SUBSET Modules]
Nothing == [x \in Contents |-> None]
Idle == [op |-> "idle", on |-> None, at |-> None, plan |-> Nothing, revised |-> {}]

Steps == {"idle", "door", "course", "sections", "passes", "reads", "create"}
Check == [step : Steps, course : Courses \cup {None}, reading : Sections \cup {None},
          modules : SUBSET Modules, sections : SUBSET Sections]
NoCheck == [step |-> "idle", course |-> None, reading |-> None, modules |-> {}, sections |-> {}]

Init ==
  /\ course = [c \in Courses |-> [row |-> "new", published |-> FALSE, archived |-> FALSE, items |-> {}]]
  /\ content = [x \in Contents |-> [row |-> "new", archived |-> FALSE, latest |-> 0, active |-> 0]]
  /\ attempt = [p \in Users \X Modules |-> "none"]
  /\ reads = {}
  /\ certificate = {}
  /\ author = [a \in Authors |-> Idle]
  /\ check = [u \in Users |-> NoCheck]

----------------------------------------------------------------------------
\* Mutants of the definitions below, one plausible bug each.
UsableIfThere(S) == \A x \in S : content[x].row = "here"
ModulesToPublish(c) == {x \in course[c].items \cap Modules : content[x].active = 0}
OnlyItemsRestrict(x, c) == \A d \in Courses \ {c} : x \notin course[d].items
ModulesSuffice(u, c, S) == check[u].modules # {} \/ S \subseteq {x \in Sections : <<u, c, x>> \in reads}

(* What the guards read *)

Here(x) == content[x].row = "here"
CourseHere(c) == course[c].row = "here"

\* G2, the use lock: a module or section in any course, published or not.
InCourse(x) == \E c \in Courses : x \in course[c].items

\* The entry door of #938/#992: what may be put into a course.
Usable(S) == \A x \in S : Here(x) /\ ~content[x].archived

\* sectionAvailableWhere: what a participant can open.
Available(x) == content[x].active # 0 /\ ~content[x].archived

\* evaluateModule, evaluateSection: what a publication would accept; the translation gate may refuse besides.
Publishable(x) == ~content[x].archived /\ content[x].latest # 0
Unpublished(x) == content[x].active = 0
Pending(x) == Unpublished(x) \/ content[x].latest # content[x].active

HasAttempts(x) == \E u \in Users : attempt[<<u, x>>] # "none"
Passed(x) == \E u \in Users : attempt[<<u, x>>] = "passed"
Certified(x) == \E z \in certificate : x \in z.covers
HasCompletions(c) == \E z \in certificate : z.course = c

\* G3, the activity lock: somebody read a section of the course or handed in one of its modules, and has no
\* certificate for it.
InProgress(c) ==
  \E u \in Users :
    /\ \/ \E r \in reads : r[1] = u /\ r[2] = c
       \/ \E x \in course[c].items \cap Modules : attempt[<<u, x>>] # "none"
    /\ ~\E z \in certificate : z.user = u /\ z.course = c

\* A transaction that marks a section read holds its course and section against deletion until it ends.
Open(u) == check[u].reading # None /\ check[u].step \notin {"idle", "door"}
HeldByReader(x) == \E u \in Users : Open(u) /\ x \in {check[u].course, check[u].reading}

\* ON DELETE RESTRICT of CourseItem, Submission and CertificationStatus; c's own items are gone by then.
Unreferenced(x, c) ==
  /\ \A d \in Courses \ {c} : x \notin course[d].items
  /\ x \in Modules => ~HasAttempts(x)

\* The foreign keys of the CourseItem rows to be written.
AllHere(S) == \A x \in S : Here(x)

----------------------------------------------------------------------------
(* One-transaction writes *)

CreateCourse(c) ==
  /\ course[c].row = "new"
  /\ course' = [course EXCEPT ![c].row = "here"]
  /\ UNCHANGED <<content, earned, author, check>>

\* A module starts without a version; a section with one, published unless it is a draft or held back by
\* the translation gate.
CreateModule(x) ==
  /\ content[x].row = "new"
  /\ content' = [content EXCEPT ![x].row = "here"]
  /\ UNCHANGED <<course, earned, author, check>>

CreateSection(x) ==
  /\ content[x].row = "new"
  /\ \E v \in {0, 1} :
       content' = [content EXCEPT ![x] = [@ EXCEPT !.row = "here", !.latest = 1, !.active = v]]
  /\ UNCHANGED <<course, earned, author, check>>

\* createModuleVersion, restoreModuleVersion: a further version, a draft.
SaveVersion(x) ==
  /\ Here(x)
  /\ content[x].latest < MaxModuleVersions
  /\ content' = [content EXCEPT ![x].latest = @ + 1]
  /\ UNCHANGED <<course, earned, author, check>>

\* updateSectionContent: saving is publishing, unless the gate holds the text back. It does not ask whether
\* the section is archived.
EditSection(x) ==
  /\ Here(x)
  /\ content[x].latest < MaxSectionVersions
  /\ \E v \in {content[x].active, content[x].latest + 1} :
       content' = [content EXCEPT ![x].latest = @ + 1, ![x].active = v]
  /\ UNCHANGED <<course, earned, author, check>>

\* unpublishCourse (no G3, on purpose) and restoreCourse: the row must exist, nothing else is read.
UnpublishCourse(c) ==
  /\ CourseHere(c)
  /\ course' = [course EXCEPT ![c].published = FALSE]
  /\ UNCHANGED <<content, earned, author, check>>

RestoreCourse(c) ==
  /\ CourseHere(c)
  /\ course' = [course EXCEPT ![c].archived = FALSE]
  /\ UNCHANGED <<content, earned, author, check>>

----------------------------------------------------------------------------
(* Author requests: the reads *)

Begin(a, op, on, at, plan, revised) ==
  /\ author[a] = Idle
  /\ author' = [author EXCEPT ![a] = [op |-> op, on |-> on, at |-> at, plan |-> plan, revised |-> revised]]
  /\ UNCHANGED <<authored, earned, check>>

Just(S) == [x \in Contents |-> IF x \in S THEN 0 ELSE None]
Latest(S) == [x \in Contents |-> IF x \in S THEN content[x].latest ELSE None]
Planned(a) == {x \in Contents : author[a].plan[x] # None}

\* The publish routes: a module in any of its versions, as a revision or not; a section in its latest.
ReadModuleToPublish(a, x) ==
  /\ Here(x) /\ ~content[x].archived
  /\ \E v \in 1 .. content[x].latest, R \in SUBSET {x} :
       Begin(a, "publish", x, x, [Nothing EXCEPT ![x] = v], R)

ReadSectionToPublish(a, x) ==
  /\ Here(x) /\ Publishable(x)
  /\ Begin(a, "publish", x, x, Latest({x}), {})

ReadToUnpublish(a, x) == Here(x) /\ ~InCourse(x) /\ Begin(a, "unpublish", x, None, Nothing, {})

ReadToArchive(a, x) ==
  /\ Here(x) /\ ~content[x].archived /\ ~InCourse(x)
  /\ Begin(a, "archive", x, None, Nothing, {})

ReadToRestore(a, x) == Here(x) /\ content[x].archived /\ Begin(a, "restore", x, None, Nothing, {})

ReadModuleToDelete(a, x) ==
  /\ Here(x) /\ ~InCourse(x)
  /\ content[x].latest = 0 /\ content[x].active = 0 /\ ~HasAttempts(x)
  /\ Begin(a, "delete", x, None, Nothing, {})

ReadSectionToDelete(a, x) ==
  /\ Here(x) /\ ~InCourse(x) /\ ~Certified(x)
  /\ Begin(a, "delete", x, None, Nothing, {})

\* listUnpublishedPurgeCandidates, those without a reason to be skipped.
PurgeCandidates ==
  {x \in Modules : Here(x) /\ Unpublished(x) /\ ~content[x].archived /\ ~HasAttempts(x) /\ ~InCourse(x)}
ReadToPurge(a) == PurgeCandidates # {} /\ Begin(a, "purge", None, None, Just(PurgeCandidates), {})

ReadToSetItems(a, c, S) ==
  /\ CourseHere(c) /\ Usable(S)
  /\ Begin(a, "set_items", c, None, Just(S), {})

ReadToSetModules(a, c, S) == Usable(S) /\ Begin(a, "set_modules", c, None, Just(S), {})

\* The publish route: getCoursePublishPreview and the plan made from it. Every unpublished item must be
\* publishable; without any the loop that follows has nothing to do.
ToPublish(c) == {x \in course[c].items : Unpublished(x)}
ReadToPublishCourse(a, c) ==
  /\ CourseHere(c)
  /\ \A x \in ToPublish(c) : Publishable(x)
  /\ Begin(a, "publish_items", c, None, Latest(ToPublish(c)), {})

\* getCoursePendingVersions: the items S of the author's own that have a newer version, as the client saw
\* them; revised where the author answered that it is a revision and somebody has passed the module.
ReadPending(a, c, S) ==
  /\ CourseHere(c)
  /\ S # {} /\ S \subseteq {x \in course[c].items : Pending(x)}
  /\ \A x \in S : Publishable(x)
  /\ \E R \in {{}, {x \in S \cap Modules : Passed(x)}} : Begin(a, "publish_pending", c, None, Latest(S), R)

ReadToArchiveCourse(a, c) ==
  /\ CourseHere(c) /\ ~InProgress(c)
  /\ Begin(a, "archive_course", c, None, Nothing, {})

ReadToDeleteCourse(a, c) ==
  /\ CourseHere(c) /\ ~HasCompletions(c)
  /\ Begin(a, "delete_course", c, None, Nothing, {})

\* analyzeCourseCascade: what only this course uses is deleted with it, unless somebody's history needs it.
OnlyIn(c) == {x \in course[c].items : \A d \in Courses \ {c} : x \notin course[d].items}
ReadToCascadeDelete(a, c) ==
  /\ CourseHere(c) /\ ~HasCompletions(c)
  /\ \A x \in OnlyIn(c) : IF x \in Modules THEN ~HasAttempts(x) ELSE ~Certified(x)
  /\ Begin(a, "cascade_delete", c, None, Just(OnlyIn(c)), {})

----------------------------------------------------------------------------
(* Author requests: the writes *)

Done(a) == author' = [author EXCEPT ![a] = Idle]
Doing(a, op) == author[a].op = op

\* The publish loops take up the next item. publishSection reads its section again; a module goes with the
\* version the plan names.
NextItem(a, x) ==
  LET v == IF x \in Sections THEN content[x].latest ELSE author[a].plan[x] IN
  /\ author[a].op \in {"publish_items", "publish_pending"} /\ author[a].at = None
  /\ x \in Planned(a)
  /\ x \in Sections => Here(x) /\ Publishable(x)
  /\ author' = [author EXCEPT ![a] = [@ EXCEPT !.at = x, !.plan[x] = v]]
  /\ UNCHANGED <<authored, earned, check>>

\* publishModuleVersion, with the passes a revision supersedes, and the transaction of publishSection.
PublishItem(a) ==
  LET r == author[a]  x == r.at IN
  /\ r.op \in {"publish", "publish_items", "publish_pending"} /\ x # None
  /\ Here(x)
  /\ content' = [content EXCEPT ![x].active = r.plan[x]]
  /\ attempt' = [p \in Users \X Modules |->
       IF p[2] = x /\ x \in r.revised /\ attempt[p] = "passed" THEN "lapsed" ELSE attempt[p]]
  /\ author' = [author EXCEPT ![a] = IF r.op = "publish" THEN Idle ELSE [r EXCEPT !.at = None, !.plan[x] = None]]
  /\ UNCHANGED <<course, reads, certificate, check>>

\* The loop has published everything: publishCourse counts the items, outside its transaction.
ItemsPublished(a) ==
  /\ author[a].at = None /\ author[a].plan = Nothing
  /\ \/ /\ Doing(a, "publish_items")
        /\ CourseHere(author[a].on) /\ course[author[a].on].items # {}
        /\ author' = [author EXCEPT ![a].op = "publish_course"]
     \/ /\ Doing(a, "publish_pending")
        /\ Done(a)
  /\ UNCHANGED <<authored, earned, check>>

PublishCourse(a) ==
  /\ Doing(a, "publish_course")
  /\ CourseHere(author[a].on)
  /\ course' = [course EXCEPT ![author[a].on].published = TRUE]
  /\ Done(a)
  /\ UNCHANGED <<content, earned, check>>

Unpublish(a) ==
  LET x == author[a].on IN
  /\ Doing(a, "unpublish") /\ Here(x)
  /\ x \in Modules => ~Unpublished(x)
  /\ content' = [content EXCEPT ![x].active = 0]
  /\ Done(a)
  /\ UNCHANGED <<course, earned, check>>

\* I3: archiving withdraws in the same statement.
Archive(a) ==
  LET x == author[a].on IN
  /\ Doing(a, "archive") /\ Here(x)
  /\ content' = [content EXCEPT ![x] = [@ EXCEPT !.archived = TRUE, !.active = 0]]
  /\ Done(a)
  /\ UNCHANGED <<course, earned, check>>

Restore(a) ==
  LET x == author[a].on IN
  /\ Doing(a, "restore") /\ Here(x)
  /\ content' = [content EXCEPT ![x].archived = FALSE]
  /\ Done(a)
  /\ UNCHANGED <<course, earned, check>>

Gone == [row |-> "gone", archived |-> FALSE, latest |-> 0, active |-> 0]

\* A module's versions keep it (they are not deleted here); a section takes its versions and reads with it.
Delete(a) ==
  LET x == author[a].on IN
  /\ Doing(a, "delete") /\ Here(x)
  /\ Unreferenced(x, None) /\ ~HeldByReader(x)
  /\ x \in Modules => content[x].latest = 0
  /\ content' = [content EXCEPT ![x] = Gone]
  /\ reads' = {r \in reads : r[3] # x}
  /\ Done(a)
  /\ UNCHANGED <<course, attempt, certificate, check>>

\* purgeUnpublishedModules, one candidate: its own transaction, versions and all; an error skips it.
PurgeNext(a, x) ==
  /\ Doing(a, "purge") /\ x \in Planned(a)
  /\ content' = IF Here(x) /\ Unreferenced(x, None) THEN [content EXCEPT ![x] = Gone] ELSE content
  /\ author' = [author EXCEPT ![a] = IF Planned(a) = {x} THEN Idle ELSE [@ EXCEPT !.plan[x] = None]]
  /\ UNCHANGED <<course, earned, check>>

\* setCourseModules: the sections stay, as the transaction reads them first.
SetModules(a) ==
  /\ Doing(a, "set_modules")
  /\ author' = [author EXCEPT ![a] = [@ EXCEPT !.op = "set_items",
       !.plan = Just(Planned(a) \cup (course[author[a].on].items \cap Sections))]]
  /\ UNCHANGED <<authored, earned, check>>

\* deleteMany of a rewrite: it takes the rows it sees, none of a rewrite that has not committed.
DeleteItems(a) ==
  /\ Doing(a, "set_items")
  /\ author' = [author EXCEPT ![a].op = "rewrite"]
  /\ UNCHANGED <<authored, earned, check>>

\* createMany, and the rewrite commits. Nothing makes an item unique in its course: to the other rewrites
\* under way the new rows come too late to be deleted, so they stay beside what those put in; the rows this
\* one has deleted stay beside nothing.
Own(r) == {x \in Contents : r.plan[x] = 0}
StandsBeside(r) == {x \in Contents : r.plan[x] = 1}
Joined(r, q) == [x \in Contents |->
  IF x \in Own(r) THEN 0
  ELSE IF x \in Own(q) \/ x \in StandsBeside(r) \cap StandsBeside(q) THEN 1 ELSE None]
SetItems(a) ==
  LET c == author[a].on  S == Planned(a) IN
  /\ Doing(a, "rewrite") /\ CourseHere(c) /\ AllHere(S)
  /\ course' = [course EXCEPT ![c].items = S]
  /\ author' = [b \in Authors |->
       IF b = a THEN Idle
       ELSE IF Doing(b, "rewrite") /\ author[b].on = c
       THEN [author[b] EXCEPT !.plan = Joined(author[b], author[a])]
       ELSE author[b]]
  /\ UNCHANGED <<content, earned, check>>

ArchiveCourse(a) ==
  /\ Doing(a, "archive_course") /\ CourseHere(author[a].on)
  /\ course' = [course EXCEPT ![author[a].on] = [@ EXCEPT !.archived = TRUE, !.published = FALSE]]
  /\ Done(a)
  /\ UNCHANGED <<content, earned, check>>

NoCourse == [row |-> "gone", published |-> FALSE, archived |-> FALSE, items |-> {}]

\* A course takes its items and reads with it; a certificate restricts (FK of CourseCompletion).
DeleteCourse(a) ==
  LET c == author[a].on IN
  /\ Doing(a, "delete_course") /\ CourseHere(c)
  /\ ~HasCompletions(c) /\ ~HeldByReader(c)
  /\ course' = [course EXCEPT ![c] = NoCourse]
  /\ reads' = {r \in reads : r[2] # c}
  /\ Done(a)
  /\ UNCHANGED <<content, attempt, certificate, check>>

\* cascadeDeleteCourse: one transaction; any foreign key that restricts rolls all of it back.
CascadeDelete(a) ==
  LET c == author[a].on  S == Planned(a) IN
  /\ Doing(a, "cascade_delete") /\ CourseHere(c) /\ AllHere(S)
  /\ ~HasCompletions(c) /\ ~HeldByReader(c)
  /\ \A x \in S : Unreferenced(x, c) /\ ~HeldByReader(x)
  /\ course' = [course EXCEPT ![c] = NoCourse]
  /\ content' = [x \in Contents |-> IF x \in S THEN Gone ELSE content[x]]
  /\ reads' = {r \in reads : r[2] # c /\ r[3] \notin S}
  /\ Done(a)
  /\ UNCHANGED <<attempt, certificate, check>>

\* A guard inside a transaction fails, the database refuses, or the process dies: what was committed stays.
AbortRequest(a) ==
  /\ author[a] # Idle
  /\ Done(a)
  /\ UNCHANGED <<authored, earned, check>>

----------------------------------------------------------------------------
(* Participants *)

HandIn(u, x) ==
  /\ Here(x) /\ Available(x)
  /\ attempt[<<u, x>>] = "none"
  /\ attempt' = [attempt EXCEPT ![<<u, x>>] = "handed_in"]
  /\ UNCHANGED <<authored, reads, certificate, author, check>>

\* A verdict may come late: the module may have been revised, withdrawn or archived since.
Pass(u, x) ==
  /\ attempt[<<u, x>>] \in {"handed_in", "lapsed"}
  /\ attempt' = [attempt EXCEPT ![<<u, x>>] = "passed"]
  /\ UNCHANGED <<authored, reads, certificate, author, check>>

\* The verdict on a later submission, or a ruling, is a fail and overwrites the pass.
Overturn(u, x) ==
  /\ attempt[<<u, x>>] = "passed"
  /\ attempt' = [attempt EXCEPT ![<<u, x>>] = "lapsed"]
  /\ UNCHANGED <<authored, reads, certificate, author, check>>

At(u, step) == check[u].step = step
GoOn(u, r) == check' = [check EXCEPT ![u] = r]
Live(c) == CourseHere(c) /\ course[c].published /\ ~course[c].archived
ModulesOf(c) == {x \in course[c].items \cap Modules : ~content[x].archived}
SectionsOf(c) == {x \in course[c].items \cap Sections : Available(x)}

\* The route's checks before a section is marked read.
ReadDoor(u, c, x) ==
  /\ At(u, "idle")
  /\ Live(c) /\ x \in SectionsOf(c)
  /\ GoOn(u, [NoCheck EXCEPT !.step = "door", !.course = c, !.reading = x])
  /\ UNCHANGED <<authored, earned, author>>

\* markSectionRead, in the transaction that ends with the check: its row shows to others at the end.
MarkRead(u) ==
  /\ At(u, "door")
  /\ CourseHere(check[u].course) /\ Here(check[u].reading)
  /\ GoOn(u, [check[u] EXCEPT !.step = "course"])
  /\ UNCHANGED <<authored, earned, author>>

\* A check from the outbox or the certificates page.
StartCheck(u, c) ==
  /\ At(u, "idle")
  /\ Live(c)
  /\ GoOn(u, [NoCheck EXCEPT !.step = "sections", !.course = c, !.modules = ModulesOf(c)])
  /\ UNCHANGED <<authored, earned, author>>

\* The end of a check: the mark is committed with it.
EndCheck(u) ==
  /\ GoOn(u, NoCheck)
  /\ reads' = IF check[u].reading = None THEN reads ELSE reads \cup {<<u, check[u].course, check[u].reading>>}

CheckCourse(u) ==
  LET c == check[u].course IN
  /\ At(u, "course")
  /\ IF Live(c)
     THEN /\ GoOn(u, [check[u] EXCEPT !.step = "sections", !.modules = ModulesOf(c)])
          /\ reads' = reads
     ELSE EndCheck(u)
  /\ UNCHANGED <<authored, attempt, certificate, author>>

CheckSections(u) ==
  LET S == SectionsOf(check[u].course) IN
  /\ At(u, "sections")
  /\ IF check[u].modules \cup S # {}
     THEN /\ GoOn(u, [check[u] EXCEPT !.step = "passes", !.sections = S])
          /\ reads' = reads
     ELSE EndCheck(u)
  /\ UNCHANGED <<authored, attempt, certificate, author>>

AllPassed(u, S) == \A x \in S : attempt[<<u, x>>] = "passed"
CheckPasses(u) ==
  /\ At(u, "passes")
  /\ IF AllPassed(u, check[u].modules)
     THEN /\ GoOn(u, [check[u] EXCEPT !.step = "reads"])
          /\ reads' = reads
     ELSE EndCheck(u)
  /\ UNCHANGED <<authored, attempt, certificate, author>>

AllRead(u, c, S) == \A x \in S : x = check[u].reading \/ <<u, c, x>> \in reads
Awarded(u, c) == \E z \in certificate : z.user = u /\ z.course = c
CheckReads(u) ==
  LET c == check[u].course IN
  /\ At(u, "reads")
  /\ IF AllRead(u, c, check[u].sections) /\ ~Awarded(u, c)
     THEN /\ GoOn(u, [check[u] EXCEPT !.step = "create"])
          /\ reads' = reads
     ELSE EndCheck(u)
  /\ UNCHANGED <<authored, attempt, certificate, author>>

\* createCourseCompletion with the snapshots of what was required; the course must still exist and the pair
\* of user and course be new.
Issue(u) ==
  LET c == check[u].course IN
  /\ At(u, "create")
  /\ CourseHere(c) /\ ~Awarded(u, c)
  /\ certificate' = certificate \cup {[user |-> u, course |-> c, covers |-> check[u].modules \cup check[u].sections]}
  /\ EndCheck(u)
  /\ UNCHANGED <<authored, attempt, author>>

\* Rolled back, or the process died: an uncommitted mark is lost.
AbortCheck(u) ==
  /\ ~At(u, "idle")
  /\ GoOn(u, NoCheck)
  /\ UNCHANGED <<authored, earned, author>>

----------------------------------------------------------------------------
AuthorReads(a) ==
  /\ author[a] = Idle
  /\ \/ ReadToPurge(a)
     \/ \E x \in Modules : ReadModuleToPublish(a, x) \/ ReadModuleToDelete(a, x)
     \/ \E x \in Sections : ReadSectionToPublish(a, x) \/ ReadSectionToDelete(a, x)
     \/ \E x \in Contents : ReadToUnpublish(a, x) \/ ReadToArchive(a, x) \/ ReadToRestore(a, x)
     \/ \E c \in Courses :
          \/ ReadToPublishCourse(a, c) \/ ReadToArchiveCourse(a, c)
          \/ ReadToDeleteCourse(a, c) \/ ReadToCascadeDelete(a, c)
          \/ \E S \in SUBSET Contents : ReadToSetItems(a, c, S) \/ ReadPending(a, c, S)
          \/ \E S \in SUBSET Modules : ReadToSetModules(a, c, S)

AuthorWrites(a) ==
  \/ PublishItem(a) \/ ItemsPublished(a) \/ PublishCourse(a) \/ Unpublish(a) \/ Archive(a) \/ Restore(a)
  \/ Delete(a) \/ SetModules(a) \/ DeleteItems(a) \/ SetItems(a) \/ ArchiveCourse(a) \/ DeleteCourse(a) \/ CascadeDelete(a)
  \/ AbortRequest(a)
  \/ \E x \in Contents : NextItem(a, x) \/ PurgeNext(a, x)

Writes ==
  \/ \E c \in Courses : CreateCourse(c) \/ UnpublishCourse(c) \/ RestoreCourse(c)
  \/ \E x \in Modules : CreateModule(x) \/ SaveVersion(x)
  \/ \E x \in Sections : CreateSection(x) \/ EditSection(x)

Participates(u) ==
  \/ \E x \in Modules : HandIn(u, x) \/ Pass(u, x) \/ Overturn(u, x)
  \/ \E c \in Courses : StartCheck(u, c) \/ \E x \in Sections : ReadDoor(u, c, x)
  \/ MarkRead(u) \/ CheckCourse(u) \/ CheckSections(u) \/ CheckPasses(u) \/ CheckReads(u)
  \/ Issue(u) \/ AbortCheck(u)

Next ==
  \/ Writes
  \/ \E a \in Authors : AuthorReads(a) \/ AuthorWrites(a)
  \/ \E u \in Users : Participates(u)

Spec == Init /\ [][Next]_vars

----------------------------------------------------------------------------
(* Properties *)

\* The tables hold rows of the kinds `schema.prisma` gives them, and each request stands at a step of its handler.
TypeOK ==
  /\ course \in [Courses -> Course]
  /\ content \in [Contents -> Content]
  /\ attempt \in [Users \X Modules -> Attempts]
  /\ reads \subseteq Users \X Courses \X Sections
  /\ certificate \subseteq [user : Users, course : Courses, covers : SUBSET Contents]
  /\ author \in [Authors -> Request]
  /\ check \in [Users -> Check]

\* G4: what somebody's history rests on is never deleted: a module handed in or passed, a course a
\* certificate was issued for, and the modules that certificate covers - whatever deletions, purges and
\* cascades run into each other.
HistoryStands ==
  /\ \A u \in Users, x \in Modules : attempt[<<u, x>>] # "none" => Here(x)
  /\ \A z \in certificate : CourseHere(z.course) /\ \A x \in z.covers \cap Modules : Here(x)

\* A certificate is earned in full (#525/#476): it covers something, each module of it was passed, each
\* section of it read in that course - unless that section, and the mark with it, has been deleted since.
EarnedInFull ==
  \A z \in certificate :
    /\ z.covers # {}
    /\ \A x \in z.covers \cap Modules : attempt[<<z.user, x>>] \in {"passed", "lapsed"}
    /\ \A x \in z.covers \cap Sections : Here(x) => <<z.user, z.course, x>> \in reads

============================================================================
