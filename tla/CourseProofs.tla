------------------------ MODULE CourseProofs ------------------------
(***************************************************************************)
(* Proofs about CourseContent and, at the end, CourseReminders for every   *)
(* set of courses, modules, sections, users and author requests, and of    *)
(* participants, classes and processes that sweep.                         *)
(*                                                                         *)
(* The argument.  Rows only go from new to here to gone, what a user has   *)
(* handed in keeps its module from being deleted, and a mark of a section  *)
(* read disappears only with the section or the course.  So what a check   *)
(* has established about a certificate before it is issued stays true, and *)
(* so does what an issued certificate says.  The second part, for any      *)
(* number of authors, says that what a request has read still holds, but   *)
(* for the items it met another request about.  Mails of reminders are     *)
(* charged to faults and to processes, each of which has one turn with a   *)
(* reminder.                                                               *)
(***************************************************************************)
EXTENDS SharedContent, CourseReminders, FiniteSetTheorems, WellFoundedInduction, TLAPS

----------------------------------------------------------------------------
(* What author requests carry *)

\* The item a request is about to publish has a version to be published in.
Publishes(r) == r.op \in {"publish", "publish_items", "publish_pending"}
PlanInv == \A a \in Authors : Publishes(author[a]) /\ author[a].at # None => author[a].plan[author[a].at] # None

\* The shape of every read: the request's record is replaced, nothing else changes.
Reads(a) == \E r \in Request :
  /\ r.at # None => r.plan[r.at] # None
  /\ author' = [author EXCEPT ![a] = r]
  /\ UNCHANGED <<authored, earned, check>>

LEMMA ReadsKeepTypes ==
  ASSUME TypeOK, PlanInv, NEW a \in Authors, Reads(a)
  PROVE  TypeOK' /\ PlanInv'
BY DEF TypeOK, PlanInv, Publishes, Reads, authored, earned

LEMMA BeginReads ==
  ASSUME NEW a \in Authors, NEW op \in Ops, NEW on \in Courses \cup Contents \cup {None},
         NEW at \in Contents \cup {None}, NEW plan \in [Contents -> Versions \cup {None}],
         NEW revised \in SUBSET Modules, at # None => plan[at] # None,
         Begin(a, op, on, at, plan, revised)
  PROVE  Reads(a)
<1> DEFINE r == [op |-> op, on |-> on, at |-> at, plan |-> plan, revised |-> revised]
<1>1. r \in Request
  BY DEF Request
<1> QED
  BY <1>1 DEF Begin, Reads

\* Most reads carry no item in hand and no revision.
LEMMA PlainReads ==
  ASSUME NEW a \in Authors, NEW op \in Ops, NEW on \in Courses \cup Contents \cup {None},
         NEW plan \in [Contents -> Versions \cup {None}], Begin(a, op, on, None, plan, {})
  PROVE  Reads(a)
BY BeginReads

LEMMA PlansAreTyped ==
  ASSUME TypeOK
  PROVE  /\ Nothing \in [Contents -> Versions \cup {None}]
         /\ \A S : Just(S) \in [Contents -> Versions \cup {None}]
         /\ \A S : Latest(S) \in [Contents -> Versions \cup {None}]
BY DEF TypeOK, Nothing, Just, Latest, Versions, Content

LEMMA AuthorReadsRead ==
  ASSUME TypeOK, NEW a \in Authors, AuthorReads(a)
  PROVE  Reads(a)
<1>0. /\ "publish" \in Ops /\ "delete" \in Ops /\ "purge" \in Ops
      /\ {"unpublish", "archive", "restore"} \subseteq Ops
      /\ "set_items" \in Ops /\ "set_modules" \in Ops
      /\ "publish_items" \in Ops /\ "publish_pending" \in Ops
      /\ "archive_course" \in Ops /\ "delete_course" \in Ops /\ "cascade_delete" \in Ops
  BY DEF Ops
<1> USE <1>0, PlansAreTyped
<1>1. CASE ReadToPurge(a)
  <2>1. Begin(a, "purge", None, None, Just(PurgeCandidates), {})
    BY <1>1 DEF ReadToPurge
  <2> QED
    BY <2>1, PlainReads
<1>2. ASSUME NEW x \in Modules, ReadModuleToPublish(a, x) PROVE Reads(a)
  <2>1. PICK v \in 1 .. content[x].latest, R \in SUBSET {x} :
               Begin(a, "publish", x, x, [Nothing EXCEPT ![x] = v], R)
    BY <1>2 DEF ReadModuleToPublish
  <2>2. x \in Contents /\ content[x].latest \in Nat
    BY DEF TypeOK, Contents, Content, Versions
  <2>3. v \in Nat /\ v # None
    BY <2>2, KindsAreApart
  <2>4. [Nothing EXCEPT ![x] = v] \in [Contents -> Versions \cup {None}]
    BY <2>2, <2>3 DEF Nothing, Versions
  <2>5. [Nothing EXCEPT ![x] = v][x] # None
    BY <2>2, <2>3 DEF Nothing
  <2> QED
    <3> DEFINE p == [Nothing EXCEPT ![x] = v]
    <3>1. p \in [Contents -> Versions \cup {None}] /\ p[x] # None /\ Begin(a, "publish", x, x, p, R)
      BY <2>1, <2>4, <2>5
    <3>2. R \in SUBSET Modules
      OBVIOUS
    <3> HIDE DEF p
    <3> QED
      BY <3>1, <3>2, <2>2, BeginReads
<1>3. ASSUME NEW x \in Modules, ReadModuleToDelete(a, x) PROVE Reads(a)
  <2>1. Begin(a, "delete", x, None, Nothing, {}) /\ x \in Contents
    BY <1>3 DEF ReadModuleToDelete, Contents
  <2> QED
    BY <2>1, PlainReads
<1>4. ASSUME NEW x \in Sections, ReadSectionToPublish(a, x) PROVE Reads(a)
  <2>1. x \in Contents /\ content[x].latest \in Nat
    BY DEF TypeOK, Contents, Content, Versions
  <2>2. Latest({x})[x] # None
    BY <2>1, KindsAreApart DEF Latest
  <2> QED
    BY <1>4, <2>1, <2>2, BeginReads DEF ReadSectionToPublish
<1>5. ASSUME NEW x \in Sections, ReadSectionToDelete(a, x) PROVE Reads(a)
  <2>1. Begin(a, "delete", x, None, Nothing, {}) /\ x \in Contents
    BY <1>5 DEF ReadSectionToDelete, Contents
  <2> QED
    BY <2>1, PlainReads
<1>6. ASSUME NEW x \in Contents, ReadToUnpublish(a, x) \/ ReadToArchive(a, x) \/ ReadToRestore(a, x)
      PROVE Reads(a)
  <2>1. \E op \in {"unpublish", "archive", "restore"} : Begin(a, op, x, None, Nothing, {})
    BY <1>6 DEF ReadToUnpublish, ReadToArchive, ReadToRestore
  <2>2. PICK op \in Ops : Begin(a, op, x, None, Nothing, {})
    BY <2>1
  <2> QED
    BY <2>2, PlainReads
<1>7. ASSUME NEW c \in Courses,
             \/ ReadToPublishCourse(a, c) \/ ReadToArchiveCourse(a, c)
             \/ ReadToDeleteCourse(a, c) \/ ReadToCascadeDelete(a, c)
      PROVE Reads(a)
  <2>1. \/ Begin(a, "publish_items", c, None, Latest(ToPublish(c)), {})
        \/ \E op \in {"archive_course", "delete_course"} : Begin(a, op, c, None, Nothing, {})
        \/ Begin(a, "cascade_delete", c, None, Just(OnlyIn(c)), {})
    BY <1>7 DEF ReadToPublishCourse, ReadToArchiveCourse, ReadToDeleteCourse, ReadToCascadeDelete
  <2>2. PICK op \in Ops, plan \in [Contents -> Versions \cup {None}] : Begin(a, op, c, None, plan, {})
    BY <2>1
  <2> QED
    BY <2>2, PlainReads
<1>8. ASSUME NEW c \in Courses, NEW S \in SUBSET Contents, ReadToSetItems(a, c, S) PROVE Reads(a)
  <2>1. Begin(a, "set_items", c, None, Just(S), {})
    BY <1>8 DEF ReadToSetItems
  <2> QED
    BY <2>1, PlainReads
<1>9. ASSUME NEW c \in Courses, NEW S \in SUBSET Contents, ReadPending(a, c, S) PROVE Reads(a)
  <2>1. PICK R \in SUBSET Modules : Begin(a, "publish_pending", c, None, Latest(S), R)
    BY <1>9 DEF ReadPending
  <2> QED
    BY <2>1, BeginReads
<1>10. ASSUME NEW c \in Courses, NEW S \in SUBSET Modules, ReadToSetModules(a, c, S) PROVE Reads(a)
  <2>1. Begin(a, "set_modules", c, None, Just(S), {})
    BY <1>10 DEF ReadToSetModules
  <2> QED
    BY <2>1, PlainReads
<1> QED
  BY <1>1, <1>2, <1>3, <1>4, <1>5, <1>6, <1>7, <1>8, <1>9, <1>10 DEF AuthorReads

----------------------------------------------------------------------------
(* The inductive invariant *)

\* What a completion check has established so far, and does not lose while it runs.
Established(u, k) ==
  /\ k.step # "idle" => k.course \in Courses /\ course[k.course].row # "new"
  /\ \A x \in k.sections : content[x].row # "new"
  /\ k.step \in {"passes", "reads", "create"} => k.modules \cup k.sections # {}
  /\ k.step \in {"reads", "create"} => \A x \in k.modules : attempt[<<u, x>>] \in {"passed", "lapsed"}
  /\ k.step = "create" /\ CourseHere(k.course) =>
       \A x \in k.sections : Here(x) => x = k.reading \/ <<u, k.course, x>> \in reads
CheckInv == \A u \in Users : Established(u, check[u])

\* What a certificate covers has existed.
CoverInv == \A z \in certificate : \A x \in z.covers : content[x].row # "new"

\* Nothing of what was not created can be opened.
NewInv == \A x \in Contents : content[x].row = "new" => content[x].active = 0

HInv == TypeOK /\ PlanInv /\ CheckInv /\ CoverInv /\ HistoryStands /\ EarnedInFull

LEMMA InitHistory == Init => HInv
<1> SUFFICES ASSUME Init PROVE HInv
  OBVIOUS
<1>1. TypeOK
  BY DEF Init, TypeOK, Course, Content, Rows, Attempts, Idle, Nothing, Request, Ops, NoCheck, Check, Steps, Versions
<1>2. PlanInv /\ CheckInv
  BY DEF Init, PlanInv, CheckInv, Established, Idle, NoCheck
<1>3. CoverInv /\ HistoryStands /\ EarnedInFull
  BY DEF Init, CoverInv, HistoryStands, EarnedInFull
<1> QED
  BY <1>1, <1>2, <1>3 DEF HInv

\* A step of an author, or of a participant outside a check, as the rest of the system sees it: rows go
\* from new to here to gone, what history needs is spared, and a mark goes only with its row.
World ==
  /\ \A x \in Contents : /\ content[x].row # "new" => content'[x].row # "new"
                         /\ content[x].row = "gone" => content'[x].row = "gone"
  /\ \A c \in Courses : /\ course[c].row # "new" => course'[c].row # "new"
                        /\ course[c].row = "gone" => course'[c].row = "gone"
  /\ \A u \in Users, x \in Modules : attempt'[<<u, x>>] # "none" => content'[x].row = "here"
  /\ \A z \in certificate : course'[z.course].row = "here"
  /\ \A u \in Users, x \in Modules :
       attempt[<<u, x>>] \in {"passed", "lapsed"} => attempt'[<<u, x>>] \in {"passed", "lapsed"}
  /\ \A u \in Users, c \in Courses, x \in Sections :
       <<u, c, x>> \in reads =>
         <<u, c, x>> \in reads' \/ content'[x].row # "here" \/ course'[c].row # "here"
  /\ certificate' = certificate
  /\ check' = check

LEMMA RowCases ==
  ASSUME TypeOK
  PROVE  /\ \A x \in Contents : content[x].row \in {"new", "here", "gone"}
         /\ \A c \in Courses : course[c].row \in {"new", "here", "gone"}
BY DEF TypeOK, Content, Course, Rows

LEMMA WorldKeeps ==
  ASSUME HInv, World, TypeOK', PlanInv'
  PROVE  HInv'
<1> USE RowCases DEF HInv
<1>1. CoverInv'
  BY DEF World, CoverInv, TypeOK
<1>2. HistoryStands'
  <2>1. \A z \in certificate : \A x \in z.covers \cap Modules : attempt[<<z.user, x>>] \in {"passed", "lapsed"}
    BY DEF EarnedInFull
  <2>2. \A z \in certificate : z.user \in Users
    BY DEF TypeOK
  <2> QED
    BY <2>1, <2>2 DEF World, HistoryStands, Here, CourseHere
<1>3. EarnedInFull'
  <2> SUFFICES ASSUME NEW z \in certificate
               PROVE  /\ z.covers # {}
                      /\ \A x \in z.covers \cap Modules : attempt'[<<z.user, x>>] \in {"passed", "lapsed"}
                      /\ \A x \in z.covers \cap Sections :
                           content'[x].row = "here" => <<z.user, z.course, x>> \in reads'
    BY DEF World, EarnedInFull, Here
  <2>1. z.user \in Users /\ z.course \in Courses /\ z.covers \subseteq Contents
    BY DEF TypeOK
  <2>2. z.covers # {} /\ \A x \in z.covers \cap Modules : attempt[<<z.user, x>>] \in {"passed", "lapsed"}
    BY DEF EarnedInFull
  <2>3. \A x \in z.covers \cap Modules : attempt'[<<z.user, x>>] \in {"passed", "lapsed"}
    BY <2>1, <2>2 DEF World
  <2>4. ASSUME NEW x \in z.covers \cap Sections, content'[x].row = "here"
        PROVE  <<z.user, z.course, x>> \in reads'
    <3>1. content[x].row = "here"
      BY <2>1, <2>4 DEF World, CoverInv
    <3>2. <<z.user, z.course, x>> \in reads
      BY <3>1 DEF EarnedInFull, Here
    <3> QED
      BY <2>1, <2>4, <3>2 DEF World
  <2> QED
    BY <2>2, <2>3, <2>4
<1>4. CheckInv'
  <2> SUFFICES ASSUME NEW u \in Users
               PROVE
    /\ check[u].step # "idle" => check[u].course \in Courses /\ course'[check[u].course].row # "new"
    /\ \A x \in check[u].sections : content'[x].row # "new"
    /\ check[u].step \in {"passes", "reads", "create"} => check[u].modules \cup check[u].sections # {}
    /\ check[u].step \in {"reads", "create"} =>
         \A x \in check[u].modules : attempt'[<<u, x>>] \in {"passed", "lapsed"}
    /\ check[u].step = "create" /\ course'[check[u].course].row = "here" =>
         \A x \in check[u].sections :
           content'[x].row = "here" => x = check[u].reading \/ <<u, check[u].course, x>> \in reads'
    BY DEF World, CheckInv, Established, Here, CourseHere
  <2>1. check[u].sections \subseteq Sections /\ check[u].modules \subseteq Modules
    BY DEF TypeOK, Check
  <2>2. check[u].step # "idle" => check[u].course \in Courses /\ course'[check[u].course].row # "new"
    BY DEF World, CheckInv, Established
  <2>3. \A x \in check[u].sections : content[x].row # "new" /\ content'[x].row # "new"
    BY <2>1 DEF World, CheckInv, Established, Contents
  <2>4. check[u].step \in {"passes", "reads", "create"} => check[u].modules \cup check[u].sections # {}
    BY DEF CheckInv, Established
  <2>5. check[u].step \in {"reads", "create"} =>
          \A x \in check[u].modules : attempt'[<<u, x>>] \in {"passed", "lapsed"}
    BY <2>1 DEF World, CheckInv, Established
  <2>6. ASSUME check[u].step = "create", course'[check[u].course].row = "here",
               NEW x \in check[u].sections, content'[x].row = "here"
        PROVE  x = check[u].reading \/ <<u, check[u].course, x>> \in reads'
    <3>1. check[u].course \in Courses /\ course[check[u].course].row = "here"
      BY <2>6 DEF World, CheckInv, Established
    <3>2. content[x].row = "here"
      BY <2>1, <2>3, <2>6 DEF World, Contents
    <3>3. x = check[u].reading \/ <<u, check[u].course, x>> \in reads
      BY <3>1, <3>2, <2>6 DEF CheckInv, Established, Here, CourseHere
    <3> QED
      BY <2>1, <2>6, <3>1, <3>3 DEF World
  <2> QED
    BY <2>2, <2>3, <2>4, <2>5, <2>6
<1> QED
  BY <1>1, <1>2, <1>3, <1>4

WorldStep == World /\ TypeOK' /\ PlanInv'

\* A request that is over, or drops an item from its plan.
LEMMA EndsKeepPlans ==
  ASSUME TypeOK, PlanInv, NEW a \in Authors, Done(a)
  PROVE  author' \in [Authors -> Request] /\ PlanInv'
<1>1. Idle \in Request /\ Idle.at = None
  BY DEF Idle, Request, Ops, Nothing
<1> QED
  BY <1>1 DEF Done, TypeOK, PlanInv

LEMMA PlanShrinks ==
  ASSUME TypeOK, PlanInv, NEW a \in Authors, NEW x \in Contents, NEW r \in Request,
         r = [author[a] EXCEPT !.at = None, !.plan[x] = None], author' = [author EXCEPT ![a] = r]
  PROVE  author' \in [Authors -> Request] /\ PlanInv'
BY DEF TypeOK, PlanInv, Request

\* Rows unchanged, marks unchanged: whatever the rest of the step does to drafts, stamps and items.
LEMMA RowsStay ==
  ASSUME HInv, certificate' = certificate, check' = check, reads' = reads,
         \A x \in Contents : content'[x].row = content[x].row,
         \A c \in Courses : course'[c].row = course[c].row,
         \A u \in Users, x \in Modules :
           \/ attempt'[<<u, x>>] = attempt[<<u, x>>]
           \/ attempt[<<u, x>>] = "passed" /\ attempt'[<<u, x>>] = "lapsed"
  PROVE  World
<1> USE DEF HInv
<1>1. \A u \in Users, x \in Modules : attempt'[<<u, x>>] # "none" => content'[x].row = "here"
  BY DEF HistoryStands, Here, Contents
<1>2. \A z \in certificate : course'[z.course].row = "here"
  BY DEF HistoryStands, CourseHere, TypeOK
<1> QED
  BY <1>1, <1>2 DEF World

LEMMA ReadsAreWorld ==
  ASSUME HInv, NEW a \in Authors, Reads(a)
  PROVE  WorldStep
<1>1. World
  BY RowsStay DEF Reads, authored, earned
<1> QED
  BY <1>1, ReadsKeepTypes DEF HInv, WorldStep

LEMMA WritesAreWorld ==
  ASSUME HInv, Writes
  PROVE  WorldStep
<1> USE DEF HInv
<1> SUFFICES World /\ TypeOK'
  BY DEF WorldStep, PlanInv, Writes, CreateCourse, UnpublishCourse, RestoreCourse, CreateModule, SaveVersion,
         CreateSection, EditSection
<1>1. ASSUME NEW c \in Courses, CreateCourse(c) PROVE World /\ TypeOK'
  <2>1. TypeOK'
    BY <1>1 DEF TypeOK, CreateCourse, Course, Rows, earned
  <2>2. \A d \in Courses : /\ course[d].row # "new" => course'[d].row = course[d].row
    BY <1>1 DEF TypeOK, CreateCourse
  <2>3. World
    BY <1>1, <2>2 DEF CreateCourse, World, earned, HistoryStands, Here, CourseHere, TypeOK
  <2> QED
    BY <2>1, <2>3
<1>2. ASSUME NEW c \in Courses, UnpublishCourse(c) \/ RestoreCourse(c) PROVE World /\ TypeOK'
  <2>1. TypeOK'
    BY <1>2 DEF TypeOK, UnpublishCourse, RestoreCourse, Course, earned
  <2>2. \A d \in Courses : course'[d].row = course[d].row
    BY <1>2 DEF TypeOK, UnpublishCourse, RestoreCourse, Course
  <2>3. World
    BY <1>2, <2>2, RowsStay DEF UnpublishCourse, RestoreCourse, earned
  <2> QED
    BY <2>1, <2>3
<1>3. ASSUME NEW x \in Contents, content[x].row = "new", UNCHANGED <<course, earned, author, check>>,
             NEW y \in Content, y.row = "here", content' = [content EXCEPT ![x] = y]
      PROVE  World /\ TypeOK'
  <2>1. TypeOK'
    BY <1>3 DEF TypeOK, earned
  <2>2. \A w \in Contents : content[w].row # "new" => content'[w].row = content[w].row
    BY <1>3 DEF TypeOK
  <2>3. World
    BY <1>3, <2>2 DEF World, earned, HistoryStands, Here, CourseHere, TypeOK, Contents
  <2> QED
    BY <2>1, <2>3
<1>4. ASSUME NEW x \in Contents, UNCHANGED <<course, earned, author, check>>,
             NEW y \in Content, y.row = content[x].row, content' = [content EXCEPT ![x] = y]
      PROVE  World /\ TypeOK'
  <2>1. TypeOK'
    BY <1>4 DEF TypeOK, earned
  <2>2. \A w \in Contents : content'[w].row = content[w].row
    BY <1>4 DEF TypeOK
  <2>3. World
    BY <1>4, <2>2, RowsStay DEF earned
  <2> QED
    BY <2>1, <2>3
<1>5. ASSUME NEW x \in Modules, CreateModule(x) PROVE World /\ TypeOK'
  BY <1>5, <1>3 DEF CreateModule, TypeOK, Content, Rows, Contents
<1>6. ASSUME NEW x \in Modules, SaveVersion(x) PROVE World /\ TypeOK'
  <2> DEFINE y == [content[x] EXCEPT !.latest = @ + 1]
  <2>1. x \in Contents /\ content[x] \in Content
    BY DEF TypeOK, Contents
  <2>2. y \in Content /\ y.row = content[x].row
    BY <2>1 DEF Content, Versions
  <2>3. content' = [content EXCEPT ![x] = y] /\ UNCHANGED <<course, earned, author, check>>
    BY <1>6 DEF SaveVersion
  <2> QED
    BY <2>1, <2>2, <2>3, <1>4
<1>7. ASSUME NEW x \in Sections, CreateSection(x) PROVE World /\ TypeOK'
  <2>1. PICK v \in {0, 1} : content' = [content EXCEPT ![x] = [@ EXCEPT !.row = "here", !.latest = 1, !.active = v]]
    BY <1>7 DEF CreateSection
  <2> DEFINE y == [content[x] EXCEPT !.row = "here", !.latest = 1, !.active = v]
  <2>2. x \in Contents /\ content[x] \in Content
    BY DEF TypeOK, Contents
  <2>3. y \in Content /\ y.row = "here"
    <3>1. v \in Nat
      OBVIOUS
    <3> DEFINE y1 == [content[x] EXCEPT !.row = "here"]  y2 == [y1 EXCEPT !.latest = 1]
    <3>2. y1 \in Content /\ y1.row = "here"
      BY <2>2 DEF Content, Rows
    <3> HIDE DEF y1
    <3>3. y2 \in Content /\ y2.row = "here"
      BY <3>2 DEF Content, Versions
    <3> HIDE DEF y2
    <3>4. [y2 EXCEPT !.active = v] \in Content /\ [y2 EXCEPT !.active = v].row = "here"
      BY <3>1, <3>3 DEF Content, Versions
    <3> QED
      BY <3>4 DEF y1, y2
  <2>4. content' = [content EXCEPT ![x] = y] /\ content[x].row = "new" /\ UNCHANGED <<course, earned, author, check>>
    BY <1>7, <2>1 DEF CreateSection
  <2> QED
    BY <2>2, <2>3, <2>4, <1>3
<1>8. ASSUME NEW x \in Sections, EditSection(x) PROVE World /\ TypeOK'
  <2>1. PICK v \in {content[x].active, content[x].latest + 1} :
               content' = [content EXCEPT ![x].latest = @ + 1, ![x].active = v]
    BY <1>8 DEF EditSection
  <2> DEFINE y == [content[x] EXCEPT !.latest = @ + 1, !.active = v]
  <2>2. x \in Contents /\ content[x] \in Content
    BY DEF TypeOK, Contents
  <2>3. y \in Content /\ y.row = content[x].row
    <3>1. v \in Nat /\ content[x].latest \in Nat
      BY <2>2 DEF Content, Versions
    <3> DEFINE y1 == [content[x] EXCEPT !.latest = @ + 1]
    <3>2. y1 \in Content /\ y1.row = content[x].row
      BY <2>2, <3>1 DEF Content, Versions
    <3> HIDE DEF y1
    <3>3. [y1 EXCEPT !.active = v] \in Content /\ [y1 EXCEPT !.active = v].row = content[x].row
      BY <3>1, <3>2 DEF Content, Versions
    <3> QED
      BY <3>3 DEF y1
  <2>4. content' = [content EXCEPT ![x] = y] /\ UNCHANGED <<course, earned, author, check>>
    BY <1>8, <2>1 DEF EditSection
  <2> QED
    BY <2>2, <2>3, <2>4, <1>4
<1> QED
  BY <1>1, <1>2, <1>5, <1>6, <1>7, <1>8 DEF Writes

LEMMA DeletesAreWorld ==
  ASSUME HInv, NEW S \in SUBSET Contents, NEW C \in SUBSET Courses,
         \A x \in S \cap Modules : ~HasAttempts(x),
         \A c \in C : ~HasCompletions(c),
         content' = [x \in Contents |-> IF x \in S THEN Gone ELSE content[x]],
         course' = [c \in Courses |-> IF c \in C THEN NoCourse ELSE course[c]],
         reads' = {m \in reads : m[2] \notin C /\ m[3] \notin S},
         UNCHANGED <<attempt, certificate, check>>,
         author' \in [Authors -> Request], PlanInv'
  PROVE  WorldStep
<1> USE DEF HInv
<1>1. TypeOK'
  BY DEF TypeOK, Gone, NoCourse, Content, Course, Rows, Versions
<1>2. \A u \in Users, x \in Modules : attempt'[<<u, x>>] # "none" => content'[x].row = "here"
  BY DEF HistoryStands, Here, Contents, HasAttempts
<1>3. \A z \in certificate : course'[z.course].row = "here"
  BY DEF HistoryStands, CourseHere, HasCompletions, TypeOK
<1>4. \A x \in Contents : /\ content[x].row # "new" => content'[x].row # "new"
                          /\ content[x].row = "gone" => content'[x].row = "gone"
  BY DEF Gone
<1>5. \A c \in Courses : /\ course[c].row # "new" => course'[c].row # "new"
                         /\ course[c].row = "gone" => course'[c].row = "gone"
  BY DEF NoCourse
<1>6. ASSUME NEW u \in Users, NEW c \in Courses, NEW x \in Sections, <<u, c, x>> \in reads
      PROVE  <<u, c, x>> \in reads' \/ content'[x].row # "here" \/ course'[c].row # "here"
  <2>1. x \in S => content'[x].row # "here"
    BY DEF Gone, Contents
  <2>2. c \in C => course'[c].row # "here"
    BY DEF NoCourse
  <2> QED
    BY <1>6, <2>1, <2>2
<1> QED
  BY <1>1, <1>2, <1>3, <1>4, <1>5, <1>6 DEF World, WorldStep

LEMMA DeletingWritesAreWorld ==
  ASSUME HInv, NEW a \in Authors,
         Delete(a) \/ DeleteCourse(a) \/ CascadeDelete(a) \/ \E x \in Contents : PurgeNext(a, x)
  PROVE  WorldStep
<1> USE DEF HInv
<1>0. /\ content = [x \in Contents |-> IF x \in {} THEN Gone ELSE content[x]]
      /\ course = [c \in Courses |-> IF c \in {} THEN NoCourse ELSE course[c]]
  BY DEF TypeOK
<1>1. CASE Delete(a)
  <2> DEFINE x == author[a].on  S == {x} \cap Contents  C == {} \cap Courses
  <2>1. content' = [y \in Contents |-> IF y \in S THEN Gone ELSE content[y]]
    BY <1>1 DEF Delete, TypeOK
  <2>2. reads' = {m \in reads : m[2] \notin C /\ m[3] \notin S}
    BY <1>1 DEF Delete, TypeOK, Contents
  <2>3. \A y \in S \cap Modules : ~HasAttempts(y)
    BY <1>1 DEF Delete, Unreferenced
  <2>4. author' \in [Authors -> Request] /\ PlanInv' /\ UNCHANGED <<attempt, certificate, check>>
    BY <1>1, EndsKeepPlans DEF Delete
  <2>5. course' = [d \in Courses |-> IF d \in C THEN NoCourse ELSE course[d]]
    BY <1>0, <1>1 DEF Delete
  <2>6. S \in SUBSET Contents /\ C \in SUBSET Courses /\ \A d \in C : ~HasCompletions(d)
    OBVIOUS
  <2> HIDE DEF S, C
  <2> QED
    BY <2>1, <2>2, <2>3, <2>4, <2>5, <2>6, DeletesAreWorld
<1>2. CASE DeleteCourse(a)
  <2> DEFINE c == author[a].on  C == {c} \cap Courses  S == {} \cap Contents
  <2>1. course' = [d \in Courses |-> IF d \in C THEN NoCourse ELSE course[d]]
    BY <1>2 DEF DeleteCourse, TypeOK
  <2>2. reads' = {m \in reads : m[2] \notin C /\ m[3] \notin S}
    BY <1>2 DEF DeleteCourse, TypeOK
  <2>3. \A d \in C : ~HasCompletions(d)
    BY <1>2 DEF DeleteCourse
  <2>4. author' \in [Authors -> Request] /\ PlanInv' /\ UNCHANGED <<attempt, certificate, check>>
    BY <1>2, EndsKeepPlans DEF DeleteCourse
  <2>5. content' = [y \in Contents |-> IF y \in S THEN Gone ELSE content[y]]
    BY <1>0, <1>2 DEF DeleteCourse
  <2>6. S \in SUBSET Contents /\ C \in SUBSET Courses /\ \A y \in S \cap Modules : ~HasAttempts(y)
    OBVIOUS
  <2> HIDE DEF S, C
  <2> QED
    BY <2>1, <2>2, <2>3, <2>4, <2>5, <2>6, DeletesAreWorld
<1>3. CASE CascadeDelete(a)
  <2> DEFINE c == author[a].on  S == Planned(a)  C == {c} \cap Courses
  <2>0. S \in SUBSET Contents
    BY DEF Planned
  <2>1. course' = [d \in Courses |-> IF d \in C THEN NoCourse ELSE course[d]]
    BY <1>3 DEF CascadeDelete, TypeOK
  <2>2. reads' = {m \in reads : m[2] \notin C /\ m[3] \notin S}
    BY <1>3 DEF CascadeDelete, TypeOK
  <2>3. /\ \A d \in C : ~HasCompletions(d)
        /\ \A y \in S \cap Modules : ~HasAttempts(y)
    BY <1>3 DEF CascadeDelete, Unreferenced
  <2>4. /\ author' \in [Authors -> Request] /\ PlanInv' /\ UNCHANGED <<attempt, certificate, check>>
        /\ content' = [y \in Contents |-> IF y \in S THEN Gone ELSE content[y]]
    BY <1>3, EndsKeepPlans DEF CascadeDelete
  <2> HIDE DEF S, C
  <2> QED
    BY <2>0, <2>1, <2>2, <2>3, <2>4, DeletesAreWorld DEF C
<1>4. ASSUME NEW x \in Contents, PurgeNext(a, x) PROVE WorldStep
  <2>1. UNCHANGED <<course, attempt, reads, certificate, check>>
    BY <1>4 DEF PurgeNext, earned
  <2>2. author' \in [Authors -> Request] /\ PlanInv'
    <3>1. Idle \in Request /\ ~Publishes(Idle)
      BY DEF Idle, Request, Ops, Nothing, Publishes
    <3>2. author' = [author EXCEPT ![a] = Idle] \/ author' = [author EXCEPT ![a] = [@ EXCEPT !.plan[x] = None]]
      BY <1>4 DEF PurgeNext
    <3>3. author[a].op = "purge"
      BY <1>4 DEF PurgeNext, Doing
    <3>4. author' \in [Authors -> Request]
      <4>1. author[a] \in Request
        BY DEF TypeOK
      <4>2. [author[a] EXCEPT !.plan[x] = None] \in Request
        BY <4>1 DEF Request
      <4> QED
        BY <3>1, <3>2, <4>2 DEF TypeOK
    <3>5. \A b \in Authors : author'[b] = author[b] \/ ~Publishes(author'[b])
      BY <3>1, <3>2, <3>3 DEF TypeOK, Publishes, Request
    <3> QED
      BY <3>4, <3>5 DEF PlanInv
  <2>3. CASE ~(Here(x) /\ Unreferenced(x, None))
    <3>1. content' = content
      BY <1>4, <2>3 DEF PurgeNext
    <3>2. World
      BY <2>1, <3>1, RowsStay
    <3> QED
      BY <2>1, <2>2, <3>1, <3>2 DEF WorldStep, TypeOK
  <2>4. CASE Here(x) /\ Unreferenced(x, None)
    <3>1. content' = [content EXCEPT ![x] = Gone]
      BY <1>4, <2>4 DEF PurgeNext
    <3>2. \A u \in Users : x \in Modules => attempt[<<u, x>>] = "none"
      BY <2>4 DEF Unreferenced, HasAttempts
    <3>3. TypeOK'
      BY <2>1, <2>2, <3>1 DEF TypeOK, Gone, Content, Rows, Versions
    <3>4. World
      BY <2>1, <3>1, <3>2 DEF World, HistoryStands, Here, CourseHere, TypeOK, Gone, Contents
    <3> QED
      BY <2>2, <3>3, <3>4 DEF WorldStep
  <2> QED
    BY <2>3, <2>4
<1> QED
  BY <1>1, <1>2, <1>3, <1>4

LEMMA PublishesAreWorld ==
  ASSUME HInv, NEW a \in Authors, PublishItem(a) \/ \E x \in Contents : NextItem(a, x)
  PROVE  WorldStep
<1> USE DEF HInv
<1>0. author[a] \in Request
  BY DEF TypeOK
<1>1. CASE PublishItem(a)
  <2> DEFINE x == author[a].at  v == author[a].plan[x]
  <2>1. x \in Contents /\ v \in Nat
    <3>1. x \in Contents
      BY <1>0, <1>1 DEF PublishItem, Request
    <3>2. v # None
      BY <1>1 DEF PublishItem, PlanInv, Publishes
    <3> QED
      BY <1>0, <3>1, <3>2 DEF Request, Versions
  <2>2. content' = [content EXCEPT ![x].active = v] /\ UNCHANGED <<course, reads, certificate, check>>
    BY <1>1 DEF PublishItem
  <2>3. attempt' = [p \in Users \X Modules |->
          IF p[2] = x /\ x \in author[a].revised /\ attempt[p] = "passed" THEN "lapsed" ELSE attempt[p]]
    BY <1>1 DEF PublishItem
  <2>4. author' \in [Authors -> Request] /\ PlanInv'
    <3>1. CASE author' = [author EXCEPT ![a] = Idle]
      BY <3>1, EndsKeepPlans DEF Done
    <3>2. CASE author' = [author EXCEPT ![a] = [author[a] EXCEPT !.at = None, !.plan[x] = None]]
      <4> DEFINE r == [author[a] EXCEPT !.at = None, !.plan[x] = None]
      <4>1. r \in Request
        BY <1>0, <2>1 DEF Request
      <4> QED
        BY <2>1, <3>2, <4>1, PlanShrinks
    <3> QED
      BY <1>1, <3>1, <3>2 DEF PublishItem
  <2> HIDE DEF x, v
  <2>5. content' \in [Contents -> Content] /\ \A y \in Contents : content'[y].row = content[y].row
    BY <2>1, <2>2 DEF TypeOK, Content, Versions
  <2>6. attempt' \in [Users \X Modules -> Attempts]
    BY <2>3 DEF TypeOK, Attempts
  <2>7. \A u \in Users, y \in Modules :
          \/ attempt'[<<u, y>>] = attempt[<<u, y>>]
          \/ attempt[<<u, y>>] = "passed" /\ attempt'[<<u, y>>] = "lapsed"
    BY <2>3
  <2>8. World
    BY <2>2, <2>5, <2>7, RowsStay
  <2>9. TypeOK'
    BY <2>2, <2>4, <2>5, <2>6 DEF TypeOK
  <2> QED
    BY <2>4, <2>8, <2>9 DEF WorldStep
<1>2. ASSUME NEW x \in Contents, NextItem(a, x) PROVE WorldStep
  <2>1. UNCHANGED <<authored, earned, check>>
    BY <1>2 DEF NextItem
  <2>2. content[x].latest \in Nat
    BY DEF TypeOK, Content, Versions
  <2> DEFINE v == IF x \in Sections THEN content[x].latest ELSE author[a].plan[x]
             r == [author[a] EXCEPT !.at = x, !.plan[x] = v]
  <2>3. v \in Nat
    BY <1>0, <1>2, <2>2 DEF NextItem, Planned, Request, Versions
  <2>4. r \in Request /\ r.at = x /\ r.plan[x] = v
    BY <1>0, <2>3 DEF Request, Versions
  <2>5. r.plan[r.at] # None
    BY <2>3, <2>4, KindsAreApart
  <2>6. author' = [author EXCEPT ![a] = r]
    BY <1>2 DEF NextItem
  <2> HIDE DEF r
  <2>7. Reads(a)
    BY <2>1, <2>4, <2>5, <2>6 DEF Reads
  <2> QED
    BY <2>7, ReadsAreWorld
<1> QED
  BY <1>1, <1>2

\* The writes that change one course or one module or section, and keep its row.
LEMMA PlainWritesAreWorld ==
  ASSUME HInv, NEW a \in Authors,
         \/ ItemsPublished(a) \/ PublishCourse(a) \/ Unpublish(a) \/ Archive(a) \/ Restore(a)
         \/ ArchiveCourse(a) \/ AbortRequest(a)
  PROVE  WorldStep
<1> USE DEF HInv
<1>0. author[a] \in Request
  BY DEF TypeOK
<1>1. \/ UNCHANGED <<course, content>>
      \/ UNCHANGED content /\ \E c, y : course' = [course EXCEPT ![c] = y]
                                      /\ (c \in Courses => y \in Course /\ y.row = course[c].row)
      \/ UNCHANGED course /\ \E x, y : content' = [content EXCEPT ![x] = y]
                                      /\ (x \in Contents => y \in Content /\ y.row = content[x].row)
  <2>1. CASE ItemsPublished(a) \/ AbortRequest(a)
    BY <2>1 DEF ItemsPublished, AbortRequest, authored
  <2>2. ASSUME NEW c, NEW y, course' = [course EXCEPT ![c] = y], UNCHANGED content,
               c \in Courses => y \in Course /\ y.row = course[c].row
        PROVE  <1>1
    BY <2>2
  <2>3. ASSUME NEW x, NEW y, content' = [content EXCEPT ![x] = y], UNCHANGED course,
               x \in Contents => y \in Content /\ y.row = content[x].row
        PROVE  <1>1
    BY <2>3
  <2> DEFINE x == author[a].on
  <2>4. x \in Courses => course[x] \in Course
    BY DEF TypeOK
  <2>5. x \in Contents => content[x] \in Content
    BY DEF TypeOK
  <2>6. CASE PublishCourse(a)
    <3> DEFINE y == [course[x] EXCEPT !.published = TRUE]
    <3>1. x \in Courses => y \in Course /\ y.row = course[x].row
      BY <2>4 DEF Course
    <3> QED
      BY <2>2, <2>6, <3>1 DEF PublishCourse
  <2>7. CASE ArchiveCourse(a)
    <3> DEFINE y == [course[x] EXCEPT !.archived = TRUE, !.published = FALSE]
    <3>1. x \in Courses => y \in Course /\ y.row = course[x].row
      BY <2>4 DEF Course
    <3> QED
      BY <2>2, <2>7, <3>1 DEF ArchiveCourse
  <2>10. CASE Unpublish(a)
    <3> DEFINE y == [content[x] EXCEPT !.active = 0]
    <3>1. x \in Contents => y \in Content /\ y.row = content[x].row
      BY <2>5 DEF Content, Versions
    <3> QED
      BY <2>3, <2>10, <3>1 DEF Unpublish
  <2>11. CASE Archive(a)
    <3> DEFINE y == [content[x] EXCEPT !.archived = TRUE, !.active = 0]
    <3>1. x \in Contents => y \in Content /\ y.row = content[x].row
      BY <2>5 DEF Content, Versions
    <3> QED
      BY <2>3, <2>11, <3>1 DEF Archive
  <2>12. CASE Restore(a)
    <3> DEFINE y == [content[x] EXCEPT !.archived = FALSE]
    <3>1. x \in Contents => y \in Content /\ y.row = content[x].row
      BY <2>5 DEF Content
    <3> QED
      BY <2>3, <2>12, <3>1 DEF Restore
  <2> QED
    BY <2>1, <2>6, <2>7, <2>10, <2>11, <2>12
<1>2. UNCHANGED <<attempt, reads, certificate, check>>
  BY DEF ItemsPublished, PublishCourse, Unpublish, Archive, Restore, ArchiveCourse, AbortRequest, earned
<1>3. author' \in [Authors -> Request] /\ PlanInv'
  <2>1. CASE Done(a)
    BY <2>1, EndsKeepPlans
  <2>2. CASE author' = [author EXCEPT ![a].op = "publish_course"]
    <3>1. [author[a] EXCEPT !.op = "publish_course"] \in Request
      BY <1>0 DEF Request, Ops
    <3>2. author' \in [Authors -> Request]
      BY <2>2, <3>1 DEF TypeOK
    <3>3. \A b \in Authors : author'[b] = author[b] \/ ~Publishes(author'[b])
      BY <1>0, <2>2 DEF TypeOK, Publishes, Request
    <3> QED
      BY <3>2, <3>3 DEF PlanInv
  <2> QED
    BY <2>1, <2>2 DEF ItemsPublished, PublishCourse, Unpublish, Archive, Restore, ArchiveCourse, AbortRequest
<1>4. /\ course' \in [Courses -> Course] /\ content' \in [Contents -> Content]
      /\ \A c \in Courses : course'[c].row = course[c].row
      /\ \A x \in Contents : content'[x].row = content[x].row
  <2>1. CASE UNCHANGED <<course, content>>
    BY <2>1 DEF TypeOK
  <2>2. CASE UNCHANGED content /\ \E c, y : course' = [course EXCEPT ![c] = y]
                                     /\ (c \in Courses => y \in Course /\ y.row = course[c].row)
    <3>1. PICK c, y : course' = [course EXCEPT ![c] = y] /\ (c \in Courses => y \in Course /\ y.row = course[c].row)
      BY <2>2
    <3> QED
      BY <2>2, <3>1 DEF TypeOK
  <2>3. CASE UNCHANGED course /\ \E x, y : content' = [content EXCEPT ![x] = y]
                                     /\ (x \in Contents => y \in Content /\ y.row = content[x].row)
    <3>1. PICK x, y : content' = [content EXCEPT ![x] = y] /\ (x \in Contents => y \in Content /\ y.row = content[x].row)
      BY <2>3
    <3> QED
      BY <2>3, <3>1 DEF TypeOK
  <2> QED
    BY <1>1, <2>1, <2>2, <2>3
<1>5. World
  BY <1>2, <1>4, RowsStay
<1>6. TypeOK'
  BY <1>2, <1>3, <1>4 DEF TypeOK
<1> QED
  BY <1>3, <1>5, <1>6 DEF WorldStep

\* The three steps of a rewrite; its commit tells the other rewrites what stands beside them.
LEMMA RewritesAreWorld ==
  ASSUME HInv, NEW a \in Authors, SetModules(a) \/ DeleteItems(a) \/ SetItems(a)
  PROVE  WorldStep
<1> USE DEF HInv
<1>0. \A b \in Authors : author[b] \in Request
  BY DEF TypeOK
<1>1. \A c \in Courses : course[c].items \subseteq Contents
  BY DEF TypeOK, Course
<1>2. ASSUME NEW r \in Request, r.op \in Ops, ~Publishes(r), author' = [author EXCEPT ![a] = r]
      PROVE  author' \in [Authors -> Request] /\ PlanInv'
  BY <1>2 DEF TypeOK, PlanInv
<1>3. CASE SetModules(a)
  <2> DEFINE p == Just(Planned(a) \cup (course[author[a].on].items \cap Sections))
             r == [author[a] EXCEPT !.op = "set_items", !.plan = p]
  <2>1. p \in [Contents -> Versions \cup {None}]
    BY DEF Just, Versions
  <2> HIDE DEF p
  <2>2. r \in Request /\ r.op = "set_items"
    BY <1>0, <2>1 DEF Request, Ops
  <2>3. author' = [author EXCEPT ![a] = r] /\ UNCHANGED <<authored, earned, check>>
    BY <1>3 DEF SetModules, p
  <2> HIDE DEF r
  <2>4. author' \in [Authors -> Request] /\ PlanInv'
    BY <1>2, <2>2, <2>3 DEF Publishes, Ops
  <2>5. World
    BY <2>3, RowsStay DEF authored, earned
  <2> QED
    BY <2>3, <2>4, <2>5 DEF WorldStep, TypeOK, authored, earned
<1>4. CASE DeleteItems(a)
  <2> DEFINE r == [author[a] EXCEPT !.op = "rewrite"]
  <2>1. r \in Request /\ r.op = "rewrite"
    BY <1>0 DEF Request, Ops
  <2>2. author' = [author EXCEPT ![a] = r] /\ UNCHANGED <<authored, earned, check>>
    BY <1>4 DEF DeleteItems
  <2> HIDE DEF r
  <2>3. author' \in [Authors -> Request] /\ PlanInv'
    BY <1>2, <2>1, <2>2 DEF Publishes, Ops
  <2>4. World
    BY <2>2, RowsStay DEF authored, earned
  <2> QED
    BY <2>2, <2>3, <2>4 DEF WorldStep, TypeOK, authored, earned
<1>5. CASE SetItems(a)
  <2> DEFINE c == author[a].on
             J(b) == [author[b] EXCEPT !.plan = Joined(author[b], author[a])]
  <2>1. /\ course' = [course EXCEPT ![c].items = Planned(a)]
        /\ UNCHANGED <<content, earned, check>>
        /\ author' = [b \in Authors |-> IF b = a THEN Idle
                        ELSE IF Doing(b, "rewrite") /\ author[b].on = c THEN J(b) ELSE author[b]]
    BY <1>5 DEF SetItems
  <2>2. Idle \in Request /\ ~Publishes(Idle)
    BY DEF Idle, Request, Ops, Nothing, Publishes
  <2>3. ASSUME NEW b \in Authors, Doing(b, "rewrite") PROVE J(b) \in Request /\ ~Publishes(J(b))
    <3>1. Joined(author[b], author[a]) \in [Contents -> Versions \cup {None}]
      BY DEF Joined, Versions
    <3> QED
      BY <1>0, <2>3, <3>1 DEF Request, Ops, Doing, Publishes
  <2> HIDE DEF J
  <2>4. author' \in [Authors -> Request]
    BY <1>0, <2>1, <2>2, <2>3
  <2>5. \A b \in Authors : author'[b] = author[b] \/ ~Publishes(author'[b])
    BY <2>1, <2>2, <2>3
  <2>6. PlanInv'
    BY <2>5 DEF PlanInv
  <2>7. course' \in [Courses -> Course] /\ \A d \in Courses : course'[d].row = course[d].row
    BY <2>1 DEF TypeOK, Course, Planned
  <2>8. World
    BY <2>1, <2>7, RowsStay DEF earned
  <2> QED
    BY <2>1, <2>4, <2>6, <2>7, <2>8 DEF WorldStep, TypeOK, earned
<1> QED
  BY <1>3, <1>4, <1>5

LEMMA HandInsAreWorld ==
  ASSUME HInv, NEW u \in Users, NEW x \in Modules, HandIn(u, x) \/ Pass(u, x) \/ Overturn(u, x)
  PROVE  WorldStep
<1> USE DEF HInv
<1>1. <<u, x>> \in Users \X Modules /\ attempt \in [Users \X Modules -> Attempts]
  BY DEF TypeOK
<1>2. \E s \in {"handed_in", "passed", "lapsed"} :
        /\ attempt' = [attempt EXCEPT ![<<u, x>>] = s]
        /\ attempt[<<u, x>>] \in {"passed", "lapsed"} => s \in {"passed", "lapsed"}
        /\ Here(x)
  <2>1. CASE HandIn(u, x)
    BY <2>1 DEF HandIn
  <2>2. CASE Pass(u, x)
    BY <2>2 DEF Pass, HistoryStands
  <2>3. CASE Overturn(u, x)
    BY <2>3 DEF Overturn, HistoryStands
  <2> QED
    BY <2>1, <2>2, <2>3
<1>3. UNCHANGED <<authored, reads, certificate, author, check>>
  BY DEF HandIn, Pass, Overturn
<1>4. TypeOK' /\ PlanInv'
  BY <1>1, <1>2, <1>3 DEF TypeOK, PlanInv, authored, Attempts
<1>5. \A v \in Users, y \in Modules : attempt'[<<v, y>>] # "none" => content'[y].row = "here"
  BY <1>1, <1>2, <1>3 DEF HistoryStands, Here, authored
<1>6. \A v \in Users, y \in Modules :
        attempt[<<v, y>>] \in {"passed", "lapsed"} => attempt'[<<v, y>>] \in {"passed", "lapsed"}
  BY <1>1, <1>2
<1>7. \A z \in certificate : course'[z.course].row = "here"
  BY <1>3 DEF HistoryStands, CourseHere, authored
<1> QED
  BY <1>3, <1>4, <1>5, <1>6, <1>7 DEF World, WorldStep, authored

----------------------------------------------------------------------------
(* The completion check *)

CheckStep(u, k) ==
  /\ check' = [check EXCEPT ![u] = k]
  /\ UNCHANGED <<course, content, attempt, author>>
  /\ reads \subseteq reads' /\ reads' \subseteq Users \X Courses \X Sections

LEMMA ChecksKeep ==
  ASSUME HInv, NEW u \in Users, NEW k \in Check, CheckStep(u, k), Established(u, k)
  PROVE  /\ CheckInv'
         /\ certificate' = certificate => HInv'
<1> USE DEF HInv
<1>1. UNCHANGED <<course, content, attempt, author>> /\ reads \subseteq reads'
  BY DEF CheckStep
<1>2. CheckInv'
  <2> SUFFICES ASSUME NEW v \in Users PROVE Established(v, check[v])'
    BY DEF CheckInv
  <2>1. Established(v, check'[v])
    BY DEF CheckStep, CheckInv, TypeOK
  <2> QED
    BY <1>1, <2>1 DEF Established, Here, CourseHere
<1>3. ASSUME certificate' = certificate PROVE HInv'
  <2>1. TypeOK'
    BY <1>1, <1>3 DEF CheckStep, TypeOK
  <2>2. PlanInv' /\ CoverInv' /\ HistoryStands' /\ EarnedInFull'
    BY <1>1, <1>3 DEF PlanInv, CoverInv, HistoryStands, EarnedInFull, Here, CourseHere
  <2> QED
    BY <1>2, <2>1, <2>2
<1> QED
  BY <1>2, <1>3

LEMMA EndsOfChecks ==
  ASSUME TypeOK, CheckInv, NEW u \in Users, check[u].step # "idle"
  PROVE  /\ NoCheck \in Check /\ Established(u, NoCheck)
         /\ EndCheck(u) => reads \subseteq reads' /\ reads' \subseteq Users \X Courses \X Sections
<1>1. NoCheck \in Check /\ Established(u, NoCheck)
  BY DEF NoCheck, Check, Steps, Established
<1>2. check[u].course \in Courses
  BY DEF CheckInv, Established
<1>3. check[u].reading \in Sections \cup {None}
  BY DEF TypeOK, Check
<1> QED
  BY <1>1, <1>2, <1>3 DEF EndCheck, TypeOK

LEMMA UnseenStaysUnseen ==
  ASSUME TypeOK, NewInv, Next
  PROVE  NewInv'
<1> SUFFICES ASSUME NEW y \in Contents, content'[y].row = "new" PROVE content'[y].active = 0
  BY DEF NewInv
<1>0. content[y].row = "new" => content[y].active = 0
  BY DEF NewInv
<1>1. ASSUME NEW x, NEW k, content' = [content EXCEPT ![x] = k], x = y => k.row # "new" \/ k.active = 0
      PROVE  content'[y].active = 0
  BY <1>0, <1>1 DEF TypeOK
<1>2. CASE content' = content
  BY <1>0, <1>2
<1>3. CASE Writes
  <2>1. ASSUME NEW x \in Modules, CreateModule(x) \/ SaveVersion(x) PROVE content'[y].active = 0
    BY <1>0, <2>1 DEF CreateModule, SaveVersion, Here, TypeOK, Content, Contents
  <2>2. ASSUME NEW x \in Sections, CreateSection(x) PROVE content'[y].active = 0
    BY <1>0, <2>2 DEF CreateSection, TypeOK, Content, Contents
  <2>3. ASSUME NEW x \in Sections, EditSection(x) PROVE content'[y].active = 0
    BY <1>0, <2>3 DEF EditSection, Here, TypeOK, Content, Contents
  <2> QED
    BY <1>2, <1>3, <2>1, <2>2, <2>3 DEF Writes, CreateCourse, UnpublishCourse, RestoreCourse
<1>4. ASSUME NEW a \in Authors, AuthorReads(a) PROVE content'[y].active = 0
  <2>1. Reads(a)
    BY <1>4, AuthorReadsRead
  <2> QED
    BY <1>2, <2>1 DEF Reads, authored
<1>5. ASSUME NEW a \in Authors, AuthorWrites(a) PROVE content'[y].active = 0
  <2>1. CASE PublishItem(a)
    BY <1>0, <2>1 DEF PublishItem, Here, TypeOK, Content
  <2>2. CASE Unpublish(a)
    BY <1>0, <2>2 DEF Unpublish, TypeOK, Content
  <2>3. CASE Archive(a)
    BY <1>0, <2>3 DEF Archive, TypeOK, Content
  <2>4. CASE Restore(a)
    BY <1>0, <2>4 DEF Restore, TypeOK, Content
  <2>5. CASE Delete(a)
    BY <1>0, <2>5 DEF Delete, TypeOK, Gone
  <2>6. ASSUME NEW x \in Contents, PurgeNext(a, x) PROVE content'[y].active = 0
    BY <1>0, <2>6 DEF PurgeNext, TypeOK, Gone
  <2>7. CASE CascadeDelete(a)
    BY <1>0, <2>7 DEF CascadeDelete, Gone
  <2>8. CASE \/ ItemsPublished(a) \/ PublishCourse(a) \/ SetModules(a) \/ DeleteItems(a) \/ SetItems(a)
             \/ ArchiveCourse(a) \/ DeleteCourse(a) \/ AbortRequest(a) \/ \E x \in Contents : NextItem(a, x)
    BY <1>2, <2>8 DEF ItemsPublished, PublishCourse, SetModules, DeleteItems, SetItems, ArchiveCourse,
       DeleteCourse, AbortRequest, NextItem, authored
  <2> QED
    BY <1>5, <2>1, <2>2, <2>3, <2>4, <2>5, <2>6, <2>7, <2>8 DEF AuthorWrites
<1>6. ASSUME NEW u \in Users, Participates(u) PROVE content'[y].active = 0
  BY <1>2, <1>6 DEF Participates, HandIn, Pass, Overturn, StartCheck, ReadDoor, MarkRead, CheckCourse, CheckSections,
     CheckPasses, CheckReads, Issue, AbortCheck, authored
<1> QED
  BY <1>3, <1>4, <1>5, <1>6 DEF Next

LEMMA CheckStepsKeep ==
  ASSUME HInv, NewInv, NEW u \in Users,
         \/ \E c \in Courses : StartCheck(u, c) \/ \E x \in Sections : ReadDoor(u, c, x)
         \/ MarkRead(u) \/ CheckCourse(u) \/ CheckSections(u) \/ CheckPasses(u) \/ CheckReads(u)
         \/ AbortCheck(u)
  PROVE  HInv'
<1> USE DEF HInv
<1>0. check[u] \in Check /\ Established(u, check[u])
  BY DEF TypeOK, CheckInv
<1>1. \A c \in Courses : /\ ModulesOf(c) \subseteq Modules
                         /\ SectionsOf(c) \subseteq Sections
                         /\ \A x \in SectionsOf(c) : content[x].row # "new"
  BY DEF ModulesOf, SectionsOf, Available, NewInv, Contents
<1>2. UNCHANGED <<course, content, attempt, author, certificate>> \/ \E c \in Courses : StartCheck(u, c)
  BY DEF ReadDoor, MarkRead, CheckCourse, CheckSections, CheckPasses, CheckReads, AbortCheck, authored, earned
<1>3. ASSUME NEW k \in Check, GoOn(u, k), reads' = reads, Established(u, k),
             UNCHANGED <<course, content, attempt, author, certificate>>
      PROVE  HInv'
  <2>1. CheckStep(u, k)
    BY <1>3 DEF CheckStep, GoOn, TypeOK
  <2> QED
    BY <1>3, <2>1, ChecksKeep
<1>4. ASSUME EndCheck(u), check[u].step # "idle", UNCHANGED <<course, content, attempt, author, certificate>>
      PROVE  HInv'
  <2>1. CheckStep(u, NoCheck) /\ NoCheck \in Check /\ Established(u, NoCheck)
    BY <1>4, EndsOfChecks DEF CheckStep, EndCheck, GoOn
  <2> QED
    BY <1>4, <2>1, ChecksKeep
<1>5. ASSUME NEW c \in Courses, StartCheck(u, c) PROVE HInv'
  <2> DEFINE k == [NoCheck EXCEPT !.step = "sections", !.course = c, !.modules = ModulesOf(c)]
  <2>1. k \in Check /\ Established(u, k)
    BY <1>1, <1>5 DEF NoCheck, Check, Steps, Established, StartCheck, Live, CourseHere
  <2>2. GoOn(u, k) /\ UNCHANGED <<course, content, attempt, author, certificate, reads>>
    BY <1>5 DEF StartCheck, authored, earned
  <2> QED
    BY <1>3, <2>1, <2>2
<1>6. ASSUME NEW c \in Courses, NEW x \in Sections, ReadDoor(u, c, x) PROVE HInv'
  <2> DEFINE k == [NoCheck EXCEPT !.step = "door", !.course = c, !.reading = x]
  <2>1. k \in Check /\ Established(u, k)
    BY <1>6 DEF NoCheck, Check, Steps, Established, ReadDoor, Live, CourseHere
  <2>2. GoOn(u, k) /\ UNCHANGED <<course, content, attempt, author, certificate, reads>>
    BY <1>6 DEF ReadDoor, authored, earned
  <2> QED
    BY <1>3, <2>1, <2>2
<1>7. CASE MarkRead(u)
  <2> DEFINE k == [check[u] EXCEPT !.step = "course"]
  <2>1. k \in Check /\ Established(u, k)
    BY <1>0, <1>7 DEF Check, Steps, Established, MarkRead, At
  <2>2. GoOn(u, k) /\ UNCHANGED <<course, content, attempt, author, certificate, reads>>
    BY <1>7 DEF MarkRead, authored, earned
  <2> QED
    BY <1>3, <2>1, <2>2
<1>8. CASE CheckCourse(u)
  <2> DEFINE c == check[u].course  k == [check[u] EXCEPT !.step = "sections", !.modules = ModulesOf(c)]
  <2>0. c \in Courses
    BY <1>0, <1>8 DEF CheckCourse, At, Established
  <2>1. k \in Check /\ Established(u, k)
    BY <1>0, <1>1, <1>8, <2>0 DEF Check, Steps, Established, CheckCourse, At
  <2>2. (GoOn(u, k) /\ reads' = reads) \/ EndCheck(u)
    BY <1>8 DEF CheckCourse
  <2>3. UNCHANGED <<course, content, attempt, author, certificate>> /\ check[u].step # "idle"
    BY <1>8 DEF CheckCourse, authored, At
  <2> QED
    BY <1>3, <1>4, <2>1, <2>2, <2>3
<1>9. CASE CheckSections(u)
  <2> DEFINE S == SectionsOf(check[u].course)  k == [check[u] EXCEPT !.step = "passes", !.sections = S]
  <2>0. S \subseteq Sections /\ \A x \in S : content[x].row # "new"
    BY <1>0, <1>1, <1>9 DEF CheckSections, At, Established
  <2>1. check[u].modules \cup S # {} => k \in Check /\ Established(u, k)
    <3> HIDE DEF S
    <3> QED
      BY <1>0, <1>9, <2>0 DEF Check, Steps, Established, CheckSections, At
  <2>2. (GoOn(u, k) /\ reads' = reads /\ check[u].modules \cup S # {}) \/ EndCheck(u)
    BY <1>9 DEF CheckSections
  <2>3. UNCHANGED <<course, content, attempt, author, certificate>> /\ check[u].step # "idle"
    BY <1>9 DEF CheckSections, authored, At
  <2> QED
    BY <1>3, <1>4, <2>1, <2>2, <2>3
<1>10. CASE CheckPasses(u)
  <2> DEFINE k == [check[u] EXCEPT !.step = "reads"]
  <2>1. AllPassed(u, check[u].modules) => k \in Check /\ Established(u, k)
    BY <1>0, <1>10 DEF Check, Steps, Established, CheckPasses, At, AllPassed
  <2>2. (GoOn(u, k) /\ reads' = reads /\ AllPassed(u, check[u].modules)) \/ EndCheck(u)
    BY <1>10 DEF CheckPasses
  <2>3. UNCHANGED <<course, content, attempt, author, certificate>> /\ check[u].step # "idle"
    BY <1>10 DEF CheckPasses, authored, At
  <2> QED
    BY <1>3, <1>4, <2>1, <2>2, <2>3
<1>11. CASE CheckReads(u)
  <2> DEFINE c == check[u].course  k == [check[u] EXCEPT !.step = "create"]
  <2>1. AllRead(u, c, check[u].sections) => k \in Check /\ Established(u, k)
    BY <1>0, <1>11 DEF Check, Steps, Established, CheckReads, At, AllRead
  <2>2. (GoOn(u, k) /\ reads' = reads /\ AllRead(u, c, check[u].sections)) \/ EndCheck(u)
    BY <1>11 DEF CheckReads
  <2>3. UNCHANGED <<course, content, attempt, author, certificate>> /\ check[u].step # "idle"
    BY <1>11 DEF CheckReads, authored, At
  <2> QED
    BY <1>3, <1>4, <2>1, <2>2, <2>3
<1>12. CASE AbortCheck(u)
  <2>1. NoCheck \in Check /\ Established(u, NoCheck)
    BY DEF NoCheck, Check, Steps, Established
  <2>2. GoOn(u, NoCheck) /\ UNCHANGED <<course, content, attempt, author, certificate, reads>>
    BY <1>12 DEF AbortCheck, authored, earned
  <2> QED
    BY <1>3, <2>1, <2>2
<1> QED
  BY <1>5, <1>6, <1>7, <1>8, <1>9, <1>10, <1>11, <1>12

\* What a certificate says is what the check established; the mark made along with it is committed with it.
LEMMA IssueKeeps ==
  ASSUME HInv, NEW u \in Users, Issue(u)
  PROVE  HInv'
<1> USE DEF HInv
<1> DEFINE k == check[u]  z == [user |-> u, course |-> k.course, covers |-> k.modules \cup k.sections]
<1>0. k \in Check /\ Established(u, k) /\ k.step = "create"
  BY DEF TypeOK, CheckInv, Issue, At
<1>1. /\ k.course \in Courses /\ CourseHere(k.course)
      /\ k.modules \subseteq Modules /\ k.sections \subseteq Sections
  BY <1>0 DEF Issue, Established, Check
<1>2. UNCHANGED <<course, content, attempt, author>> /\ EndCheck(u) /\ certificate' = certificate \cup {z}
  BY DEF Issue, authored
<1>3. CheckStep(u, NoCheck) /\ NoCheck \in Check /\ Established(u, NoCheck)
  BY <1>0, <1>2, EndsOfChecks DEF CheckStep, EndCheck, GoOn
<1>4. CheckInv' /\ reads \subseteq reads'
  BY <1>3, ChecksKeep DEF CheckStep
<1>5. z \in [user : Users, course : Courses, covers : SUBSET Contents] /\ z.covers # {}
  BY <1>0, <1>1 DEF Established, Contents
<1>6. \A x \in z.covers \cap Modules : attempt[<<u, x>>] \in {"passed", "lapsed"} /\ Here(x)
  <2>1. \A x \in z.covers \cap Modules : attempt[<<u, x>>] \in {"passed", "lapsed"}
    BY <1>0, <1>1, KindsAreApart DEF Established
  <2> QED
    BY <2>1 DEF HistoryStands
<1>7. \A x \in z.covers \cap Sections : Here(x) => <<u, k.course, x>> \in reads'
  <2> SUFFICES ASSUME NEW x \in k.sections, Here(x) PROVE <<u, k.course, x>> \in reads'
    BY <1>1, KindsAreApart
  <2>1. x = k.reading \/ <<u, k.course, x>> \in reads
    BY <1>0, <1>1 DEF Established
  <2>2. x # None
    BY <1>1, KindsAreApart
  <2> QED
    BY <1>2, <2>1, <2>2 DEF EndCheck
<1>8. \A x \in z.covers : content[x].row # "new"
  BY <1>0, <1>1, <1>6, KindsAreApart DEF Established, Here
<1>9. z.user = u /\ z.course = k.course
  OBVIOUS
<1> HIDE DEF z, k
<1>10. TypeOK'
  BY <1>2, <1>3, <1>5 DEF TypeOK, CheckStep
<1>11. PlanInv' /\ CoverInv'
  BY <1>2, <1>8 DEF PlanInv, CoverInv
<1>12. HistoryStands'
  BY <1>1, <1>2, <1>6, <1>9 DEF HistoryStands, Here, CourseHere
<1>13. EarnedInFull'
  BY <1>2, <1>4, <1>5, <1>6, <1>7, <1>9 DEF EarnedInFull, Here
<1> QED
  BY <1>4, <1>10, <1>11, <1>12, <1>13

----------------------------------------------------------------------------
(* The theorems *)

IInv == HInv /\ NewInv

LEMMA StepKeeps ==
  ASSUME IInv, [Next]_vars
  PROVE  IInv'
<1> USE DEF IInv
<1>1. CASE UNCHANGED vars
  BY <1>1 DEF vars, HInv, NewInv, TypeOK, PlanInv, CheckInv, Established, CoverInv, HistoryStands, EarnedInFull,
     Here, CourseHere
<1>2. CASE Next
  <2>1. NewInv'
    BY <1>2, UnseenStaysUnseen DEF HInv
  <2>2. CASE Writes
    BY <2>1, <2>2, WritesAreWorld, WorldKeeps DEF WorldStep
  <2>3. ASSUME NEW a \in Authors, AuthorReads(a) PROVE HInv'
    BY <2>3, AuthorReadsRead, ReadsAreWorld, WorldKeeps DEF WorldStep, HInv
  <2>4. ASSUME NEW a \in Authors, AuthorWrites(a) PROVE HInv'
    <3>1. CASE PublishItem(a) \/ \E x \in Contents : NextItem(a, x)
      BY <3>1, PublishesAreWorld, WorldKeeps DEF WorldStep
    <3>2. CASE Delete(a) \/ DeleteCourse(a) \/ CascadeDelete(a) \/ \E x \in Contents : PurgeNext(a, x)
      BY <3>2, DeletingWritesAreWorld, WorldKeeps DEF WorldStep
    <3>3. CASE \/ ItemsPublished(a) \/ PublishCourse(a) \/ Unpublish(a) \/ Archive(a) \/ Restore(a)
               \/ ArchiveCourse(a) \/ AbortRequest(a)
      BY <3>3, PlainWritesAreWorld, WorldKeeps DEF WorldStep
    <3>4. CASE SetModules(a) \/ DeleteItems(a) \/ SetItems(a)
      BY <3>4, RewritesAreWorld, WorldKeeps DEF WorldStep
    <3> QED
      BY <2>4, <3>1, <3>2, <3>3, <3>4 DEF AuthorWrites
  <2>5. ASSUME NEW u \in Users, Participates(u) PROVE HInv'
    <3>1. ASSUME NEW x \in Modules, HandIn(u, x) \/ Pass(u, x) \/ Overturn(u, x) PROVE HInv'
      BY <3>1, HandInsAreWorld, WorldKeeps DEF WorldStep
    <3>2. CASE Issue(u)
      BY <3>2, IssueKeeps
    <3> QED
      BY <2>5, <3>1, <3>2, CheckStepsKeep DEF Participates
  <2> QED
    BY <1>2, <2>1, <2>2, <2>3, <2>4, <2>5 DEF Next
<1> QED
  BY <1>1, <1>2

\* The inductive invariant holds in every state, for every number of courses, contents, users and requests.
THEOREM Invariant == Spec => []IInv
<1>1. Init => IInv
  BY InitHistory DEF IInv, NewInv, Init
<1>2. IInv /\ [Next]_vars => IInv'
  BY StepKeeps
<1> QED
  BY <1>1, <1>2, PTL DEF Spec

\* Every variable keeps to its type.
THEOREM TypeCorrect == Spec => []TypeOK
<1>1. IInv => TypeOK
  BY DEF IInv, HInv
<1> QED
  BY <1>1, Invariant, PTL

\* What somebody's history rests on is never deleted, however deletions, purges, cascades and participants
\* run into each other.
THEOREM HistoryKept == Spec => []HistoryStands
<1>1. IInv => HistoryStands
  BY DEF IInv, HInv
<1> QED
  BY <1>1, Invariant, PTL

\* Every certificate is earned in full, whatever authors do to the course while a check runs.
THEOREM CertificatesEarned == Spec => []EarnedInFull
<1>1. IInv => EarnedInFull
  BY DEF IInv, HInv
<1> QED
  BY <1>1, Invariant, PTL

----------------------------------------------------------------------------
(* What is in circulation.  A request acts on what it has read, and others   *)
(* may have changed that since; but what they change it by is a request of   *)
(* their own, and the two have met.                                          *)

\* What a request has read still holds, but for the items it met another about.
Ready(r) ==
  /\ r.op \in {"set_items", "set_modules", "rewrite"} =>
       /\ r.on \in Courses
       /\ \A x \in Contents : r.plan[x] # None /\ content[x].archived => <<r.on, x>> \in crossed
  /\ r.op \in {"archive", "unpublish"} =>
       \A c \in Courses : r.on \in course[c].items => <<c, r.on>> \in crossed
  /\ Publishes(r) => \A x \in Contents : r.plan[x] # 0
  /\ r.op \in {"publish_items", "publish_course"} => r.on \in Courses
  /\ r.op = "publish_items" =>
       \A x \in course[r.on].items : content[x].active # 0 \/ r.plan[x] # None \/ <<r.on, x>> \in crossed \cup recast
  /\ r.op = "publish_course" =>
       \A x \in course[r.on].items : content[x].active # 0 \/ <<r.on, x>> \in crossed \cup recast

Remembered == Crossings \subseteq crossed /\ Recasts \subseteq recast
AuthorInv == \A a \in Authors : Ready(author[a])
CInv == IInv /\ ItemsInCirculation /\ AuthorInv /\ Remembered

\* Ready in the next state, of a record of this one.
ReadyNext(r) ==
  /\ r.op \in {"set_items", "set_modules", "rewrite"} =>
       /\ r.on \in Courses
       /\ \A x \in Contents : r.plan[x] # None /\ content'[x].archived => <<r.on, x>> \in crossed'
  /\ r.op \in {"archive", "unpublish"} =>
       \A c \in Courses : r.on \in course'[c].items => <<c, r.on>> \in crossed'
  /\ Publishes(r) => \A x \in Contents : r.plan[x] # 0
  /\ r.op \in {"publish_items", "publish_course"} => r.on \in Courses
  /\ r.op = "publish_items" =>
       \A x \in course'[r.on].items : content'[x].active # 0 \/ r.plan[x] # None \/ <<r.on, x>> \in crossed' \cup recast'
  /\ r.op = "publish_course" =>
       \A x \in course'[r.on].items : content'[x].active # 0 \/ <<r.on, x>> \in crossed' \cup recast'
AllReadyNext == \A a \in Authors : ReadyNext(author'[a])

LEMMA ItemsTyped ==
  ASSUME TypeOK
  PROVE  /\ \A c \in Courses : course[c].items \subseteq Contents
         /\ \A x \in Contents : content[x].latest \in Nat /\ content[x].active \in Nat
         /\ \A a \in Authors : author[a] \in Request
BY DEF TypeOK, Course, Content, Versions

\* Nothing is forgotten, and the next state's meetings are remembered.
LEMMA MemoryGrows ==
  ASSUME Remember
  PROVE  crossed \subseteq crossed' /\ recast \subseteq recast' /\ Remembered'
BY DEF Remember, Remembered

\* Two requests in flight have met.
LEMMA MetIsRemembered ==
  ASSUME Remembered, NEW a \in Authors, NEW b \in Authors, NEW c \in Courses, NEW x \in Contents,
         Entering(author[b], c, x)
  PROVE  /\ Withdrawing(author[a], x) => <<c, x>> \in crossed
         /\ Publishing(author[a], c) => <<c, x>> \in recast
<1> DEFINE p == <<c, x>>
<1>1. p \in Courses \X Contents /\ p[1] = c /\ p[2] = x
  OBVIOUS
<1> HIDE DEF p
<1>2. Withdrawing(author[a], x) => p \in Crossings
  BY <1>1 DEF Crossings
<1>3. Publishing(author[a], c) => p \in Recasts
  BY <1>1 DEF Recasts
<1> QED
  BY <1>2, <1>3 DEF Remembered, p

\* What a step leaves of what r has read: it archives no item r puts in, puts in none r withdraws or publishes
\* without, and closes none that is in a course, unless that is remembered.
Leaves(r) ==
  /\ crossed \subseteq crossed' /\ recast \subseteq recast'
  /\ \A x \in Contents : content'[x].archived =>
       content[x].archived \/ \A c \in Courses : Entering(r, c, x) => <<c, x>> \in crossed'
  /\ \A c \in Courses : \A x \in course'[c].items :
       \/ x \in course[c].items
       \/ /\ Withdrawing(r, x) => <<c, x>> \in crossed'
          /\ Publishing(r, c) => <<c, x>> \in recast'
  /\ \A c \in Courses : \A x \in course'[c].items :
       x \in Contents /\ (content[x].active # 0 => content'[x].active # 0 \/ <<c, x>> \in crossed')

LEMMA ReadyStays ==
  ASSUME NEW r \in Request, Ready(r), Leaves(r)
  PROVE  ReadyNext(r)
<1>1. ASSUME r.op \in {"set_items", "set_modules", "rewrite"}
      PROVE  /\ r.on \in Courses
             /\ \A x \in Contents : r.plan[x] # None /\ content'[x].archived => <<r.on, x>> \in crossed'
  BY <1>1 DEF Ready, Leaves, Entering
<1>2. ASSUME r.op \in {"archive", "unpublish"}, NEW c \in Courses, r.on \in course'[c].items
      PROVE  <<c, r.on>> \in crossed'
  BY <1>2 DEF Ready, Leaves, Withdrawing
<1>3. ASSUME r.op \in {"publish_items", "publish_course"}
      PROVE  r.on \in Courses /\ \A x \in course'[r.on].items :
               \/ content'[x].active # 0 \/ <<r.on, x>> \in crossed' \cup recast'
               \/ r.op = "publish_items" /\ r.plan[x] # None
  <2>1. r.on \in Courses
    BY <1>3 DEF Ready
  <2>2. ASSUME NEW x \in course'[r.on].items
        PROVE  \/ content'[x].active # 0 \/ <<r.on, x>> \in crossed' \cup recast'
               \/ r.op = "publish_items" /\ r.plan[x] # None
    <3>1. CASE x \in course[r.on].items
      BY <1>3, <2>1, <2>2, <3>1 DEF Ready, Leaves
    <3>2. CASE x \notin course[r.on].items
      BY <1>3, <2>1, <2>2, <3>2 DEF Leaves, Publishing
    <3> QED
      BY <3>1, <3>2
  <2> QED
    BY <2>1, <2>2
<1>4. Publishes(r) => \A x \in Contents : r.plan[x] # 0
  BY DEF Ready
<1> QED
  BY <1>1, <1>2, <1>3, <1>4 DEF ReadyNext

\* A step that archives nothing, puts nothing into a course, and deletes and closes nothing that is in one.
Gentle ==
  /\ \A x \in Contents : content'[x].archived => content[x].archived
  /\ \A c \in Courses : course'[c].items \subseteq course[c].items
  /\ \A c \in Courses : \A x \in course'[c].items :
       content'[x].row = content[x].row /\ (content[x].active # 0 => content'[x].active # 0)

LEMMA GentleKeeps ==
  ASSUME CInv, Remember, Gentle
  PROVE  /\ ItemsInCirculation'
         /\ \A r \in Request : Ready(r) => ReadyNext(r)
         /\ \A a \in Authors : ReadyNext(author[a])
<1> USE ItemsTyped, MemoryGrows DEF CInv, IInv, HInv
<1>1. ItemsInCirculation'
  BY DEF ItemsInCirculation, Gentle, Here
<1>2. ASSUME NEW r \in Request, Ready(r) PROVE ReadyNext(r)
  <2>1. Leaves(r)
    BY DEF Leaves, Gentle
  <2> QED
    BY <1>2, <2>1, ReadyStays
<1> QED
  BY <1>1, <1>2 DEF AuthorInv

\* One request moves, the others' records stay.
LEMMA OneMoves ==
  ASSUME TypeOK, NEW a \in Authors, NEW s, author' = [author EXCEPT ![a] = s], ReadyNext(s),
         \A b \in Authors : b # a => ReadyNext(author[b])
  PROVE  AllReadyNext
<1>1. author'[a] = s /\ \A b \in Authors : b # a => author'[b] = author[b]
  BY DEF TypeOK
<1>2. ASSUME NEW b \in Authors PROVE ReadyNext(author'[b])
  BY <1>1
<1> QED
  BY <1>2 DEF AllReadyNext

LEMMA IdleIsReady == Ready(Idle) /\ ReadyNext(Idle) /\ Idle \in Request
BY DEF Ready, ReadyNext, Idle, Publishes, Request, Ops, Nothing

LEMMA WritesKeepCirculation ==
  ASSUME CInv, Remember, Writes
  PROVE  ItemsInCirculation' /\ AllReadyNext
<1> USE ItemsTyped DEF CInv, IInv, HInv
<1>1. author' = author
  BY DEF Writes, CreateCourse, UnpublishCourse, RestoreCourse, CreateModule, SaveVersion, CreateSection, EditSection
<1>2. \A c \in Courses : course'[c].items = course[c].items
  <2>1. ASSUME NEW d \in Courses, CreateCourse(d) \/ UnpublishCourse(d) \/ RestoreCourse(d)
        PROVE  \A c \in Courses : course'[c].items = course[c].items
    BY <2>1 DEF CreateCourse, UnpublishCourse, RestoreCourse, TypeOK, Course
  <2> QED
    BY <2>1 DEF Writes, CreateModule, SaveVersion, CreateSection, EditSection
<1>3. ASSUME NEW y \in Contents
      PROVE  /\ content'[y].archived => content[y].archived
             /\ Here(y) => content'[y].row = "here" /\ (content[y].active # 0 => content'[y].active # 0)
  <2>0. content[y] \in Content
    BY DEF TypeOK
  <2>1. ASSUME NEW x \in Modules, CreateModule(x) \/ SaveVersion(x) PROVE <1>3!2
    <3>1. CASE y # x
      <4>1. content'[y] = content[y]
        BY <2>1, <3>1 DEF CreateModule, SaveVersion, TypeOK
      <4> QED
        BY <4>1 DEF Here
    <3>2. CASE y = x /\ CreateModule(x)
      BY <2>0, <3>2 DEF CreateModule, Here, TypeOK, Content
    <3>3. CASE y = x /\ SaveVersion(x)
      BY <2>0, <3>3 DEF SaveVersion, Here, TypeOK, Content
    <3> QED
      BY <2>1, <3>1, <3>2, <3>3
  <2>2. ASSUME NEW x \in Sections, CreateSection(x) PROVE <1>3!2
    BY <2>0, <2>2 DEF CreateSection, Here, TypeOK, Content, Contents
  <2>3. ASSUME NEW x \in Sections, EditSection(x) PROVE <1>3!2
    BY <2>0, <2>3 DEF EditSection, Here, TypeOK, Content, Contents, Versions
  <2>4. CASE content' = content
    BY <2>4 DEF Here
  <2> QED
    BY <2>1, <2>2, <2>3, <2>4 DEF Writes, CreateCourse, UnpublishCourse, RestoreCourse
<1>4. Gentle
  BY <1>2, <1>3 DEF Gentle, ItemsInCirculation, Here
<1> QED
  BY <1>1, <1>4, GentleKeeps DEF AllReadyNext

LEMMA ReadsKeepCirculation ==
  ASSUME CInv, Remember, NEW a \in Authors, AuthorReads(a)
  PROVE  ItemsInCirculation' /\ AllReadyNext
<1> USE DEF CInv, IInv, HInv
<1>1. Reads(a)
  BY AuthorReadsRead
<1>2. Gentle
  BY <1>1 DEF Reads, authored, Gentle
<1>3. ItemsInCirculation' /\ \A b \in Authors : ReadyNext(author[b])
  BY <1>2, GentleKeeps
<1>4. author' \in [Authors -> Request]
  BY <1>1, ReadsKeepTypes DEF TypeOK
<1>5. ASSUME NEW op, NEW on, NEW at, NEW plan, NEW revised, Begin(a, op, on, at, plan, revised),
             Ready([op |-> op, on |-> on, at |-> at, plan |-> plan, revised |-> revised])
      PROVE  AllReadyNext
  <2> DEFINE r == [op |-> op, on |-> on, at |-> at, plan |-> plan, revised |-> revised]
  <2>1. author' = [author EXCEPT ![a] = r] /\ author'[a] = r
    BY <1>5 DEF Begin, TypeOK
  <2> HIDE DEF r
  <2>2. r \in Request
    BY <1>4, <2>1
  <2>3. ReadyNext(r)
    BY <1>2, <1>5, <2>2, GentleKeeps DEF r
  <2> QED
    BY <1>3, <2>1, <2>3, OneMoves
<1>6. \A op, on, at, plan, revised :
        op \notin {"set_items", "set_modules", "rewrite", "archive", "unpublish", "publish", "publish_pending",
                   "publish_items", "publish_course"} =>
          Ready([op |-> op, on |-> on, at |-> at, plan |-> plan, revised |-> revised])
  BY DEF Ready, Publishes
<1>7. ASSUME ReadToPurge(a) PROVE AllReadyNext
  <2>1. Begin(a, "purge", None, None, Just(PurgeCandidates), {})
    BY <1>7 DEF ReadToPurge
  <2>2. Ready([op |-> "purge", on |-> None, at |-> None, plan |-> Just(PurgeCandidates), revised |-> {}])
    BY <1>6
  <2> QED
    BY <1>5, <2>1, <2>2
<1>8. ASSUME NEW x \in Modules, ReadModuleToPublish(a, x) PROVE AllReadyNext
  <2>1. PICK v \in 1 .. content[x].latest, R \in SUBSET {x} :
               Begin(a, "publish", x, x, [Nothing EXCEPT ![x] = v], R)
    BY <1>8 DEF ReadModuleToPublish
  <2>2. x \in Contents /\ v # 0
    BY ItemsTyped DEF Contents
  <2> DEFINE plan == [Nothing EXCEPT ![x] = v]
  <2>3. \A y \in Contents : plan[y] # 0
    BY <2>2, KindsAreApart DEF Nothing
  <2>4. Begin(a, "publish", x, x, plan, R)
    BY <2>1
  <2> HIDE DEF plan
  <2>5. Ready([op |-> "publish", on |-> x, at |-> x, plan |-> plan, revised |-> R])
    BY <2>3 DEF Ready
  <2> QED
    BY <1>5, <2>4, <2>5
<1>9. ASSUME NEW x \in Modules, ReadModuleToDelete(a, x) PROVE AllReadyNext
  BY <1>5, <1>6, <1>9 DEF ReadModuleToDelete
<1>10. ASSUME NEW x \in Sections, ReadSectionToPublish(a, x) PROVE AllReadyNext
  <2> DEFINE plan == Latest({x})
  <2>1. Begin(a, "publish", x, x, plan, {}) /\ \A y \in Contents : plan[y] # 0
    BY <1>10, KindsAreApart DEF ReadSectionToPublish, Latest, Publishable
  <2> HIDE DEF plan
  <2>2. Ready([op |-> "publish", on |-> x, at |-> x, plan |-> plan, revised |-> {}])
    BY <2>1 DEF Ready
  <2> QED
    BY <1>5, <2>1, <2>2
<1>11. ASSUME NEW x \in Sections, ReadSectionToDelete(a, x) PROVE AllReadyNext
  BY <1>5, <1>6, <1>11 DEF ReadSectionToDelete
<1>12. ASSUME NEW x \in Contents, ReadToRestore(a, x) PROVE AllReadyNext
  BY <1>5, <1>6, <1>12 DEF ReadToRestore
<1>13. ASSUME NEW x \in Contents, ReadToUnpublish(a, x) \/ ReadToArchive(a, x) PROVE AllReadyNext
  <2>1. PICK op \in {"unpublish", "archive"} : Begin(a, op, x, None, Nothing, {}) /\ ~InCourse(x)
    BY <1>13 DEF ReadToUnpublish, ReadToArchive
  <2>2. Ready([op |-> op, on |-> x, at |-> None, plan |-> Nothing, revised |-> {}])
    BY <2>1 DEF Ready, InCourse, Publishes
  <2> QED
    BY <1>5, <2>1, <2>2
<1>14. ASSUME NEW c \in Courses, ReadToArchiveCourse(a, c) \/ ReadToDeleteCourse(a, c) \/ ReadToCascadeDelete(a, c)
       PROVE  AllReadyNext
  BY <1>5, <1>6, <1>14 DEF ReadToArchiveCourse, ReadToDeleteCourse, ReadToCascadeDelete
<1>15. ASSUME NEW c \in Courses, NEW S, ReadPending(a, c, S) PROVE AllReadyNext
  <2> DEFINE plan == Latest(S)
  <2>1. PICK R : Begin(a, "publish_pending", c, None, plan, R)
    BY <1>15 DEF ReadPending
  <2>2. \A y \in Contents : plan[y] # 0
    BY <1>15, KindsAreApart DEF ReadPending, Latest, Publishable
  <2> HIDE DEF plan
  <2>3. Ready([op |-> "publish_pending", on |-> c, at |-> None, plan |-> plan, revised |-> R])
    BY <2>2 DEF Ready
  <2> QED
    BY <1>5, <2>1, <2>3
<1>16. ASSUME NEW c \in Courses, NEW S, ReadToSetItems(a, c, S) \/ ReadToSetModules(a, c, S) PROVE AllReadyNext
  <2> DEFINE plan == Just(S)
  <2>1. PICK op \in {"set_items", "set_modules"} : Begin(a, op, c, None, plan, {}) /\ Usable(S)
    BY <1>16 DEF ReadToSetItems, ReadToSetModules
  <2>2. \A x \in Contents : plan[x] # None => ~content[x].archived
    BY <2>1 DEF Just, Usable
  <2> HIDE DEF plan
  <2>3. Ready([op |-> op, on |-> c, at |-> None, plan |-> plan, revised |-> {}])
    BY <2>1, <2>2 DEF Ready, Publishes
  <2> QED
    BY <1>5, <2>1, <2>3
<1>17. ASSUME NEW c \in Courses, ReadToPublishCourse(a, c) PROVE AllReadyNext
  <2> DEFINE plan == Latest(ToPublish(c))
  <2>1. Begin(a, "publish_items", c, None, plan, {}) /\ \A x \in ToPublish(c) : Publishable(x)
    BY <1>17 DEF ReadToPublishCourse
  <2>2. ASSUME NEW x \in course[c].items PROVE content[x].active # 0 \/ plan[x] # None
    <3>1. CASE content[x].active # 0
      BY <3>1
    <3>2. CASE content[x].active = 0
      <4>1. x \in Contents /\ content[x].latest \in Nat
        BY ItemsTyped
      <4>2. x \in ToPublish(c)
        BY <3>2 DEF ToPublish, Unpublished
      <4> QED
        BY <4>1, <4>2, KindsAreApart DEF Latest
    <3> QED
      BY <3>1, <3>2
  <2>3. \A x \in Contents : plan[x] # 0
    BY <2>1, KindsAreApart DEF Latest, Publishable
  <2> HIDE DEF plan
  <2>4. Ready([op |-> "publish_items", on |-> c, at |-> None, plan |-> plan, revised |-> {}])
    BY <2>2, <2>3 DEF Ready
  <2> QED
    BY <1>5, <2>1, <2>4
<1> QED
  BY <1>3, <1>7, <1>8, <1>9, <1>10, <1>11, <1>12, <1>13, <1>14, <1>15, <1>16, <1>17 DEF AuthorReads

\* A request that neither withdraws nor rewrites takes a gentle step; what is left to show is its own record.
LEMMA GentleRequest ==
  ASSUME CInv, Remember, Gentle, NEW a \in Authors, NEW s, author' = [author EXCEPT ![a] = s], ReadyNext(s)
  PROVE  ItemsInCirculation' /\ AllReadyNext
BY GentleKeeps, OneMoves DEF CInv, IInv, HInv

LEMMA PublicationsKeepCirculation ==
  ASSUME CInv, Remember, NEW a \in Authors,
         PublishItem(a) \/ ItemsPublished(a) \/ \E x \in Contents : NextItem(a, x)
  PROVE  ItemsInCirculation' /\ AllReadyNext
<1> USE ItemsTyped DEF CInv, IInv, HInv
<1> DEFINE r == author[a]
<1>0. r \in Request /\ Ready(r)
  BY DEF AuthorInv
<1>1. CASE PublishItem(a)
  <2> DEFINE x == r.at  s == [r EXCEPT !.at = None, !.plan[x] = None]
  <2>1. x \in Contents /\ r.plan[x] # 0 /\ course' = course /\ content' = [content EXCEPT ![x].active = r.plan[x]]
    BY <1>0, <1>1 DEF PublishItem, Request, Publishes, Ready
  <2>2. \A y \in Contents : /\ content'[y].row = content[y].row /\ content'[y].archived = content[y].archived
                            /\ content'[y].active = IF y = x THEN r.plan[x] ELSE content[y].active
    BY <2>1 DEF TypeOK, Content
  <2>3. Gentle
    BY <2>1, <2>2 DEF Gentle
  <2>4. CASE author' = [author EXCEPT ![a] = Idle]
    BY <2>3, <2>4, IdleIsReady, GentleRequest
  <2>5. CASE r.op \in {"publish_items", "publish_pending"} /\ author' = [author EXCEPT ![a] = s]
    <3>1. s.op = r.op /\ s.on = r.on /\ \A y \in Contents : s.plan[y] = IF y = x THEN None ELSE r.plan[y]
      BY <1>0, <2>1 DEF Request
    <3>2. ReadyNext(r)
      BY <2>3, GentleKeeps
    <3>3. ReadyNext(s)
      <4> HIDE DEF s, x
      <4>1. \A y \in Contents : s.plan[y] # 0
        BY <1>0, <2>5, <3>1, KindsAreApart DEF Ready, Publishes
      <4>2. ASSUME r.op = "publish_items", NEW y \in course'[r.on].items
            PROVE  content'[y].active # 0 \/ s.plan[y] # None \/ <<r.on, y>> \in crossed' \cup recast'
        <5>1. y \in Contents
          BY <1>0, <2>1, <4>2 DEF Ready
        <5> QED
          BY <2>1, <2>2, <3>1, <3>2, <4>2, <5>1 DEF ReadyNext
      <4>3. r.op = "publish_items" => r.on \in Courses
        BY <1>0 DEF Ready
      <4> QED
        BY <2>5, <3>1, <4>1, <4>2, <4>3 DEF ReadyNext
    <3> HIDE DEF s
    <3> QED
      BY <2>3, <2>5, <3>3, GentleRequest
  <2> QED
    BY <1>1, <2>4, <2>5 DEF PublishItem
<1>2. ASSUME NEW x \in Contents, NextItem(a, x) PROVE ItemsInCirculation' /\ AllReadyNext
  <2> DEFINE v == IF x \in Sections THEN content[x].latest ELSE r.plan[x]
             s == [r EXCEPT !.at = x, !.plan[x] = v]
  <2>1. UNCHANGED <<course, content>> /\ author' = [author EXCEPT ![a] = s] /\ r.plan[x] # None
    BY <1>2 DEF NextItem, authored, Planned
  <2>2. r.op \in {"publish_items", "publish_pending"}
    BY <1>2 DEF NextItem
  <2>3. v # None /\ v # 0
    <3>1. x \in Sections => content[x].latest \in Nat /\ content[x].latest # 0
      BY <1>2 DEF NextItem, Publishable
    <3>2. r.plan[x] # 0
      BY <1>0, <2>2 DEF Ready, Publishes
    <3> QED
      BY <2>1, <3>1, <3>2, KindsAreApart
  <2>4. v \in Versions
    BY <1>0, <2>3 DEF Request, Versions
  <2>5. s.op = r.op /\ s.on = r.on /\ s \in Request /\ \A y \in Contents : s.plan[y] = IF y = x THEN v ELSE r.plan[y]
    BY <1>0, <2>4 DEF Request
  <2>6. Gentle
    BY <2>1 DEF Gentle
  <2> HIDE DEF s, v
  <2>7. \A y \in Contents : s.plan[y] # 0 /\ (r.plan[y] # None => s.plan[y] # None)
    BY <1>0, <2>2, <2>3, <2>5 DEF Ready, Publishes
  <2>8. Ready(s)
    <3>1. s.op = "publish_items" => \A y \in course[s.on].items :
            content[y].active # 0 \/ s.plan[y] # None \/ <<s.on, y>> \in crossed \cup recast
      BY <1>0, <2>5, <2>7 DEF Ready
    <3> QED
      BY <1>0, <2>2, <2>5, <2>7, <3>1 DEF Ready
  <2>9. ReadyNext(s)
    BY <2>5, <2>6, <2>8, GentleKeeps
  <2> QED
    BY <2>1, <2>6, <2>9, GentleRequest
<1>3. CASE ItemsPublished(a)
  <2> DEFINE s == [r EXCEPT !.op = "publish_course"]
  <2>1. UNCHANGED <<course, content>>
    BY <1>3 DEF ItemsPublished, authored
  <2>2. Gentle
    BY <2>1 DEF Gentle
  <2>3. CASE Done(a)
    BY <2>2, <2>3, IdleIsReady, GentleRequest DEF Done
  <2>4. CASE r.op = "publish_items" /\ author' = [author EXCEPT ![a] = s]
    <3>1. s.op = "publish_course" /\ s.on = r.on /\ s \in Request
      BY <1>0 DEF Request, Ops
    <3>2. /\ r.on \in Courses
          /\ \A x \in course[r.on].items : content[x].active # 0 \/ <<r.on, x>> \in crossed \cup recast
      BY <1>0, <1>3, <2>4 DEF Ready, Nothing, ItemsPublished
    <3> HIDE DEF s
    <3>3. Ready(s)
      BY <3>1, <3>2 DEF Ready, Publishes
    <3>4. ReadyNext(s)
      BY <2>2, <3>1, <3>3, GentleKeeps
    <3> QED
      BY <2>2, <2>4, <3>4, GentleRequest
  <2> QED
    BY <1>3, <2>3, <2>4 DEF ItemsPublished, Doing
<1> QED
  BY <1>1, <1>2, <1>3

\* Only what is in no course is deleted.
LEMMA DeletionsKeepCirculation ==
  ASSUME CInv, Remember, NEW a \in Authors,
         Delete(a) \/ DeleteCourse(a) \/ CascadeDelete(a) \/ \E x \in Contents : PurgeNext(a, x)
  PROVE  ItemsInCirculation' /\ AllReadyNext
<1> USE ItemsTyped DEF CInv, IInv, HInv
<1> DEFINE r == author[a]
<1>0. r \in Request
  OBVIOUS
<1>1. ASSUME NEW S, \A x \in Contents : content'[x] = IF x \in S THEN Gone ELSE content[x],
             \A c \in Courses : course'[c].items \subseteq course[c].items \ S
      PROVE  Gentle
  BY <1>1 DEF Gentle, Gone
<1>2. CASE Delete(a)
  <2>1. Unreferenced(r.on, None) /\ Done(a) /\ course' = course /\ content' = [content EXCEPT ![r.on] = Gone]
    BY <1>2 DEF Delete
  <2>2. \A x \in Contents : content'[x] = IF x \in {r.on} THEN Gone ELSE content[x]
    BY <2>1 DEF TypeOK
  <2>3. \A c \in Courses : course'[c].items \subseteq course[c].items \ {r.on}
    BY <2>1, KindsAreApart DEF Unreferenced
  <2>4. Gentle
    BY <1>1, <2>2, <2>3
  <2> QED
    BY <2>1, <2>4, IdleIsReady, GentleRequest DEF Done
<1>3. CASE DeleteCourse(a)
  <2>1. content' = content /\ Done(a) /\ \A c \in Courses : course'[c].items \subseteq course[c].items
    BY <1>3 DEF DeleteCourse, NoCourse, TypeOK
  <2>2. Gentle
    BY <2>1 DEF Gentle
  <2> QED
    BY <2>1, <2>2, IdleIsReady, GentleRequest DEF Done
<1>4. CASE CascadeDelete(a)
  <2>1. /\ Done(a)
        /\ \A c \in Courses : IF c = r.on THEN course'[c].items = {} ELSE course'[c] = course[c]
    BY <1>4 DEF CascadeDelete, NoCourse, TypeOK
  <2>2. \A x \in Contents : content'[x] = IF x \in Planned(a) THEN Gone ELSE content[x]
    BY <1>4 DEF CascadeDelete
  <2>3. \A x \in Planned(a), c \in Courses : c # r.on => x \notin course[c].items
    BY <1>4 DEF CascadeDelete, Unreferenced
  <2>4. Gentle
    BY <1>1, <2>1, <2>2, <2>3
  <2> QED
    BY <2>1, <2>4, IdleIsReady, GentleRequest DEF Done
<1>5. ASSUME NEW x \in Contents, PurgeNext(a, x) PROVE ItemsInCirculation' /\ AllReadyNext
  <2> DEFINE s == [r EXCEPT !.plan[x] = None]
  <2>1. course' = course
    BY <1>5 DEF PurgeNext
  <2>2. Gentle
    <3>1. CASE content' = content
      BY <2>1, <3>1 DEF Gentle
    <3>2. CASE content' = [content EXCEPT ![x] = Gone] /\ Unreferenced(x, None)
      <4>1. \A c \in Courses : x \notin course[c].items
        BY <3>2, KindsAreApart DEF Unreferenced
      <4>2. \A y \in Contents : content'[y] = IF y \in {x} THEN Gone ELSE content[y]
        BY <3>2 DEF TypeOK
      <4>3. \A c \in Courses : course'[c].items \subseteq course[c].items \ {x}
        BY <2>1, <4>1
      <4> QED
        BY <1>1, <4>2, <4>3
    <3> QED
      BY <1>5, <3>1, <3>2 DEF PurgeNext
  <2>3. CASE author' = [author EXCEPT ![a] = Idle]
    BY <2>2, <2>3, IdleIsReady, GentleRequest
  <2>4. CASE author' = [author EXCEPT ![a] = s]
    <3>1. s.op = "purge"
      BY <1>0, <1>5 DEF PurgeNext, Doing, Request
    <3>2. ReadyNext(s)
      BY <3>1 DEF ReadyNext, Publishes
    <3> HIDE DEF s
    <3> QED
      BY <2>2, <2>4, <3>2, GentleRequest
  <2> QED
    BY <1>5, <2>3, <2>4 DEF PurgeNext
<1> QED
  BY <1>2, <1>3, <1>4, <1>5

\* What is withdrawn from under a course was being put into it.
LEMMA WithdrawalsKeepCirculation ==
  ASSUME CInv, Remember, NEW a \in Authors, Unpublish(a) \/ Archive(a)
  PROVE  ItemsInCirculation' /\ AllReadyNext
<1> USE ItemsTyped, MemoryGrows DEF CInv, IInv, HInv
<1> DEFINE r == author[a]  x == r.on
<1>1. /\ Withdrawing(r, x) /\ Here(x) /\ Done(a) /\ course' = course
      /\ \A c \in Courses : x \in course[c].items => <<c, x>> \in crossed
  BY DEF Unpublish, Archive, Doing, Withdrawing, AuthorInv, Ready
<1>2. \A y \in Contents : /\ content'[y].row = content[y].row
                          /\ y # x => content'[y] = content[y]
  <2>1. CASE Unpublish(a)
    BY <2>1 DEF Unpublish, TypeOK, Content
  <2>2. CASE Archive(a)
    BY <2>2 DEF Archive, TypeOK, Content
  <2> QED
    BY <2>1, <2>2
<1>3. ItemsInCirculation'
  BY <1>1, <1>2 DEF ItemsInCirculation, Here
<1>4. ASSUME NEW b \in Authors PROVE ReadyNext(author[b])
  <2>1. \A y \in Contents : content'[y].archived => content[y].archived
          \/ \A c \in Courses : Entering(author[b], c, y) => <<c, y>> \in crossed'
    BY <1>1, <1>2, MetIsRemembered
  <2>2. Leaves(author[b])
    BY <1>1, <1>2, <2>1 DEF Leaves
  <2>3. author[b] \in Request /\ Ready(author[b])
    BY DEF AuthorInv
  <2> QED
    BY <2>2, <2>3, ReadyStays
<1> QED
  BY <1>1, <1>3, <1>4, IdleIsReady, OneMoves DEF Done

\* A rewrite puts in what was not archived when it looked, or was then met; and it has met whoever withdraws
\* or publishes now.
LEMMA RewritesKeepCirculation ==
  ASSUME CInv, Remember, NEW a \in Authors, SetModules(a) \/ DeleteItems(a) \/ SetItems(a)
  PROVE  ItemsInCirculation' /\ AllReadyNext
<1> USE ItemsTyped, MemoryGrows DEF CInv, IInv, HInv
<1> DEFINE r == author[a]
<1>0. \A b \in Authors : author[b] \in Request /\ Ready(author[b])
  BY DEF AuthorInv
<1>1. CASE SetModules(a)
  <2> DEFINE S == Planned(a) \cup (course[r.on].items \cap Sections)
             s == [r EXCEPT !.op = "set_items", !.plan = Just(S)]
  <2>1. r.op = "set_modules" /\ author' = [author EXCEPT ![a] = s] /\ UNCHANGED <<course, content>>
    BY <1>1 DEF SetModules, Doing, authored
  <2>2. r.on \in Courses
    BY <1>0, <2>1 DEF Ready
  <2>3. ASSUME NEW x \in Contents, x \in S, content[x].archived PROVE <<r.on, x>> \in crossed
    <3>1. CASE x \in Planned(a)
      BY <1>0, <2>1, <2>3, <3>1 DEF Ready, Planned
    <3>2. CASE x \in course[r.on].items
      BY <2>2, <2>3, <3>2 DEF ItemsInCirculation
    <3> QED
      BY <2>3, <3>1, <3>2
  <2>4. s.op = "set_items" /\ s.on = r.on /\ \A x \in Contents : s.plan[x] # None => x \in S
    BY <1>0 DEF Request, Just
  <2>5. s \in Request
    <3>1. Just(S) \in [Contents -> Versions \cup {None}]
      BY DEF Just, Versions
    <3> HIDE DEF S
    <3> QED
      BY <1>0, <3>1 DEF Request, Ops
  <2>6. Gentle
    BY <2>1 DEF Gentle
  <2> HIDE DEF s, S
  <2>7. Ready(s)
    BY <2>2, <2>3, <2>4 DEF Ready, Publishes
  <2>8. ReadyNext(s)
    BY <2>5, <2>6, <2>7, GentleKeeps
  <2> QED
    BY <2>1, <2>6, <2>8, GentleRequest
<1>2. CASE DeleteItems(a)
  <2> DEFINE s == [r EXCEPT !.op = "rewrite"]
  <2>1. r.op = "set_items" /\ author' = [author EXCEPT ![a] = s] /\ UNCHANGED <<course, content>>
    BY <1>2 DEF DeleteItems, Doing, authored
  <2>2. s \in Request /\ s.op = "rewrite" /\ s.on = r.on /\ s.plan = r.plan
    BY <1>0 DEF Request, Ops
  <2>3. Gentle
    BY <2>1 DEF Gentle
  <2> HIDE DEF s
  <2>4. Ready(s)
    BY <1>0, <2>1, <2>2 DEF Ready, Publishes
  <2>5. ReadyNext(s)
    BY <2>2, <2>3, <2>4, GentleKeeps
  <2> QED
    BY <2>1, <2>3, <2>5, GentleRequest
<1>3. CASE SetItems(a)
  <2> DEFINE c == r.on
             J(b) == [author[b] EXCEPT !.plan = Joined(author[b], r)]
  <2>1. /\ r.op = "rewrite" /\ AllHere(Planned(a)) /\ content' = content
        /\ course' = [course EXCEPT ![c].items = Planned(a)]
        /\ author' = [b \in Authors |-> IF b = a THEN Idle
                        ELSE IF Doing(b, "rewrite") /\ author[b].on = c THEN J(b) ELSE author[b]]
    BY <1>3 DEF SetItems, Doing
  <2>2. c \in Courses /\ \A x \in Planned(a) : content[x].archived => <<c, x>> \in crossed
    BY <1>0, <2>1 DEF Ready, Planned
  <2>3. \A d \in Courses : course'[d].items = IF d = c THEN Planned(a) ELSE course[d].items
    BY <2>1, <2>2 DEF TypeOK, Course
  <2>4. ItemsInCirculation'
    <3> SUFFICES ASSUME NEW d \in Courses, NEW x \in course'[d].items
                 PROVE  content[x].row = "here" /\ (content[x].archived => <<d, x>> \in crossed)
      BY <2>1 DEF ItemsInCirculation, Here
    <3>1. CASE d = c
      BY <2>1, <2>2, <2>3, <3>1 DEF AllHere, Here
    <3>2. CASE d # c
      BY <2>3, <3>2 DEF ItemsInCirculation, Here
    <3> QED
      BY <3>1, <3>2
  <2>5. \A x \in Planned(a) : x \in Contents /\ Entering(r, c, x)
    BY <2>1 DEF Planned, Entering
  <2> HIDE DEF c
  <2>6. ASSUME NEW b \in Authors PROVE ReadyNext(author[b])
    <3>1. ASSUME NEW d \in Courses, NEW x \in course'[d].items, x \notin course[d].items
          PROVE  /\ Withdrawing(author[b], x) => <<d, x>> \in crossed'
                 /\ Publishing(author[b], d) => <<d, x>> \in recast'
      <4>1. d = c /\ x \in Planned(a)
        BY <2>3, <3>1
      <4> QED
        BY <2>2, <2>5, <4>1, MetIsRemembered
    <3>2. \A d \in Courses : course'[d].items \subseteq Contents
      BY <2>3 DEF Planned
    <3>3. Leaves(author[b])
      BY <2>1, <3>1, <3>2 DEF Leaves
    <3> QED
      BY <1>0, <3>3, ReadyStays
  <2>7. ASSUME NEW b \in Authors, Doing(b, "rewrite"), author[b].on = c PROVE ReadyNext(J(b))
    <3>1. /\ J(b).op = "rewrite" /\ J(b).on = c
          /\ \A x \in Contents : J(b).plan[x] # None => author[b].plan[x] # None \/ r.plan[x] # None
      <4>1. author[b] \in Request /\ author[b].op = "rewrite"
        BY <1>0, <2>7 DEF Doing
      <4>2. J(b).op = author[b].op /\ J(b).on = author[b].on /\ J(b).plan = Joined(author[b], r)
        BY <4>1 DEF Request
      <4>3. \A x \in Contents : Joined(author[b], r)[x] # None => author[b].plan[x] # None \/ r.plan[x] # None
        BY KindsAreApart DEF Joined, Own, StandsBeside
      <4> QED
        BY <2>7, <4>1, <4>2, <4>3
    <3> HIDE DEF J
    <3>2. \A x \in Contents : (author[b].plan[x] # None \/ r.plan[x] # None) /\ content[x].archived =>
            <<c, x>> \in crossed
      BY <1>0, <2>1, <2>7 DEF Ready, Doing, c
    <3> QED
      BY <2>1, <2>2, <3>1, <3>2 DEF ReadyNext, Publishes
  <2> HIDE DEF J
  <2>8. AllReadyNext
    <3> SUFFICES ASSUME NEW b \in Authors PROVE ReadyNext(author'[b])
      BY DEF AllReadyNext
    <3>1. \/ author'[b] = Idle
          \/ author'[b] = author[b]
          \/ author'[b] = J(b) /\ Doing(b, "rewrite") /\ author[b].on = c
      BY <2>1
    <3> QED
      BY <2>6, <2>7, <3>1, IdleIsReady
  <2> QED
    BY <2>4, <2>8
<1> QED
  BY <1>1, <1>2, <1>3

LEMMA CourseWritesKeepCirculation ==
  ASSUME CInv, Remember, NEW a \in Authors,
         PublishCourse(a) \/ ArchiveCourse(a) \/ AbortRequest(a) \/ Restore(a)
  PROVE  ItemsInCirculation' /\ AllReadyNext
<1> USE DEF CInv, IInv, HInv
<1>1. \A c \in Courses : course'[c].items = course[c].items
  <2>1. CASE PublishCourse(a)
    BY <2>1 DEF PublishCourse, TypeOK, Course
  <2>2. CASE ArchiveCourse(a)
    BY <2>2 DEF ArchiveCourse, TypeOK, Course
  <2>3. CASE course' = course
    BY <2>3
  <2> QED
    BY <2>1, <2>2, <2>3 DEF AbortRequest, Restore, authored
<1>2. \A x \in Contents : /\ content'[x].row = content[x].row /\ content'[x].active = content[x].active
                          /\ content'[x].archived => content[x].archived
  BY DEF PublishCourse, ArchiveCourse, AbortRequest, Restore, authored, TypeOK, Content
<1>3. Gentle
  BY <1>1, <1>2, ItemsTyped DEF Gentle
<1>4. Done(a)
  BY DEF PublishCourse, ArchiveCourse, AbortRequest, Restore
<1> QED
  BY <1>3, <1>4, IdleIsReady, GentleRequest DEF Done

LEMMA CirculationStep ==
  ASSUME CInv, [SharedNext]_sharedVars
  PROVE  CInv'
<1>1. IInv'
  BY StepKeeps DEF CInv, SharedNext, sharedVars
<1>2. ASSUME AllReadyNext PROVE AuthorInv'
  <2>1. \A a \in Authors : Ready(author[a])'
    BY <1>2 DEF AllReadyNext, ReadyNext, Ready, Publishes
  <2> QED
    BY <2>1 DEF AuthorInv
<1>3. CASE UNCHANGED sharedVars
  BY <1>1, <1>3 DEF sharedVars, vars, CInv, ItemsInCirculation, AuthorInv, Ready, Remembered, Crossings, Recasts, Here
<1>4. CASE SharedNext
  <2>0. Next /\ Remember
    BY <1>4 DEF SharedNext
  <2>1. Remembered'
    BY <2>0, MemoryGrows
  <2>2. ASSUME Writes PROVE ItemsInCirculation' /\ AllReadyNext
    BY <2>0, <2>2, WritesKeepCirculation
  <2>3. ASSUME NEW a \in Authors, AuthorReads(a) PROVE ItemsInCirculation' /\ AllReadyNext
    BY <2>0, <2>3, ReadsKeepCirculation
  <2>4. ASSUME NEW a \in Authors, AuthorWrites(a) PROVE ItemsInCirculation' /\ AllReadyNext
    BY <2>0, <2>4, PublicationsKeepCirculation, DeletionsKeepCirculation, WithdrawalsKeepCirculation,
       RewritesKeepCirculation, CourseWritesKeepCirculation DEF AuthorWrites
  <2>5. ASSUME NEW u \in Users, Participates(u) PROVE ItemsInCirculation' /\ AllReadyNext
    <3>1. UNCHANGED <<course, content, author>>
      BY <2>5 DEF Participates, HandIn, Pass, Overturn, StartCheck, ReadDoor, MarkRead, CheckCourse, CheckSections,
         CheckPasses, CheckReads, Issue, AbortCheck, authored
    <3>2. Gentle
      BY <3>1 DEF Gentle
    <3> QED
      BY <2>0, <3>1, <3>2, GentleKeeps DEF AllReadyNext
  <2>6. ItemsInCirculation' /\ AllReadyNext
    BY <2>0, <2>2, <2>3, <2>4, <2>5 DEF Next
  <2> QED
    BY <1>1, <1>2, <2>1, <2>6 DEF CInv
<1> QED
  BY <1>3, <1>4

LEMMA CirculationInvariant == SharedSpec => []CInv
<1>1. SharedInit => CInv
  BY InitHistory DEF SharedInit, CInv, IInv, NewInv, Init, ItemsInCirculation, AuthorInv, Ready, Publishes, Idle,
     Remembered, Crossings, Recasts, Withdrawing, Publishing
<1>2. CInv /\ [SharedNext]_sharedVars => CInv'
  BY CirculationStep
<1> QED
  BY <1>1, <1>2, PTL DEF SharedSpec

\* However many authors work at once: no course holds deleted content, nor archived content but such as was
\* being archived while it was put in.
THEOREM CirculationKept == SharedSpec => []ItemsInCirculation
<1>1. CInv => ItemsInCirculation
  BY DEF CInv
<1> QED
  BY <1>1, CirculationInvariant, PTL

\* However many authors work at once: when a course goes live, every item of it can be opened but such as was
\* being withdrawn while it was put in, or was put in while the course was being published.
THEOREM PublishedWhole == SharedSpec => []WholeWhenPublished
<1>1. CInv => WholeWhenPublished
  BY DEF CInv, AuthorInv, Ready, ItemsInCirculation, WholeWhenPublished, Available
<1> QED
  BY <1>1, CirculationInvariant, PTL

----------------------------------------------------------------------------
(* The reminders.  Every mail of a reminder is charged to a fault or to a    *)
(* process, and each process is charged once: by the mail it has sent and    *)
(* not recorded, or, once the reminder has a row, by knowing of the row.  A  *)
(* process that knows does not send, and what it forgets with a new sweep    *)
(* the row tells it again.  Reminders to those who are done are charged to   *)
(* the sweeps that had looked before.                                        *)

\* A reminder that a deadline is past has no number of days.
Proper(r) == r \in Reminder /\ (r.kind = "overdue" => r.days = Nil)

\* A sweep that has a reminder in hand knows whom it is for, and one that is
\* about to send it has loaded the keys and not found its own.
HandInv ==
    \A p \in Processes :
        /\ sweep[p].pc \in {"dedup", "send", "record"} => Proper(sweep[p].next)
        /\ sweep[p].pc \in {"send", "record"} => sweep[p].loaded
        /\ sweep[p].pc = "send" => KeyOf(sweep[p].next) \notin sweep[p].keys

\* The sweeps that have sent a reminder of this key and not recorded it.
Unrecorded(k) ==
    {p \in Processes : /\ sweep[p].pc = "record"
                       /\ sweep[p].delivered
                       /\ KeyOf(sweep[p].next) = k}

\* A sweep that loaded the keys before this one was recorded, and will send the
\* reminder again should it come by.
Unaware(p, k) == sweep[p].loaded /\ k \notin sweep[p].keys /\ p \notin Unrecorded(k)

\* The processes that have had their turn with a reminder.
Spent(k) == IF k \in rows THEN {p \in Processes : ~Unaware(p, k)} ELSE Unrecorded(k)

\* Each mail of a reminder is a fault's or uses up a process's turn.
MailsAccounted == \A k \in Key : mails[k] <= Cardinality(Spent(k)) + faults

\* The sweeps that are past the look at whether u is done.
Committed(u) ==
    {p \in Processes : sweep[p].pc \in {"dedup", "send"} /\ sweep[p].next.user = u}

\* Nobody who is not done has a late reminder; from then on each one is of a
\* sweep that was past the look, and is so no more.
LateAccounted ==
    \A u \in Participants : /\ u \notin completed => late[u] = 0
                            /\ late[u] <= Cardinality(Processes \ Committed(u))

RemindersInv == RemindersTypeOK /\ HandInv /\ MailsAccounted /\ LateAccounted

----------------------------------------------------------------------------
(* Lemmas about the operators of CourseReminders *)

\* A set of days that is not empty has an earliest.
LEMMA EarliestDay ==
  ASSUME NEW S \in SUBSET Days, S # {}
  PROVE  Min(S) \in S
<1> DEFINE R == OpToRel(<, Nat)
<1>1. S \subseteq Nat
  BY RemindersAssumption DEF Days
<1>2. PICK m \in S : \A n \in S : <<n, m>> \notin R
  <2>1. IsWellFoundedOn(R, Nat)
    BY NatLessThanWellFounded
  <2> HIDE DEF R
  <2> QED
    BY <1>1, <2>1, WFMin
<1>3. ASSUME NEW n \in S
      PROVE  m <= n
  <2>1. ~(n < m)
    BY <1>1, <1>2 DEF OpToRel
  <2> QED
    BY <1>1, <2>1
<1> QED
  BY <1>3 DEF Min

\* What the reader takes for the same reminder is what the audit row says.
LEMMA KeyIsAsRead ==
  ASSUME NEW r, Proper(r)
  PROVE  KeyOf(r) \in Key /\ AsRead(r) = KeyOf(r)
BY DEF Proper, KeyOf, AsRead, Overdue, Reminder, Key, Deadline, Kind

LEMMA NoSweepTyped == NoSweep \in Sweep
BY RemindersAssumption DEF NoSweep, Sweep, Days

\* What a deadline calls for is a reminder for its candidate.
LEMMA TriggeredProper ==
  ASSUME NEW c \in Candidate, NEW asOf \in Days, NEW r \in Triggered(c, asOf)
  PROVE  Proper(r) /\ r.user = c.user
BY DEF Triggered, Candidate, Proper, Reminder, Kind

----------------------------------------------------------------------------
(* How the accounts of mails are kept *)

LEMMA SpentFinite ==
  ASSUME NEW k
  PROVE  /\ Spent(k) \subseteq Processes /\ IsFiniteSet(Spent(k))
         /\ Cardinality(Spent(k)) \in Nat /\ Cardinality(Processes) \in Nat
         /\ Cardinality(Spent(k)) <= Cardinality(Processes)
<1>1. Spent(k) \subseteq Processes
  BY DEF Spent, Unrecorded
<1> QED
  BY <1>1, RemindersAssumption, FS_Subset, FS_CardinalityType

\* A step that takes no turn back, and pays for the mail it sends.
LEMMA AccountKept ==
  ASSUME RemindersTypeOK, RemindersTypeOK', NEW k \in Key,
         mails[k] <= Cardinality(Spent(k)) + faults,
         \/ /\ mails'[k] = mails[k] /\ faults <= faults' /\ Spent(k) \subseteq Spent(k)'
         \/ /\ mails'[k] <= mails[k] + 1 /\ faults' = faults + 1 /\ Spent(k) \subseteq Spent(k)'
         \/ /\ mails'[k] = mails[k] + 1 /\ faults' = faults
            /\ \E p : p \notin Spent(k) /\ Spent(k) \cup {p} \subseteq Spent(k)'
         \/ /\ mails'[k] = mails[k] /\ faults' = faults + 1
            /\ \E p : Spent(k) \ {p} \subseteq Spent(k)'
  PROVE  mails'[k] <= Cardinality(Spent(k)') + faults'
<1> DEFINE S == Spent(k)
           T == Spent(k)'
<1>1. /\ IsFiniteSet(S) /\ Cardinality(S) \in Nat
      /\ mails[k] \in Nat /\ mails'[k] \in Nat /\ faults \in Nat /\ faults' \in Nat
  BY SpentFinite, RemindersAssumption DEF RemindersTypeOK
<1>2. T \subseteq Processes /\ IsFiniteSet(T) /\ Cardinality(T) \in Nat
  <2>1. T \subseteq Processes
    BY DEF Spent, Unrecorded
  <2> QED
    BY <2>1, RemindersAssumption, FS_Subset, FS_CardinalityType
<1>3. mails[k] <= Cardinality(S) + faults
  OBVIOUS
<1>4. \/ mails'[k] = mails[k] /\ faults <= faults' /\ S \subseteq T
      \/ mails'[k] <= mails[k] + 1 /\ faults' = faults + 1 /\ S \subseteq T
      \/ mails'[k] = mails[k] + 1 /\ faults' = faults /\ \E p : p \notin S /\ S \cup {p} \subseteq T
      \/ mails'[k] = mails[k] /\ faults' = faults + 1 /\ \E p : S \ {p} \subseteq T
  OBVIOUS
<1> HIDE DEF S, T
<1>5. ASSUME S \subseteq T, \/ mails'[k] = mails[k] /\ faults <= faults'
                            \/ mails'[k] <= mails[k] + 1 /\ faults' = faults + 1
      PROVE  mails'[k] <= Cardinality(T) + faults'
  <2>1. Cardinality(S) <= Cardinality(T)
    BY <1>2, <1>5, FS_Subset
  <2> QED
    BY <1>1, <1>2, <1>3, <1>5, <2>1
<1>6. ASSUME NEW p, mails'[k] = mails[k] + 1, faults' = faults, p \notin S, S \cup {p} \subseteq T
      PROVE  mails'[k] <= Cardinality(T) + faults'
  <2>1. Cardinality(S \cup {p}) = Cardinality(S) + 1
    BY <1>1, <1>6, FS_AddElement
  <2>2. Cardinality(S \cup {p}) <= Cardinality(T)
    BY <1>2, <1>6, FS_Subset
  <2> QED
    BY <1>1, <1>2, <1>3, <1>6, <2>1, <2>2
<1>7. ASSUME NEW p, mails'[k] = mails[k], faults' = faults + 1, S \ {p} \subseteq T
      PROVE  mails'[k] <= Cardinality(T) + faults'
  <2>1. Cardinality(S \ {p}) <= Cardinality(T)
    BY <1>2, <1>7, FS_Subset
  <2>2. Cardinality(S \ {p}) = IF p \in S THEN Cardinality(S) - 1 ELSE Cardinality(S)
    BY <1>1, FS_RemoveElement
  <2> QED
    BY <1>1, <1>2, <1>3, <1>7, <2>1, <2>2
<1>8. mails'[k] <= Cardinality(T) + faults'
  BY <1>4, <1>5, <1>6, <1>7
<1> QED
  BY <1>8 DEF T

\* A late reminder is of a sweep that was committed and is so no more.
LEMMA LateKept ==
  ASSUME NEW u \in Participants, late[u] \in Nat, late'[u] \in Nat,
         late[u] <= Cardinality(Processes \ Committed(u)),
         \/ late'[u] = 0
         \/ late'[u] = late[u] /\ Committed(u)' \subseteq Committed(u)
         \/ /\ late'[u] = late[u] + 1
            /\ \E p \in Committed(u) : Committed(u)' \subseteq Committed(u) \ {p}
  PROVE  late'[u] <= Cardinality(Processes \ Committed(u)')
<1> DEFINE S == Processes \ Committed(u)
           T == Processes \ Committed(u)'
<1>1. /\ IsFiniteSet(S) /\ Cardinality(S) \in Nat
      /\ IsFiniteSet(T) /\ Cardinality(T) \in Nat
  BY RemindersAssumption, FS_Subset, FS_CardinalityType
<1>2. late[u] <= Cardinality(S)
  OBVIOUS
<1>3. CASE late'[u] = 0
  BY <1>1, <1>3
<1>4. CASE late'[u] = late[u] /\ Committed(u)' \subseteq Committed(u)
  <2>1. S \subseteq T
    BY <1>4
  <2> HIDE DEF S, T
  <2>2. Cardinality(S) <= Cardinality(T)
    BY <1>1, <2>1, FS_Subset
  <2>3. late'[u] <= Cardinality(T)
    BY <1>1, <1>2, <1>4, <2>2
  <2> QED
    BY <2>3 DEF T
<1>5. ASSUME late'[u] = late[u] + 1,
             NEW p \in Committed(u), Committed(u)' \subseteq Committed(u) \ {p}
      PROVE  late'[u] <= Cardinality(Processes \ Committed(u)')
  <2>1. p \notin S /\ S \cup {p} \subseteq T
    BY <1>5 DEF Committed
  <2> HIDE DEF S, T
  <2>2. Cardinality(S \cup {p}) = Cardinality(S) + 1
    BY <1>1, <2>1, FS_AddElement
  <2>3. Cardinality(S \cup {p}) <= Cardinality(T)
    BY <1>1, <2>1, FS_Subset
  <2>4. late'[u] <= Cardinality(T)
    BY <1>1, <1>2, <1>5, <2>2, <2>3
  <2> QED
    BY <2>4 DEF T
<1> QED
  BY <1>3, <1>4, <1>5

----------------------------------------------------------------------------
(* The invariant *)

LEMMA RemindersInitInv == RemindersInit => RemindersInv
<1> SUFFICES ASSUME RemindersInit PROVE RemindersInv
  OBVIOUS
<1>1. RemindersTypeOK
  BY NoSweepTyped, RemindersAssumption DEF RemindersInit, RemindersTypeOK, Days
<1>2. \A p \in Processes : sweep[p].pc = "idle"
  BY DEF RemindersInit, NoSweep
<1>3. HandInv
  BY <1>2 DEF HandInv
<1>4. MailsAccounted
  BY SpentFinite DEF RemindersInit, MailsAccounted
<1>5. LateAccounted
  <2>1. \A u \in Participants : Cardinality(Processes \ Committed(u)) \in Nat
    BY RemindersAssumption, FS_Subset, FS_CardinalityType
  <2> QED
    BY <2>1 DEF RemindersInit, LateAccounted
<1> QED
  BY <1>1, <1>3, <1>4, <1>5 DEF RemindersInv

\* A process that is given another sweep leaves those of the others.
Given(p, x) ==
  /\ x \in Sweep
  /\ sweep' = [sweep EXCEPT ![p] = x]

LEMMA GivenIs ==
  ASSUME RemindersTypeOK, NEW p \in Processes, NEW x, Given(p, x)
  PROVE  /\ sweep' \in [Processes -> Sweep]
         /\ sweep'[p] = x
         /\ \A q \in Processes : q # p => sweep'[q] = sweep[q]
BY DEF RemindersTypeOK, Given

\* A sweep that neither sends nor records, knows no less than it did, and has
\* in hand only what it had or what belongs to somebody who is not done.
Careful(p, x) ==
  /\ x.pc \notin {"send", "record"} /\ sweep[p].pc # "record"
  /\ x.loaded /\ sweep[p].loaded => x.keys = sweep[p].keys
  /\ x.loaded /\ ~sweep[p].loaded => x.keys = rows
  /\ x.pc = "dedup" => /\ Proper(x.next)
                       /\ sweep[p].pc = "check"
                       /\ x.next.user \notin completed

LEMMA CarefulKeeps ==
  ASSUME RemindersInv, NEW p \in Processes, NEW x, Given(p, x), Careful(p, x),
         UNCHANGED <<today, individual, assigned, reachable, completed, rows, mails, late, changes>>,
         faults' \in 0 .. MaxFaults, faults <= faults'
  PROVE  RemindersInv'
<1>1. /\ sweep' \in [Processes -> Sweep]
      /\ sweep'[p] = x
      /\ \A q \in Processes : q # p => sweep'[q] = sweep[q]
  BY GivenIs DEF RemindersInv
<1>2. RemindersTypeOK'
  BY <1>1 DEF RemindersInv, RemindersTypeOK
<1>3. HandInv'
  BY <1>1 DEF RemindersInv, HandInv, Careful
<1>4. MailsAccounted'
  <2> SUFFICES ASSUME NEW k \in Key PROVE mails'[k] <= Cardinality(Spent(k)') + faults'
    BY DEF MailsAccounted
  <2>1. Unrecorded(k)' = Unrecorded(k)
    BY <1>1 DEF Unrecorded, Careful
  <2>2. \A q \in Processes : k \in rows /\ Unaware(q, k)' => Unaware(q, k)
    BY <1>1, <2>1 DEF Unaware, Careful
  <2>3. Spent(k) \subseteq Spent(k)'
    BY <2>1, <2>2 DEF Spent
  <2>4. mails[k] <= Cardinality(Spent(k)) + faults
    BY DEF RemindersInv, MailsAccounted
  <2> QED
    BY <1>2, <2>3, <2>4, AccountKept DEF RemindersInv
<1>5. LateAccounted'
  <2> SUFFICES ASSUME NEW u \in Participants
               PROVE  /\ u \notin completed => late[u] = 0
                      /\ late'[u] <= Cardinality(Processes \ Committed(u)')
    BY DEF LateAccounted
  <2>1. /\ u \notin completed => late[u] = 0
        /\ late[u] <= Cardinality(Processes \ Committed(u))
        /\ late[u] \in Nat /\ late'[u] \in Nat
    BY DEF RemindersInv, LateAccounted, RemindersTypeOK
  <2>2. u \in completed => Committed(u)' \subseteq Committed(u)
    BY <1>1 DEF Committed, Careful
  <2>3. late'[u] = late[u]
    OBVIOUS
  <2>4. late'[u] = 0 \/ (late'[u] = late[u] /\ Committed(u)' \subseteq Committed(u))
    BY <2>1, <2>2, <2>3
  <2> QED
    BY <2>1, <2>4, LateKept
<1> QED
  BY <1>2, <1>3, <1>4, <1>5 DEF RemindersInv

----------------------------------------------------------------------------
(* One lemma per action *)

LEMMA StartRemindersInv == ASSUME RemindersInv, NEW p \in Processes, Start(p) PROVE RemindersInv'
<1> DEFINE x == [NoSweep EXCEPT !.pc = "individual", !.asOf = today]
<1>1. Given(p, x) /\ Careful(p, x)
  BY RemindersAssumption
  DEF Given, Careful, Start, NoSweep, Sweep, RemindersInv, RemindersTypeOK
<1>2. UNCHANGED <<today, individual, assigned, reachable, completed, rows, mails, late, changes, faults>>
  BY DEF Start, OnlySweep
<1>3. faults' \in 0 .. MaxFaults /\ faults <= faults'
  BY <1>2 DEF RemindersInv, RemindersTypeOK
<1> HIDE DEF x
<1> QED
  BY <1>1, <1>2, <1>3, CarefulKeeps

LEMMA ReadIndividualRemindersInv ==
  ASSUME RemindersInv, NEW p \in Processes, ReadIndividual(p) PROVE RemindersInv'
<1> DEFINE asOf == sweep[p].asOf
           read == {u \in Participants : reachable /\ Read(individual[u], asOf)}
           found == {[user |-> u, due |-> individual[u], source |-> "individual"] : u \in read}
           x == [sweep[p] EXCEPT !.pc = "classes", !.found = found]
<1>1. sweep' = [sweep EXCEPT ![p].pc = "classes", ![p].found = found] /\ sweep[p].pc = "individual"
  BY DEF ReadIndividual
<1>2. found \in SUBSET Candidate
  BY DEF Read, Candidate, RemindersInv, RemindersTypeOK, Deadline
<1> HIDE DEF found
<1>3. sweep[p] \in Sweep /\ sweep \in [Processes -> Sweep]
  BY DEF RemindersInv, RemindersTypeOK
<1>4. Given(p, x) /\ Careful(p, x)
  BY <1>1, <1>2, <1>3 DEF Given, Careful, Sweep
<1>5. UNCHANGED <<today, individual, assigned, reachable, completed, rows, mails, late, changes, faults>>
  BY DEF ReadIndividual, OnlySweep
<1>6. faults' \in 0 .. MaxFaults /\ faults <= faults'
  BY <1>5 DEF RemindersInv, RemindersTypeOK
<1> HIDE DEF x
<1> QED
  BY <1>4, <1>5, <1>6, CarefulKeeps

LEMMA ReadClassesRemindersInv ==
  ASSUME RemindersInv, NEW p \in Processes, ReadClasses(p) PROVE RemindersInv'
<1> DEFINE asOf == sweep[p].asOf
           new == {u \in Participants : reachable /\ ClassDeadlines(u, asOf) # {}} \ {c.user : c \in sweep[p].found}
           more == {[user |-> u, due |-> Min(ClassDeadlines(u, asOf)), source |-> "class"] : u \in new}
           x == [sweep[p] EXCEPT !.pc = "check", !.found = sweep[p].found \cup more]
<1>1. /\ sweep' = [sweep EXCEPT ![p].pc = "check", ![p].found = @ \cup more]
      /\ sweep[p].pc = "classes"
  BY DEF ReadClasses
<1>2. more \in SUBSET Candidate
  <2>1. ASSUME NEW u \in new
        PROVE  Min(ClassDeadlines(u, asOf)) \in Days /\ u \in Participants
    <3>1. ClassDeadlines(u, asOf) \in SUBSET Days
      BY DEF ClassDeadlines, Read, RemindersInv, RemindersTypeOK, Deadline
    <3>2. ClassDeadlines(u, asOf) # {}
      OBVIOUS
    <3> QED
      BY <3>1, <3>2, EarliestDay
  <2> HIDE DEF new, asOf
  <2> QED
    BY <2>1 DEF Candidate
<1> HIDE DEF more
<1>3. sweep[p] \in Sweep /\ sweep \in [Processes -> Sweep]
  BY DEF RemindersInv, RemindersTypeOK
<1>4. Given(p, x) /\ Careful(p, x)
  BY <1>1, <1>2, <1>3 DEF Given, Careful, Sweep
<1>5. UNCHANGED <<today, individual, assigned, reachable, completed, rows, mails, late, changes, faults>>
  BY DEF ReadClasses, OnlySweep
<1>6. faults' \in 0 .. MaxFaults /\ faults <= faults'
  BY <1>5 DEF RemindersInv, RemindersTypeOK
<1> HIDE DEF x
<1> QED
  BY <1>4, <1>5, <1>6, CarefulKeeps

LEMMA ConsiderRemindersInv ==
  ASSUME RemindersInv, NEW p \in Processes, Consider(p) PROVE RemindersInv'
<1>1. PICK c \in sweep[p].found :
         LET due == IF IsDone(c.user) THEN {} ELSE Triggered(c, sweep[p].asOf)
         IN  sweep' = [sweep EXCEPT
                 ![p].pc = IF due = {} THEN "check" ELSE "dedup",
                 ![p].found = @ \ {c},
                 ![p].next = IF due = {} THEN Nil ELSE CHOOSE r \in due : TRUE]
  BY DEF Consider
<1> DEFINE due == IF IsDone(c.user) THEN {} ELSE Triggered(c, sweep[p].asOf)
           next == IF due = {} THEN Nil ELSE CHOOSE r \in due : TRUE
           pc == IF due = {} THEN "check" ELSE "dedup"
           x == [sweep[p] EXCEPT !.pc = pc, !.found = sweep[p].found \ {c}, !.next = next]
<1>2. sweep' = [sweep EXCEPT ![p].pc = pc, ![p].found = @ \ {c}, ![p].next = next]
  BY <1>1
<1>3. sweep[p] \in Sweep /\ sweep \in [Processes -> Sweep] /\ sweep[p].pc = "check"
  BY DEF Consider, RemindersInv, RemindersTypeOK
<1>4. \/ pc = "check" /\ next = Nil
      \/ pc = "dedup" /\ Proper(next) /\ next.user \notin completed
  <2>1. c \in Candidate /\ sweep[p].asOf \in Days
    BY <1>3 DEF Sweep
  <2>2. CASE due # {}
    <3>1. next \in due /\ pc = "dedup"
      BY <2>2
    <3>2. next \in Triggered(c, sweep[p].asOf) /\ ~IsDone(c.user)
      BY <3>1
    <3> HIDE DEF next
    <3> QED
      BY <2>1, <3>1, <3>2, TriggeredProper DEF IsDone
  <2> QED
    BY <2>2
<1> HIDE DEF pc, next
<1>5. x \in Sweep
  BY <1>3, <1>4 DEF Sweep, Proper
<1>6. Given(p, x) /\ Careful(p, x)
  <2>1. sweep' = [sweep EXCEPT ![p] = x]
    BY <1>2, <1>3
  <2> QED
    BY <1>3, <1>4, <1>5, <2>1 DEF Given, Careful, Sweep
<1>7. UNCHANGED <<today, individual, assigned, reachable, completed, rows, mails, late, changes, faults>>
  BY DEF Consider, OnlySweep
<1>8. faults' \in 0 .. MaxFaults /\ faults <= faults'
  BY <1>7 DEF RemindersInv, RemindersTypeOK
<1> HIDE DEF x
<1> QED
  BY <1>6, <1>7, <1>8, CarefulKeeps

LEMMA FinishRemindersInv == ASSUME RemindersInv, NEW p \in Processes, Finish(p) PROVE RemindersInv'
<1>1. Given(p, NoSweep) /\ Careful(p, NoSweep)
  BY NoSweepTyped DEF Given, Careful, Finish, NoSweep
<1>2. UNCHANGED <<today, individual, assigned, reachable, completed, rows, mails, late, changes, faults>>
  BY DEF Finish, OnlySweep
<1>3. faults' \in 0 .. MaxFaults /\ faults <= faults'
  BY <1>2 DEF RemindersInv, RemindersTypeOK
<1> QED
  BY <1>1, <1>2, <1>3, CarefulKeeps

LEMMA DedupRemindersInv == ASSUME RemindersInv, NEW p \in Processes, Dedup(p) PROVE RemindersInv'
<1> DEFINE keys == IF sweep[p].loaded THEN sweep[p].keys ELSE rows
           again == KeyOf(sweep[p].next) \in keys
           pc == IF again THEN "check" ELSE "send"
           next == IF again THEN Nil ELSE sweep[p].next
           x == [sweep[p] EXCEPT !.keys = keys, !.loaded = TRUE, !.pc = pc, !.next = next]
<1>1. /\ sweep' = [sweep EXCEPT ![p].keys = keys, ![p].loaded = TRUE, ![p].pc = pc,
                                ![p].next = IF again THEN Nil ELSE @]
      /\ sweep[p].pc = "dedup"
  BY DEF Dedup
<1>2. UNCHANGED <<today, individual, assigned, reachable, completed, rows, mails, late, changes, faults>>
  BY DEF Dedup, OnlySweep
<1>3. sweep[p] \in Sweep /\ sweep \in [Processes -> Sweep] /\ Proper(sweep[p].next)
  BY <1>1 DEF RemindersInv, RemindersTypeOK, HandInv
<1>4. sweep' = [sweep EXCEPT ![p] = x]
  BY <1>1, <1>3
<1>5. /\ keys \in SUBSET Key
      /\ keys = (IF sweep[p].loaded THEN sweep[p].keys ELSE rows)
      /\ \/ pc = "check" /\ next = Nil
         \/ pc = "send" /\ next = sweep[p].next /\ KeyOf(next) \notin keys
  BY <1>3 DEF Sweep, RemindersInv, RemindersTypeOK
<1> HIDE DEF keys, again, pc, next
<1>6. /\ x \in Sweep
      /\ x.keys = keys /\ x.loaded /\ x.pc = pc /\ x.next = next
  BY <1>3, <1>5 DEF Sweep, Proper
<1> HIDE DEF x
<1>7. /\ sweep' \in [Processes -> Sweep]
      /\ sweep'[p] = x
      /\ \A q \in Processes : q # p => sweep'[q] = sweep[q]
  BY <1>4, <1>6, GivenIs DEF Given, RemindersInv
<1>8. RemindersTypeOK'
  BY <1>2, <1>7 DEF RemindersInv, RemindersTypeOK
<1>9. HandInv'
  BY <1>3, <1>5, <1>6, <1>7 DEF RemindersInv, HandInv
<1>10. MailsAccounted'
  <2> SUFFICES ASSUME NEW k \in Key PROVE mails'[k] <= Cardinality(Spent(k)') + faults'
    BY DEF MailsAccounted
  <2>1. Unrecorded(k)' = Unrecorded(k)
    BY <1>1, <1>5, <1>6, <1>7 DEF Unrecorded
  <2>2. \A q \in Processes : k \in rows /\ Unaware(q, k)' => Unaware(q, k)
    BY <1>5, <1>6, <1>7, <2>1 DEF Unaware
  <2>3. Spent(k) \subseteq Spent(k)'
    BY <1>2, <2>1, <2>2 DEF Spent
  <2>4. mails[k] <= Cardinality(Spent(k)) + faults
    BY DEF RemindersInv, MailsAccounted
  <2>5. mails'[k] = mails[k] /\ faults <= faults'
    BY <1>2 DEF RemindersInv, RemindersTypeOK
  <2> QED
    BY <1>8, <2>3, <2>4, <2>5, AccountKept DEF RemindersInv
<1>11. LateAccounted'
  <2> SUFFICES ASSUME NEW u \in Participants
               PROVE  /\ u \notin completed' => late'[u] = 0
                      /\ late'[u] <= Cardinality(Processes \ Committed(u)')
    BY DEF LateAccounted
  <2>1. /\ u \notin completed => late[u] = 0
        /\ late[u] <= Cardinality(Processes \ Committed(u))
        /\ late[u] \in Nat /\ late'[u] = late[u] /\ completed' = completed
    BY <1>2 DEF RemindersInv, LateAccounted, RemindersTypeOK
  <2>2. Committed(u)' \subseteq Committed(u)
    BY <1>1, <1>5, <1>6, <1>7 DEF Committed
  <2> QED
    BY <2>1, <2>2, LateKept
<1> QED
  BY <1>8, <1>9, <1>10, <1>11 DEF RemindersInv

\* The reminder that arrives uses up the turn of the sweep that sends it, or is
\* the fault's; if its reader is done, the sweep had looked before.
LEMMA SendRemindersInv ==
  ASSUME RemindersInv, NEW p \in Processes, NEW result \in {"ok", "refused", "cutOff"}, Send(p, result)
  PROVE  RemindersInv'
<1> DEFINE r == sweep[p].next
           x == [sweep[p] EXCEPT !.pc = "record", !.delivered = (result = "ok")]
<1>1. /\ sweep[p].pc = "send"
      /\ sweep' = [sweep EXCEPT ![p].pc = "record", ![p].delivered = (result = "ok")]
      /\ UNCHANGED <<today, individual, assigned, reachable, completed, rows, changes>>
  BY DEF Send
<1>2. sweep[p] \in Sweep /\ sweep \in [Processes -> Sweep]
  BY DEF RemindersInv, RemindersTypeOK
<1>3. Proper(r) /\ sweep[p].loaded /\ KeyOf(r) \notin sweep[p].keys
  BY <1>1 DEF RemindersInv, HandInv
<1>4. sweep' = [sweep EXCEPT ![p] = x]
  BY <1>1, <1>2
<1>5. /\ x \in Sweep
      /\ x.pc = "record" /\ x.delivered = (result = "ok")
      /\ x.next = r /\ x.keys = sweep[p].keys /\ x.loaded = sweep[p].loaded
  BY <1>2 DEF Sweep
<1>6. KeyOf(r) \in Key /\ AsRead(r) = KeyOf(r) /\ r.user \in Participants
  BY <1>3, KeyIsAsRead DEF Proper, Reminder
<1> HIDE DEF r, x
<1>7. /\ sweep' \in [Processes -> Sweep]
      /\ sweep'[p] = x
      /\ \A q \in Processes : q # p => sweep'[q] = sweep[q]
  BY <1>4, <1>5, GivenIs DEF Given, RemindersInv
<1>8. /\ mails \in [Key -> Nat] /\ late \in [Participants -> Nat] /\ faults \in 0 .. MaxFaults
      /\ MaxFaults \in Nat
  BY RemindersAssumption DEF RemindersInv, RemindersTypeOK
<1>9. \/ result = "ok" /\ faults' = faults
      \/ result # "ok" /\ faults' = faults + 1 /\ faults < MaxFaults
  BY <1>8 DEF Send
<1>10. \/ result = "refused" /\ mails' = mails /\ late' = late
       \/ /\ result # "refused"
          /\ mails' = [mails EXCEPT ![KeyOf(r)] = mails[KeyOf(r)] + 1]
          /\ late' = IF r.user \in completed THEN [late EXCEPT ![r.user] = late[r.user] + 1] ELSE late
  BY <1>6 DEF Send, Arrives, r
<1>11. /\ mails' \in [Key -> Nat] /\ late' \in [Participants -> Nat] /\ faults' \in 0 .. MaxFaults
  BY <1>6, <1>8, <1>9, <1>10
<1>12. RemindersTypeOK'
  BY <1>1, <1>7, <1>11 DEF RemindersInv, RemindersTypeOK
<1>13. HandInv'
  BY <1>3, <1>5, <1>7 DEF RemindersInv, HandInv
<1>14. MailsAccounted'
  <2> SUFFICES ASSUME NEW k \in Key PROVE mails'[k] <= Cardinality(Spent(k)') + faults'
    BY DEF MailsAccounted
  <2>1. p \notin Unrecorded(k) /\ (p \in Unrecorded(k)' <=> result = "ok" /\ KeyOf(r) = k)
    BY <1>1, <1>5, <1>7 DEF Unrecorded
  <2>2. \A q \in Processes : q # p => (q \in Unrecorded(k)' <=> q \in Unrecorded(k))
    BY <1>7 DEF Unrecorded
  <2>3. \A q \in Processes : Unaware(q, k)' => Unaware(q, k)
    BY <1>5, <1>7, <2>1, <2>2 DEF Unaware
  <2>4. Unrecorded(k) \subseteq Unrecorded(k)'
    BY <2>1, <2>2 DEF Unrecorded
  <2>5. Spent(k) \subseteq Spent(k)'
    BY <1>1, <2>3, <2>4 DEF Spent
  <2>6. mails[k] <= Cardinality(Spent(k)) + faults
    BY DEF RemindersInv, MailsAccounted
  <2>7. CASE result = "ok" /\ KeyOf(r) = k
    <3>1. p \notin Spent(k)
      BY <1>3, <2>1, <2>7 DEF Spent, Unaware
    <3>2. p \in Spent(k)'
      BY <2>1, <2>7 DEF Spent, Unaware
    <3>3. mails'[k] = mails[k] + 1 /\ faults' = faults
      BY <1>8, <1>9, <1>10, <2>7
    <3> QED
      BY <1>12, <2>5, <2>6, <3>1, <3>2, <3>3, AccountKept DEF RemindersInv
  <2>8. CASE result = "ok" /\ KeyOf(r) # k
    <3>1. mails'[k] = mails[k] /\ faults <= faults'
      BY <1>6, <1>8, <1>9, <1>10, <2>8
    <3> QED
      BY <1>12, <2>5, <2>6, <3>1, AccountKept DEF RemindersInv
  <2>9. CASE result # "ok"
    <3>1. mails'[k] <= mails[k] + 1 /\ faults' = faults + 1
      BY <1>6, <1>8, <1>9, <1>10, <2>9
    <3> QED
      BY <1>12, <2>5, <2>6, <3>1, AccountKept DEF RemindersInv
  <2> QED
    BY <2>7, <2>8, <2>9
<1>15. LateAccounted'
  <2> SUFFICES ASSUME NEW u \in Participants
               PROVE  /\ u \notin completed => late'[u] = 0
                      /\ late'[u] <= Cardinality(Processes \ Committed(u)')
    BY <1>1 DEF LateAccounted
  <2>1. /\ u \notin completed => late[u] = 0
        /\ late[u] <= Cardinality(Processes \ Committed(u))
        /\ late[u] \in Nat /\ late'[u] \in Nat
    BY <1>8, <1>11 DEF RemindersInv, LateAccounted
  <2>2. Committed(u)' \subseteq Committed(u) \ {p}
    BY <1>5, <1>7 DEF Committed
  <2>3. CASE late'[u] = late[u]
    BY <2>1, <2>2, <2>3, LateKept
  <2>4. CASE late'[u] # late[u]
    <3>1. u = r.user /\ u \in completed /\ late'[u] = late[u] + 1
      BY <1>6, <1>8, <1>10, <2>4
    <3>2. p \in Committed(u)
      BY <1>1, <3>1 DEF Committed, r
    <3> QED
      BY <2>1, <2>2, <3>1, <3>2, LateKept
  <2> QED
    BY <2>3, <2>4
<1> QED
  BY <1>12, <1>13, <1>14, <1>15 DEF RemindersInv

LEMMA RecordRemindersInv == ASSUME RemindersInv, NEW p \in Processes, Record(p) PROVE RemindersInv'
<1> DEFINE r == sweep[p].next
           sent == IF sweep[p].delivered THEN {KeyOf(r)} ELSE {}
           x == [sweep[p] EXCEPT !.pc = "check", !.next = Nil, !.delivered = FALSE,
                                 !.keys = sweep[p].keys \cup sent]
<1>1. /\ sweep[p].pc = "record"
      /\ rows' = rows \cup sent
      /\ sweep' = [sweep EXCEPT ![p].pc = "check", ![p].next = Nil, ![p].delivered = FALSE,
                                ![p].keys = @ \cup sent]
      /\ UNCHANGED <<today, individual, assigned, reachable, completed, mails, late, changes, faults>>
  BY DEF Record
<1>2. sweep[p] \in Sweep /\ sweep \in [Processes -> Sweep]
  BY DEF RemindersInv, RemindersTypeOK
<1>3. Proper(r) /\ sweep[p].loaded
  BY <1>1 DEF RemindersInv, HandInv
<1>4. sweep' = [sweep EXCEPT ![p] = x]
  BY <1>1, <1>2
<1>5. sent \in SUBSET Key
  BY <1>3, KeyIsAsRead
<1>6. \A k : k \in sent <=> sweep[p].delivered /\ KeyOf(r) = k
  BY <1>2 DEF Sweep
<1> HIDE DEF sent
<1>7. /\ x \in Sweep
      /\ x.pc = "check" /\ x.loaded = sweep[p].loaded /\ x.keys = sweep[p].keys \cup sent
  BY <1>2, <1>5 DEF Sweep
<1> HIDE DEF x
<1>8. /\ sweep' \in [Processes -> Sweep]
      /\ sweep'[p] = x
      /\ \A q \in Processes : q # p => sweep'[q] = sweep[q]
  BY <1>4, <1>7, GivenIs DEF Given, RemindersInv
<1>9. RemindersTypeOK'
  BY <1>1, <1>5, <1>8 DEF RemindersInv, RemindersTypeOK
<1>10. HandInv'
  BY <1>7, <1>8 DEF RemindersInv, HandInv
<1>11. MailsAccounted'
  <2> SUFFICES ASSUME NEW k \in Key PROVE mails'[k] <= Cardinality(Spent(k)') + faults'
    BY DEF MailsAccounted
  <2>1. p \notin Unrecorded(k)' /\ (p \in Unrecorded(k) <=> k \in sent)
    BY <1>1, <1>6, <1>7, <1>8 DEF Unrecorded
  <2>2. \A q \in Processes : q # p => (q \in Unrecorded(k)' <=> q \in Unrecorded(k))
    BY <1>8 DEF Unrecorded
  <2>3. \A q \in Processes : Unaware(q, k)' => Unaware(q, k)
    BY <1>7, <1>8, <2>1, <2>2 DEF Unaware
  <2>4. \A q \in Unrecorded(k) : q \in Processes /\ ~Unaware(q, k)
    BY DEF Unrecorded, Unaware
  <2>5. k \in sent \/ Unrecorded(k)' = Unrecorded(k)
    BY <2>1, <2>2 DEF Unrecorded
  <2>6. Spent(k) \subseteq Spent(k)'
    BY <1>1, <2>3, <2>4, <2>5 DEF Spent
  <2>7. mails[k] <= Cardinality(Spent(k)) + faults
    BY DEF RemindersInv, MailsAccounted
  <2>8. mails'[k] = mails[k] /\ faults <= faults'
    BY <1>1 DEF RemindersInv, RemindersTypeOK
  <2> QED
    BY <1>9, <2>6, <2>7, <2>8, AccountKept DEF RemindersInv
<1>12. LateAccounted'
  <2> SUFFICES ASSUME NEW u \in Participants
               PROVE  /\ u \notin completed' => late'[u] = 0
                      /\ late'[u] <= Cardinality(Processes \ Committed(u)')
    BY DEF LateAccounted
  <2>1. /\ u \notin completed => late[u] = 0
        /\ late[u] <= Cardinality(Processes \ Committed(u))
        /\ late[u] \in Nat /\ late'[u] = late[u] /\ completed' = completed
    BY <1>1 DEF RemindersInv, LateAccounted, RemindersTypeOK
  <2>2. Committed(u)' \subseteq Committed(u)
    BY <1>7, <1>8 DEF Committed
  <2> QED
    BY <2>1, <2>2, LateKept
<1> QED
  BY <1>9, <1>10, <1>11, <1>12 DEF RemindersInv

\* What is lost with a sweep that has sent and not recorded is the fault's.
LEMMA BreakOffRemindersInv == ASSUME RemindersInv, NEW p \in Processes, BreakOff(p) PROVE RemindersInv'
<1>1. /\ faults < MaxFaults /\ faults' = faults + 1
      /\ sweep' = [sweep EXCEPT ![p] = NoSweep]
      /\ UNCHANGED <<today, individual, assigned, reachable, completed, rows, mails, late, changes>>
  BY DEF BreakOff
<1>2. NoSweep.pc = "idle" /\ ~NoSweep.loaded
  BY DEF NoSweep
<1>3. /\ sweep' \in [Processes -> Sweep]
      /\ sweep'[p] = NoSweep
      /\ \A q \in Processes : q # p => sweep'[q] = sweep[q]
  BY <1>1, NoSweepTyped, GivenIs DEF Given, RemindersInv
<1>4. RemindersTypeOK'
  BY <1>1, <1>3, RemindersAssumption DEF RemindersInv, RemindersTypeOK
<1>5. HandInv'
  BY <1>2, <1>3 DEF RemindersInv, HandInv
<1>6. MailsAccounted'
  <2> SUFFICES ASSUME NEW k \in Key PROVE mails'[k] <= Cardinality(Spent(k)') + faults'
    BY DEF MailsAccounted
  <2>1. \A q \in Processes : q # p => (q \in Unrecorded(k)' <=> q \in Unrecorded(k))
    BY <1>3 DEF Unrecorded
  <2>2. \A q \in Processes : Unaware(q, k)' => Unaware(q, k)
    BY <1>2, <1>3, <2>1 DEF Unaware
  <2>3. Unrecorded(k) \ {p} \subseteq Unrecorded(k)'
    BY <2>1 DEF Unrecorded
  <2>4. Spent(k) \ {p} \subseteq Spent(k)'
    BY <1>1, <2>2, <2>3 DEF Spent
  <2>5. mails[k] <= Cardinality(Spent(k)) + faults
    BY DEF RemindersInv, MailsAccounted
  <2> QED
    BY <1>1, <1>4, <2>4, <2>5, AccountKept DEF RemindersInv
<1>7. LateAccounted'
  <2> SUFFICES ASSUME NEW u \in Participants
               PROVE  /\ u \notin completed' => late'[u] = 0
                      /\ late'[u] <= Cardinality(Processes \ Committed(u)')
    BY DEF LateAccounted
  <2>1. /\ u \notin completed => late[u] = 0
        /\ late[u] <= Cardinality(Processes \ Committed(u))
        /\ late[u] \in Nat /\ late'[u] = late[u] /\ completed' = completed
    BY <1>1 DEF RemindersInv, LateAccounted, RemindersTypeOK
  <2>2. Committed(u)' \subseteq Committed(u)
    BY <1>2, <1>3 DEF Committed
  <2> QED
    BY <2>1, <2>2, LateKept
<1> QED
  BY <1>4, <1>5, <1>6, <1>7 DEF RemindersInv

\* What others do touches no sweep, and who is done stays done.
LEMMA OthersRemindersInv == ASSUME RemindersInv, Others \/ UNCHANGED remindersVars PROVE RemindersInv'
<1>1. UNCHANGED <<sweep, rows, mails, late, faults>> /\ completed \subseteq completed'
  BY DEF Others, NextDay, SetReachable, Complete, SetIndividual, SetClass, remindersVars
<1>2. RemindersTypeOK'
  <2>1. today' \in Days
    BY RemindersAssumption DEF Others, NextDay, SetReachable, Complete, SetIndividual, SetClass, remindersVars,
       RemindersInv, RemindersTypeOK, Days
  <2>2. individual' \in [Participants -> Deadline] /\ assigned' \in [Classes -> Deadline]
    BY DEF Others, NextDay, SetReachable, Complete, SetIndividual, SetClass, remindersVars,
       RemindersInv, RemindersTypeOK
  <2>3. reachable' \in BOOLEAN
    BY DEF Others, NextDay, SetReachable, Complete, SetIndividual, SetClass, remindersVars,
       RemindersInv, RemindersTypeOK
  <2>4. completed' \subseteq Participants
    BY DEF Others, NextDay, SetReachable, Complete, SetIndividual, SetClass, remindersVars,
       RemindersInv, RemindersTypeOK
  <2>5. changes' \in 0 .. MaxChanges
    BY RemindersAssumption DEF Others, NextDay, SetReachable, Complete, SetIndividual, SetClass, remindersVars,
       RemindersInv, RemindersTypeOK
  <2> QED
    BY <1>1, <2>1, <2>2, <2>3, <2>4, <2>5 DEF RemindersInv, RemindersTypeOK
<1>3. HandInv' /\ MailsAccounted'
  BY <1>1 DEF RemindersInv, HandInv, MailsAccounted, Spent, Unaware, Unrecorded
<1>4. LateAccounted'
  BY <1>1 DEF RemindersInv, LateAccounted, Committed
<1> QED
  BY <1>2, <1>3, <1>4 DEF RemindersInv

LEMMA RemindersStepInv == RemindersInv /\ [RemindersNext]_remindersVars => RemindersInv'
BY StartRemindersInv, ReadIndividualRemindersInv, ReadClassesRemindersInv, ConsiderRemindersInv,
   DedupRemindersInv, SendRemindersInv, RecordRemindersInv, FinishRemindersInv, BreakOffRemindersInv,
   OthersRemindersInv
DEF RemindersNext, SweepSteps

LEMMA RemindersInvariant == RemindersSpec => []RemindersInv
BY RemindersInitInv, RemindersStepInv, PTL DEF RemindersSpec

----------------------------------------------------------------------------
(* What is promised of reminders *)

\* Every variable of the reminders keeps its type: a sweep carries reminders of
\* days that pass and offsets that are configured, rows hold the keys of such.
THEOREM RemindersTypeCorrect == RemindersSpec => []RemindersTypeOK
BY RemindersInvariant, PTL DEF RemindersInv

\* However many processes sweep, deadlines change and sweeps are broken off:
\* a reminder arrives once for each process and once for each fault at most.
THEOREM RemindersArriveOnce == RemindersSpec => []RemindedOnce
<1>1. RemindersInv => RemindedOnce
  <2> SUFFICES ASSUME RemindersInv, NEW k \in Key PROVE mails[k] <= Cardinality(Processes) + faults
    BY DEF RemindedOnce
  <2>1. mails[k] <= Cardinality(Spent(k)) + faults /\ mails[k] \in Nat /\ faults \in Nat
    BY RemindersAssumption DEF RemindersInv, MailsAccounted, RemindersTypeOK
  <2> QED
    BY <2>1, SpentFinite
<1> QED
  BY <1>1, RemindersInvariant, PTL

\* Whoever has completed the course gets one more reminder from each process at
\* most, from the sweep that had looked before.
THEOREM DoneParticipantsAreLeftAlone == RemindersSpec => []DoneIsLeftAlone
<1>1. RemindersInv => DoneIsLeftAlone
  <2> SUFFICES ASSUME RemindersInv, NEW u \in Participants PROVE late[u] <= Cardinality(Processes)
    BY DEF DoneIsLeftAlone
  <2>1. late[u] <= Cardinality(Processes \ Committed(u)) /\ late[u] \in Nat
    BY DEF RemindersInv, LateAccounted, RemindersTypeOK
  <2>2. /\ Cardinality(Processes \ Committed(u)) <= Cardinality(Processes)
        /\ Cardinality(Processes \ Committed(u)) \in Nat /\ Cardinality(Processes) \in Nat
    BY RemindersAssumption, FS_Subset, FS_CardinalityType
  <2> QED
    BY <2>1, <2>2
<1> QED
  BY <1>1, RemindersInvariant, PTL

----------------------------------------------------------------------------
(* The horizon *)

\* A finite set of numbers that is not empty has a greatest: a smallest one
\* without would have one without an element of it.
LEMMA GreatestExists ==
  ASSUME NEW S \in SUBSET Nat, IsFiniteSet(S), S # {}
  PROVE  \E m \in S : \A n \in S : m >= n
<1> DEFINE HasGreatest(T) == \E m \in T : \A n \in T : m >= n
           Bad == {T \in SUBSET S : T # {} /\ ~HasGreatest(T)}
           Sizes == {Cardinality(T) : T \in Bad}
           R == OpToRel(<, Nat)
<1>1. \A T \in SUBSET S : IsFiniteSet(T) /\ Cardinality(T) \in Nat
  BY FS_Subset, FS_CardinalityType
<1>2. SUFFICES ASSUME Bad # {} PROVE FALSE
  BY DEF Bad
<1>3. PICK T \in Bad : \A U \in Bad : ~(Cardinality(U) < Cardinality(T))
  <2>1. Sizes \subseteq Nat /\ Sizes # {}
    BY <1>1, <1>2
  <2>2. PICK n \in Sizes : \A m \in Sizes : <<m, n>> \notin R
    <3>1. IsWellFoundedOn(R, Nat)
      BY NatLessThanWellFounded
    <3> HIDE DEF R, Sizes
    <3> QED
      BY <2>1, <3>1, WFMin
  <2>3. \A m \in Sizes : ~(m < n)
    <3> SUFFICES ASSUME NEW m \in Sizes, m < n PROVE FALSE
      OBVIOUS
    <3>1. m \in Nat /\ n \in Nat
      BY <2>1
    <3> HIDE DEF Sizes
    <3> QED
      BY <2>2, <3>1 DEF OpToRel
  <2> HIDE DEF Bad
  <2> QED
    BY <2>3
<1>4. T \in SUBSET S /\ T # {} /\ ~HasGreatest(T)
  OBVIOUS
<1>5. PICK x \in T : x \in Nat
  BY <1>4
<1> DEFINE U == T \ {x}
<1>6. Cardinality(U) = Cardinality(T) - 1 /\ Cardinality(T) \in Nat
  BY <1>1, <1>4, FS_RemoveElement
<1>7. U \notin Bad
  <2> HIDE DEF U, Bad
  <2> QED
    BY <1>3, <1>6
<1>8. U = {} \/ HasGreatest(U)
  BY <1>4, <1>7
<1>9. CASE U = {}
  <2>1. \A n \in T : n = x
    BY <1>9
  <2> QED
    BY <1>4, <1>5, <2>1
<1>10. ASSUME NEW m \in U, \A n \in U : m >= n
       PROVE  FALSE
  <2>1. m \in Nat /\ x \in Nat /\ m \in T /\ \A n \in T : n = x \/ m >= n
    BY <1>4, <1>5, <1>10
  <2>2. CASE m >= x
    BY <1>4, <2>1, <2>2
  <2>3. CASE x > m
    <3>1. \A n \in T : n \in Nat /\ x >= n
      BY <1>4, <2>1, <2>3
    <3> QED
      BY <1>4, <3>1
  <2> QED
    BY <2>1, <2>2, <2>3
<1> QED
  BY <1>8, <1>9, <1>10

\* #798: the bound on what a sweep reads leaves out no deadline that calls for
\* a reminder that day, be it past or one of the configured days ahead.
THEOREM HorizonMissesNothing ==
  ASSUME NEW c \in Candidate, NEW asOf \in Days, Triggered(c, asOf) # {}
  PROVE  InHorizon(c.due, asOf)
<1> DEFINE S == Offsets \cup {0}
<1>1. S \in SUBSET Nat /\ IsFiniteSet(S) /\ S # {}
  BY RemindersAssumption, FS_AddElement
<1>2. Max(S) \in S /\ \A n \in S : Max(S) >= n
  <2> HIDE DEF S
  <2>1. \E m \in S : \A n \in S : m >= n
    BY <1>1, GreatestExists
  <2> QED
    BY <2>1 DEF Max
<1>3. c.due < asOf \/ \E m \in Offsets : asOf + m = c.due
  BY DEF Triggered
<1>4. PICK max : max = Max(S)
  OBVIOUS
<1>5. max \in Nat /\ \A n \in Offsets : max >= n /\ n \in Nat
  BY <1>1, <1>2, <1>4
<1> HIDE DEF S
<1>6. c.due \in Nat /\ asOf \in Nat
  BY RemindersAssumption DEF Candidate, Days
<1>7. c.due <= asOf + max + 1
  <2>1. CASE c.due < asOf
    BY <1>5, <1>6, <2>1
  <2>2. CASE \E m \in Offsets : asOf + m = c.due
    BY <1>5, <1>6, <2>2
  <2> QED
    BY <1>3, <2>1, <2>2
<1> QED
  BY <1>4, <1>7 DEF InHorizon, S
============================================================================
