---------------------------- MODULE CourseReminders ----------------------------
(***************************************************************************)
(* The reminders of one course's deadlines: a sweep in every worker        *)
(* process reads the deadlines, mails those who are due and leaves an      *)
(* audit row of every mail, by which later sweeps know what was sent.      *)
(*                                                                         *)
(* Deadlines are midnights, so a day stands for one.  A participant is     *)
(* active throughout; classes keep their members.                          *)
(***************************************************************************)
EXTENDS Integers, FiniteSets, FiniteSetsExt

CONSTANTS
    Participants, Classes,
    Members,       \* ClassMember, or everybody for the system class
    Processes,     \* workers, each with a CourseReminderMonitor
    Offsets,       \* courseReminders.reminderDaysBefore
    LastDay,       \* bound: the days that pass
    MaxChanges,    \* bound: changes of deadlines and of the course
    MaxFaults,     \* bound: mails refused or cut off, runs broken off
    Nil            \* no deadline, no reminder

Days == 0 .. LastDay

VARIABLES
    today,
    individual,    \* dueAt of a participant's enrolment, Nil if there is none or it is revoked
    assigned,      \* dueAt of the course's assignment to a class
    reachable,     \* the course is published and not archived
    completed,     \* who has a CourseCompletion
    sweep,         \* the runCourseReminderSchedule each process is in
    rows,          \* course_reminder_sent audit rows, by their keys
    mails,         \* how often each reminder arrived
    late,          \* how many reminders a participant got who was done when they were sent
    changes, faults

remindersVars == <<today, individual, assigned, reachable, completed, sweep, rows,
                   mails, late, changes, faults>>

Deadline == Days \cup {Nil}
Kind == {"overdue", "due_soon"}
Key == [user : Participants, kind : Kind, days : Offsets \cup {Nil}, asOf : Deadline]
Reminder == [user : Participants, kind : Kind, days : Offsets \cup {Nil}, asOf : Days]
Candidate == [user : Participants, due : Days, source : {"individual", "class"}]

\* found: candidates still to be looked at.  next: the reminder about to be
\* sent.  keys: sentKeysByCourse, once it is loaded.
Sweep == [pc : {"idle", "individual", "classes", "check", "dedup", "send", "record"}, asOf : Days,
          found : SUBSET Candidate, next : Reminder \cup {Nil},
          keys : SUBSET Key, loaded : BOOLEAN, delivered : BOOLEAN]

NoSweep == [pc |-> "idle", asOf |-> 0, found |-> {}, next |-> Nil,
            keys |-> {}, loaded |-> FALSE, delivered |-> FALSE]

ASSUME RemindersAssumption ==
    /\ Members \in [Classes -> SUBSET Participants]
    /\ IsFiniteSet(Processes)
    /\ Offsets \subseteq Nat /\ IsFiniteSet(Offsets)
    /\ LastDay \in Nat /\ MaxChanges \in Nat /\ MaxFaults \in Nat
    /\ Nil \notin Int

------------------------------------------------------------------------------
\* Mutants of the definitions below, one plausible bug each.
FromToday(due, asOf) == due >= asOf /\ due <= asOf + Max(Offsets \cup {0}) + 1
DatedKey(r) == r
AnybodysKey(r) == [kind |-> r.kind, days |-> r.days, asOf |-> r.asOf]
DoneBefore(u) == FALSE

\* upperBound (#798): what a sweep reads.
InHorizon(due, asOf) == due <= asOf + Max(Offsets \cup {0}) + 1

\* reminderDedupKey: an overdue reminder is sent once, one that is due soon
\* once for its day.
KeyOf(r) == IF r.kind = "overdue" THEN [r EXCEPT !.asOf = Nil] ELSE r

\* deriveStatus is COMPLETED.
IsDone(u) == u \in completed

Read(due, asOf) == due # Nil /\ InHorizon(due, asOf)

\* The deadlines of the classes u is in, of those read.
ClassDeadlines(u, asOf) ==
    {assigned[c] : c \in {k \in Classes : u \in Members[k] /\ Read(assigned[k], asOf)}}

\* What a candidate's deadline calls for on the day of the sweep.
Triggered(c, asOf) ==
    IF c.due < asOf
    THEN {[user |-> c.user, kind |-> "overdue", days |-> Nil, asOf |-> asOf]}
    ELSE {[user |-> c.user, kind |-> "due_soon", days |-> n, asOf |-> asOf] :
              n \in {m \in Offsets : asOf + m = c.due}}

OnlySweep == UNCHANGED <<today, individual, assigned, reachable, completed, rows,
                         mails, late, changes, faults>>

------------------------------------------------------------------------------
RemindersInit ==
    /\ today = 0
    /\ individual \in [Participants -> Deadline]
    /\ assigned \in [Classes -> Deadline]
    /\ reachable = TRUE
    /\ completed = {}
    /\ sweep = [p \in Processes |-> NoSweep]
    /\ rows = {}
    /\ mails = [k \in Key |-> 0] /\ late = [u \in Participants |-> 0]
    /\ changes = 0 /\ faults = 0

\* tick, and the head of runCourseReminderSchedule: one sweep at a time in a
\* process, and the keys are forgotten.
Start(p) ==
    /\ sweep[p].pc = "idle"
    /\ sweep' = [sweep EXCEPT ![p] = [NoSweep EXCEPT !.pc = "individual", !.asOf = today]]
    /\ OnlySweep

ReadIndividual(p) ==
    /\ sweep[p].pc = "individual"
    /\ LET asOf == sweep[p].asOf
           read == {u \in Participants : reachable /\ Read(individual[u], asOf)}
       IN  sweep' = [sweep EXCEPT ![p].pc = "classes",
                         ![p].found = {[user |-> u, due |-> individual[u], source |-> "individual"] : u \in read}]
    /\ OnlySweep

\* An individual deadline found before wins; of several classes the earliest does.
ReadClasses(p) ==
    /\ sweep[p].pc = "classes"
    /\ LET asOf == sweep[p].asOf
           new == {u \in Participants : reachable /\ ClassDeadlines(u, asOf) # {}} \ {c.user : c \in sweep[p].found}
       IN  sweep' = [sweep EXCEPT ![p].pc = "check",
                         ![p].found = @ \cup {[user |-> u, due |-> Min(ClassDeadlines(u, asOf)), source |-> "class"] : u \in new}]
    /\ OnlySweep

\* A candidate who is done, or whose deadline calls for nothing, is passed over.
Consider(p) ==
    /\ sweep[p].pc = "check"
    /\ \E c \in sweep[p].found :
           LET due == IF IsDone(c.user) THEN {} ELSE Triggered(c, sweep[p].asOf)
           IN  sweep' = [sweep EXCEPT
                   ![p].pc = IF due = {} THEN "check" ELSE "dedup",
                   ![p].found = @ \ {c},
                   ![p].next = IF due = {} THEN Nil ELSE CHOOSE r \in due : TRUE]
    /\ OnlySweep

\* The rows are read once in a sweep.
Dedup(p) ==
    /\ sweep[p].pc = "dedup"
    /\ LET keys == IF sweep[p].loaded THEN sweep[p].keys ELSE rows
           again == KeyOf(sweep[p].next) \in keys
       IN  sweep' = [sweep EXCEPT ![p].keys = keys, ![p].loaded = TRUE,
                                  ![p].pc = IF again THEN "check" ELSE "send",
                                  ![p].next = IF again THEN Nil ELSE @]
    /\ OnlySweep

\* What its reader takes for the same reminder: that a deadline is past is one
\* however often it is said, that one is near is one on each day.
Overdue(u) == [user |-> u, kind |-> "overdue", days |-> Nil, asOf |-> Nil]
AsRead(r) == IF r.kind = "overdue" THEN Overdue(r.user) ELSE r

Arrives(r) ==
    /\ mails' = [mails EXCEPT ![AsRead(r)] = @ + 1]
    /\ late' = IF r.user \in completed THEN [late EXCEPT ![r.user] = @ + 1] ELSE late

\* A refused send does not arrive; one that was cut off did, and reports a failure.
Send(p, result) ==
    /\ sweep[p].pc = "send"
    /\ result = "ok" \/ faults < MaxFaults
    /\ sweep' = [sweep EXCEPT ![p].pc = "record", ![p].delivered = (result = "ok")]
    /\ IF result = "refused" THEN UNCHANGED <<mails, late>> ELSE Arrives(sweep[p].next)
    /\ faults' = faults + (IF result = "ok" THEN 0 ELSE 1)
    /\ UNCHANGED <<today, individual, assigned, reachable, completed, rows, changes>>

\* A delivered reminder leaves a course_reminder_sent row; a failed one leaves
\* a row no sweep reads.
Record(p) ==
    /\ sweep[p].pc = "record"
    /\ LET sent == IF sweep[p].delivered THEN {KeyOf(sweep[p].next)} ELSE {}
       IN  /\ rows' = rows \cup sent
           /\ sweep' = [sweep EXCEPT ![p].pc = "check", ![p].next = Nil, ![p].delivered = FALSE,
                                     ![p].keys = @ \cup sent]
    /\ UNCHANGED <<today, individual, assigned, reachable, completed, mails, late, changes, faults>>

Finish(p) ==
    /\ sweep[p].pc = "check" /\ sweep[p].found = {}
    /\ sweep' = [sweep EXCEPT ![p] = NoSweep]
    /\ OnlySweep

\* A statement throws and the tick swallows the error, or the process is lost.
BreakOff(p) ==
    /\ sweep[p].pc # "idle" /\ faults < MaxFaults
    /\ faults' = faults + 1
    /\ sweep' = [sweep EXCEPT ![p] = NoSweep]
    /\ UNCHANGED <<today, individual, assigned, reachable, completed, rows, mails, late, changes>>

------------------------------------------------------------------------------
\* What others do meanwhile.
NextDay ==
    /\ today < LastDay
    /\ today' = today + 1
    /\ UNCHANGED <<individual, assigned, reachable, completed, sweep, rows, mails, late, changes, faults>>

\* assignEnrollments; without a deadline also selfEnroll, which overwrites what
\* was assigned, and revokeEnrollment.
SetIndividual(u, due) ==
    /\ changes < MaxChanges /\ changes' = changes + 1
    /\ individual' = [individual EXCEPT ![u] = due]
    /\ UNCHANGED <<today, assigned, reachable, completed, sweep, rows, mails, late, faults>>

\* assignCourseToClass; without a deadline also unassignCourseFromClass and
\* the archiving of a class.
SetClass(c, due) ==
    /\ changes < MaxChanges /\ changes' = changes + 1
    /\ assigned' = [assigned EXCEPT ![c] = due]
    /\ UNCHANGED <<today, individual, reachable, completed, sweep, rows, mails, late, faults>>

\* The course is unpublished or published again.
SetReachable ==
    /\ changes < MaxChanges /\ changes' = changes + 1
    /\ reachable' = ~reachable
    /\ UNCHANGED <<today, individual, assigned, completed, sweep, rows, mails, late, faults>>

Complete(u) ==
    /\ u \notin completed
    /\ completed' = completed \cup {u}
    /\ UNCHANGED <<today, individual, assigned, reachable, sweep, rows, mails, late, changes, faults>>

SweepSteps(p) ==
    \/ ReadIndividual(p) \/ ReadClasses(p) \/ Consider(p) \/ Dedup(p)
    \/ \E result \in {"ok", "refused", "cutOff"} : Send(p, result)
    \/ Record(p) \/ Finish(p)

Others ==
    \/ NextDay \/ SetReachable
    \/ \E u \in Participants : Complete(u) \/ \E due \in Deadline : SetIndividual(u, due)
    \/ \E c \in Classes, due \in Deadline : SetClass(c, due)

RemindersNext == Others \/ \E p \in Processes : Start(p) \/ SweepSteps(p) \/ BreakOff(p)

RemindersSpec == RemindersInit /\ [][RemindersNext]_remindersVars

\* The timer ticks, and a sweep takes its next statement unless it is broken off.
RemindersFairness == \A p \in Processes : WF_remindersVars(Start(p)) /\ WF_remindersVars(SweepSteps(p))

RemindersFairSpec == RemindersSpec /\ RemindersFairness

------------------------------------------------------------------------------
\* Every variable has its type.
RemindersTypeOK ==
    /\ today \in Days
    /\ individual \in [Participants -> Deadline] /\ assigned \in [Classes -> Deadline]
    /\ reachable \in BOOLEAN /\ completed \subseteq Participants
    /\ sweep \in [Processes -> Sweep]
    /\ rows \subseteq Key
    /\ mails \in [Key -> Nat] /\ late \in [Participants -> Nat]
    /\ changes \in 0 .. MaxChanges /\ faults \in 0 .. MaxFaults

\* The same reminder reaches nobody twice, but once more for every further
\* process that sweeps and for every fault: an overdue one as long as the
\* course lasts, one that is due soon within its day.
RemindedOnce == \A k \in Key : mails[k] <= Cardinality(Processes) + faults

\* Whoever is done is reminded once more at most by each process: by the sweep
\* that had looked before.
DoneIsLeftAlone == \A u \in Participants : late[u] <= Cardinality(Processes)

\* The deadline that counts: the individual one, else the earliest of the classes.
Effective(u) ==
    LET classes == {assigned[c] : c \in {k \in Classes : u \in Members[k]}} \ {Nil}
    IN  IF individual[u] # Nil THEN individual[u]
        ELSE IF classes # {} THEN Min(classes) ELSE Nil

IsOverdue(u) == reachable /\ u \notin completed /\ Effective(u) # Nil /\ Effective(u) < today

\* Whoever is past the deadline that counts is told, unless the course is
\* completed, or deadline or course are changed, before a sweep comes by.
OverdueIsTold ==
    \A u \in Participants :
        IsOverdue(u) ~> (~IsOverdue(u) \/ mails[Overdue(u)] > 0)

\* While nobody changes a deadline, no sweep goes by that of a class for a
\* participant who has an individual one (courseReminderService.ts).
IndividualWins ==
    changes = 0 =>
        \A p \in Processes : \A c \in sweep[p].found : c.source = "class" => individual[c.user] = Nil
==============================================================================
