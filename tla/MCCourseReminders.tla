---------------------------- MODULE MCCourseReminders ----------------------------
(***************************************************************************)
(* Instances of CourseReminders for TLC.                                   *)
(***************************************************************************)
EXTENDS CourseReminders

\* Everybody is in every class.
Everybody == [c \in Classes |-> Participants]
==============================================================================
