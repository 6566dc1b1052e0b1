SPECIFICATION RemindersFairSpec
CONSTANTS
    Participants = {u1}
    Classes = {c1, c2}
    Members <- Everybody
    Processes = {p1}
    Offsets = {1}
    LastDay = 3
    MaxChanges = 1
    MaxFaults = 1
    Nil = Nil
INVARIANTS
    RemindersTypeOK
    RemindedOnce
    DoneIsLeftAlone
PROPERTIES
    OverdueIsTold
