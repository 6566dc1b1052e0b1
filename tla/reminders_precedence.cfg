SPECIFICATION RemindersSpec
CONSTANTS
    Participants = {u1}
    Classes = {c1}
    Members <- Everybody
    Processes = {p1}
    Offsets = {1}
    LastDay = 3
    MaxChanges = 0
    MaxFaults = 0
    Nil = Nil
INVARIANTS
    IndividualWins
