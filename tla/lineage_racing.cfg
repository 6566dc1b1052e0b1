SPECIFICATION HSpec
CONSTANTS
    MaxClock = 4
    Cases <- MCCases2
    Requests = {r1, r2}
    People = {h1, boss}
    Admins = {boss}
    Nobody = Nobody
    r1 = r1
    r2 = r2
    h1 = h1
    boss = boss
SYMMETRY SymRequests
INVARIANTS
    TypeOK
    RulingIsWhole
    LineageRooted
    ParentIsPriorAlone
    NewerPassStandsAlone
PROPERTY
    DeskKept
CHECK_DEADLOCK FALSE
