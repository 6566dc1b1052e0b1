SPECIFICATION MCSpec
CONSTANTS
    Courses = {c1}
    Modules = {m1}
    Sections = {s1}
    Users = {u1}
    Authors = {a1, a2}
    MaxModuleVersions = 1
    MaxSectionVersions = 2
    None = None
    a1 = a1
    a2 = a2
    c1 = c1
    m1 = m1
    s1 = s1
    u1 = u1
SYMMETRY Symmetry
CONSTRAINT Bounded
INVARIANTS
    ItemsInCirculation
    WholeWhenPublished
    HistoryStands
    EarnedInFull
CHECK_DEADLOCK FALSE
