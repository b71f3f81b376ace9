\* Two requests on two credentials of one slot each, none registered anew.
SPECIFICATION Spec
CONSTANTS
    r1 = r1
    r2 = r2
    r3 = r3
    c1 = c1
    c2 = c2
    Request = {r1, r2}
    Credential = {c1, c2}
    MaxConcurrent <- MCMaxConcurrent
    OptimalConcurrent <- MCOptimalConcurrent
    Budget = 2
    Recheck = 1
    CooldownSpan = {2}
    ReAdd = {}
    MaxReload = 0
    MaxTime = 4
SYMMETRY Symmetry
INVARIANTS
    HardCeiling
    SlotsAccounted
PROPERTIES
    FailFastIsSound
    ImplementsLeasing
CHECK_DEADLOCK FALSE
