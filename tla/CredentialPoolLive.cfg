\* Three requests on one credential that is removed and registered again.
SPECIFICATION FairSpec
CONSTANTS
    r1 = r1
    r2 = r2
    r3 = r3
    c1 = c1
    c2 = c2
    Request = {r1, r2, r3}
    Credential = {c1}
    MaxConcurrent <- MCMaxConcurrent
    OptimalConcurrent <- MCOptimalConcurrent
    Budget = 2
    Recheck = 1
    CooldownSpan = {1}
    ReAdd = {c1}
    MaxReload = 1
    MaxTime = 2
INVARIANTS
    TypeOK
    SlotsAfterReload
PROPERTY
    RequestsEnd
CHECK_DEADLOCK FALSE
