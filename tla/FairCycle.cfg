\* Three requests, two credentials of one tier, the quota of one of which rounds
\* down to no request; a cycle that begins at 0 expires at 1.
SPECIFICATION Spec
CONSTANTS
    c1 = c1
    c2 = c2
    Request = {r1, r2, r3}
    Credential = {c1, c2}
    Tier <- MCOneTier
    CrossTier = FALSE
    MaxConcurrent <- MCMaxConcurrent
    Limit <- MCLimit
    ThresholdNum = 1
    ThresholdDen = 2
    PerCredential = TRUE
    Duration = 1
    ShortCooldown = 2
    LongCooldown = 2
    CooldownSpan = {1, 2}
    OutageSpan = {2}
    MaxTime = 1
INVARIANTS TypeOK SelectReturns NeverStuck
PROPERTIES SelectedHasQuota EarlyResetOnlyOnRotation
SYMMETRY Symmetry
CHECK_DEADLOCK FALSE
