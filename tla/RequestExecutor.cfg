\* Two credentials, two attempts each; waits below, at and beyond the limits.
SPECIFICATION FairSpec
CONSTANTS
    Credential = {c1, c2}
    NoCredential = NoCredential
    MaxRetries = 2
    QuotaThreshold = 3
    SmallCooldown = 2
    MaxRetryAfter = 2
    RetryAfter = {0, 1, 2, 3}
    TransientDelay = {0, 1}
    ReasoningRetry = FALSE
    Budget = 3
INVARIANTS TypeOK CallsBounded SleepsInTime
PROPERTIES OutcomeIsTrue RequestEnds
CHECK_DEADLOCK FALSE
