\* The same request; replaying output is off, as it is by default.
SPECIFICATION Spec
CONSTANTS
    Credential = {c1, c2}
    NoCredential = NoCredential
    MaxRetries = 2
    QuotaThreshold = 3
    SmallCooldown = 2
    MaxRetryAfter = 2
    RetryAfter = {0, 1, 2, 3}
    TransientDelay = {0, 1}
    ReasoningRetry = FALSE
    Budget = 3
PROPERTIES OutputNotRepeated
CHECK_DEADLOCK FALSE
