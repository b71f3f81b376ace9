\* One credential, refreshed by the queue's processor and by a request, with
\* two rotations of its token and a restart.
SPECIFICATION FairSpec
CONSTANTS
    Credential = {c1}
    Reader = {r1}
    Processor = Processor
    MaxAttempts = 2
    MaxRetries = 2
    MaxToken = 3
    QueueLimit = 1
    MaxCrash = 1
INVARIANTS TypeOK MarkedIsPending InFlightIsNewest FileMatchesMemory
PROPERTY ExpiredIsTried
