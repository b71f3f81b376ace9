\* Three versions, crashes, restarts and a disk that comes and goes.
SPECIFICATION FairSpec
CONSTANTS
    RetryInterval = 2
    MaxVersion = 3
INVARIANT TypeOK
PROPERTIES RecoversAfterInterval BackwardsOnlyIfReplaced PendingIsRetried
