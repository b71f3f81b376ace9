\* Updates, flushes, failing disks, shutdowns, crashes and restarts.
SPECIFICATION Spec
CONSTANTS
    RetryInterval = 3
    Debounce = 2
    MaxVersion = 3
INVARIANTS TypeOK StoredInTime CleanIsStored
PROPERTY UsesWriter
