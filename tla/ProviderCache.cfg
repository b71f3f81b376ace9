\* Two keys, three values, a disk that fails and recovers, a restart.
SPECIFICATION Spec
CONSTANTS
    Key = {k1, k2}
    MemoryTTL = 1
    DiskTTL = 2
    WriteInterval = 1
    MaxVersion = 3
    MaxTasks = 2
    MaxTime = 3
    MaxRestarts = 1
INVARIANTS TypeOK CleanIsOnDisk
PROPERTIES FileNeverForgets DroppedIsOnDisk
\* The clock stops.
CHECK_DEADLOCK FALSE
