------------------------------- MODULE ProviderCache -------------------------------
(***************************************************************************)
(* The cache in which providers keep conversation state                    *)
(* (providers/provider_cache.py): entries in memory for a short time and   *)
(* in a file for a longer one, written in the background.                  *)
(*                                                                         *)
(* The cache's two locks are never awaited: what they protect does not     *)
(* suspend.  A step is therefore a whole call, a whole task of the event   *)
(* loop, or one turn of a background loop.  store() and retrieve() only    *)
(* create tasks, which the event loop runs in the order of their creation; *)
(* store_async() and retrieve_async() act at once.  A provider uses one or *)
(* the other pair.  Time passes when nothing is ready to run.              *)
(***************************************************************************)
EXTENDS Integers, Sequences

CONSTANTS
    Key,             \* cache keys
    MemoryTTL,       \* memory_ttl_seconds
    DiskTTL,         \* disk_ttl_seconds
    WriteInterval,   \* write_interval
    MaxVersion,      \* bound: values stored
    MaxTasks,        \* bound: tasks waiting to run
    MaxTime,         \* bound: the clock
    MaxRestarts      \* bound: restarts of the process

ASSUME TTLAssumption == MemoryTTL \in Nat /\ DiskTTL \in Nat /\ WriteInterval \in Nat \ {0}
ASSUME BoundAssumption ==
    MaxVersion \in Nat /\ MaxTasks \in Nat /\ MaxTime \in Nat /\ MaxRestarts \in Nat

VARIABLES
    now,        \* time.time()
    style,      \* which pair of operations the provider uses
    cache,      \* _cache: entries in memory
    file,       \* entries in the cache file
    dirty,      \* _dirty
    tasks,      \* tasks created and not yet run
    running,    \* _running: the background tasks are there
    closing,    \* shutdown() awaits the tasks it has cancelled
    writeAt,    \* when the writer loop wakes up
    disk,       \* what the disk lets the process do
    issued,     \* history: the last value handed to the cache
    trouble,    \* history: when the disk last failed
    restarts

loops  == <<running, closing, writeAt>>
world  == <<disk, trouble, restarts>>
vars   == <<now, style, cache, file, dirty, tasks, loops, world, issued>>

NoEntry == [version |-> 0, at |-> -1]
Entry   == [version: 1 .. MaxVersion, at: 0 .. now]
Task    == [kind: {"store"}, key: Key, version: 1 .. MaxVersion]
            \cup [kind: {"lookup"}, key: Key] \cup [kind: {"init"}]

TypeOK ==
    /\ now \in 0 .. MaxTime
    /\ style \in {"scheduled", "awaited"}
    /\ cache \in [Key -> Entry \cup {NoEntry}]
    /\ file \in [Key -> Entry \cup {NoEntry}]
    /\ dirty \in BOOLEAN
    /\ tasks \in Seq(Task)
    /\ running \in BOOLEAN /\ closing \in BOOLEAN /\ writeAt \in Nat
    /\ disk \in SUBSET {"read", "write"}
    /\ issued \in 0 .. MaxVersion
    /\ trouble \in -1 .. now
    /\ restarts \in 0 .. MaxRestarts

Empty   == [k \in Key |-> NoEntry]
Started == <<[kind |-> "init"]>>

\* A new cache: __init__ creates the task of _async_init.
Init ==
    /\ now = 0
    /\ style \in {"scheduled", "awaited"}
    /\ cache = Empty /\ file = Empty
    /\ dirty = FALSE
    /\ tasks = Started
    /\ running = FALSE /\ closing = FALSE /\ writeAt = 0
    /\ disk = {"read", "write"}
    /\ issued = 0 /\ trouble = -1 /\ restarts = 0
-----------------------------------------------------------------------------------
Expired(e, ttl) == now - e.at > ttl

\* contains(): a retrieve finds the key in memory.
Contains(k) == cache[k] # NoEntry /\ ~Expired(cache[k], MemoryTTL)

\* The file can be read and has an entry that may be used.
OnDisk(k) == "read" \in disk /\ file[k] # NoEntry /\ ~Expired(file[k], DiskTTL)

\* What a save writes: memory, m, takes precedence over what is valid on disk.
MemoryOnly(m) == m \* mutant
Merged(m) ==
    [k \in Key |-> CASE m[k] # NoEntry               -> m[k]
                     [] m[k] = NoEntry /\ OnDisk(k)  -> file[k]
                     [] m[k] = NoEntry /\ ~OnDisk(k) -> NoEntry]

\* _save_to_disk
Save(m) == file' = IF "write" \in disk THEN Merged(m) ELSE file
-----------------------------------------------------------------------------------
(* The operations.                                                         *)

StampedExpiry(v) == [version |-> v, at |-> now + MemoryTTL] \* mutant
Stamped(v) == [version |-> v, at |-> now]

\* _async_store
Put(k, v) ==
    /\ cache' = [cache EXCEPT ![k] = Stamped(v)]
    /\ dirty' = TRUE

Issue == issued < MaxVersion /\ issued' = issued + 1

Store(k) ==
    /\ style = "scheduled" /\ Len(tasks) < MaxTasks
    /\ Issue
    /\ tasks' = Append(tasks, [kind |-> "store", key |-> k, version |-> issued'])
    /\ UNCHANGED <<now, style, cache, file, dirty, loops, world>>

StoreAsync(k) ==
    /\ style = "awaited"
    /\ Issue
    /\ Put(k, issued')
    /\ UNCHANGED <<now, style, file, tasks, loops, world>>

\* What has expired in memory is removed; the file is looked up later.
Retrieve(k) ==
    /\ style = "scheduled" /\ Len(tasks) < MaxTasks
    /\ ~Contains(k)
    /\ cache' = [cache EXCEPT ![k] = NoEntry]
    /\ tasks' = Append(tasks, [kind |-> "lookup", key |-> k])
    /\ UNCHANGED <<now, style, file, dirty, loops, world, issued>>

\* _disk_retrieve follows at once.
RetrieveAsync(k) ==
    /\ style = "awaited"
    /\ ~Contains(k)
    /\ cache' = [cache EXCEPT ![k] = IF OnDisk(k) THEN file[k] ELSE NoEntry]
    /\ UNCHANGED <<now, style, file, dirty, tasks, loops, world, issued>>

\* The file keeps its entries, which the save merges.
Clear ==
    /\ cache' = Empty
    /\ dirty' = TRUE
    /\ Save(Empty)
    /\ UNCHANGED <<now, style, tasks, loops, world, issued>>
-----------------------------------------------------------------------------------
(* Tasks, in the order of their creation.                                  *)

NextWriteLate == now + 2 * WriteInterval \* mutant
NextWrite == now + WriteInterval

Run(kind) == tasks # <<>> /\ Head(tasks).kind = kind /\ tasks' = Tail(tasks)

RunStore ==
    /\ Run("store")
    /\ Put(Head(tasks).key, Head(tasks).version)
    /\ UNCHANGED <<now, style, file, loops, world, issued>>

\* _check_disk_fallback: the file's entry replaces whatever is in memory now.
RunLookup ==
    /\ Run("lookup")
    /\ LET k == Head(tasks).key
       IN  cache' = IF OnDisk(k) THEN [cache EXCEPT ![k] = file[k]] ELSE cache
    /\ UNCHANGED <<now, style, file, dirty, loops, world, issued>>

\* _load_from_disk, then the background tasks.
RunInit ==
    /\ Run("init")
    /\ cache' = [k \in Key |-> IF OnDisk(k) THEN file[k] ELSE cache[k]]
    /\ running' = TRUE /\ writeAt' = NextWrite
    /\ UNCHANGED <<now, style, file, dirty, closing, world, issued>>
-----------------------------------------------------------------------------------
(* The background loops, and the end.                                      *)

\* _dirty after the writer has saved.
StillDirtyNever == FALSE \* mutant
StillDirty == "write" \notin disk

\* _writer_loop
Write ==
    /\ running /\ now >= writeAt
    /\ writeAt' = NextWrite
    /\ IF dirty THEN Save(cache) /\ dirty' = StillDirty ELSE UNCHANGED <<file, dirty>>
    /\ UNCHANGED <<now, style, cache, tasks, running, closing, world, issued>>

\* _cleanup_expired, whenever its loop comes round.
CleanUp ==
    /\ running
    /\ cache' = [k \in Key |-> IF Contains(k) THEN cache[k] ELSE NoEntry]
    /\ UNCHANGED <<now, style, file, dirty, tasks, loops, world, issued>>

\* shutdown() awaits the loops, if there are any, before the final save.
Shutdown ==
    /\ running /\ ~closing
    /\ running' = FALSE /\ closing' = TRUE
    /\ UNCHANGED <<now, style, cache, file, dirty, tasks, writeAt, world, issued>>

FinalSave ==
    /\ closing \/ ~running
    /\ closing' = FALSE
    /\ IF dirty THEN Save(cache) ELSE file' = file
    /\ UNCHANGED <<now, style, cache, dirty, tasks, running, writeAt, world, issued>>
-----------------------------------------------------------------------------------
(* The world.                                                              *)

\* The disk fails, or recovers, for reading or for writing.
DiskTurns ==
    /\ disk' \in SUBSET {"read", "write"} \ {disk}
    /\ trouble' = now
    /\ UNCHANGED <<now, style, cache, file, dirty, tasks, loops, restarts, issued>>

Tick ==
    /\ now < MaxTime
    /\ tasks = <<>> /\ ~closing /\ (running => now < writeAt)
    /\ now' = now + 1
    /\ trouble' = IF disk = {"read", "write"} THEN trouble ELSE now'
    /\ UNCHANGED <<style, cache, file, dirty, tasks, loops, disk, restarts, issued>>

\* The process ends, or crashes, and another one begins.
Restart ==
    /\ restarts < MaxRestarts
    /\ restarts' = restarts + 1
    /\ cache' = Empty /\ dirty' = FALSE
    /\ tasks' = Started
    /\ running' = FALSE /\ closing' = FALSE /\ writeAt' = 0
    /\ UNCHANGED <<now, style, file, disk, trouble, issued>>
-----------------------------------------------------------------------------------
Next ==
    \/ \E k \in Key: Store(k) \/ StoreAsync(k) \/ Retrieve(k) \/ RetrieveAsync(k)
    \/ RunStore \/ RunLookup \/ RunInit
    \/ Write \/ CleanUp \/ Clear \/ Shutdown \/ FinalSave
    \/ DiskTurns \/ Tick \/ Restart

Spec == Init /\ [][Next]_vars
====================================================================================
