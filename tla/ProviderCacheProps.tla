---------------------------- MODULE ProviderCacheProps -----------------------------
(* What the provider cache promises about its file.                        *)
EXTENDS ProviderCache

\* A cache that is not dirty, and is therefore not saved again, has all it
\* holds in memory in its file, whatever failed saves, lookups and loads came
\* before (provider_cache.py:303-307).
CleanIsOnDisk ==
    ~dirty => \A k \in Key: cache[k] # NoEntry => file[k] = cache[k]

\* What is in the file stays there for the disk's time to live, and is never
\* replaced by an older value: memory may take precedence when the two are
\* merged, because it is never behind the file (provider_cache.py:222-238).
\* Two kinds of save are excepted: one that cannot read the file forgets what is
\* not in memory, and clear() is there to forget (provider_cache.py:506-512).
FileNeverForgets ==
    [][\A k \in Key:
          file[k] # NoEntry /\ ~Expired(file[k], DiskTTL) /\ "read" \in disk /\ ~Clear
            => file'[k].version >= file[k].version]_vars

\* A step of an initialised cache, which has its background tasks before and
\* after, by which k's entry leaves memory once it is older than its time to
\* live there.
DroppedByAge(k) ==
    /\ running /\ running'
    /\ cache[k] # NoEntry /\ Expired(cache[k], MemoryTTL) /\ cache'[k] # cache[k]

\* What such a step drops is in the file, where it lives on, if the writer is
\* quicker than the memory's time to live and the disk has worked since it was
\* stored (provider_cache.py:332-336, 392).
DroppedIsOnDisk ==
    [][\A k \in Key:
          DroppedByAge(k) /\ WriteInterval <= MemoryTTL /\ trouble < cache[k].at
            => file[k].version >= cache[k].version]_vars
====================================================================================
