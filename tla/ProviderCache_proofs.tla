---------------------------- MODULE ProviderCache_proofs ---------------------------
(***************************************************************************)
(* Proofs about the provider cache.  Order is the invariant behind the     *)
(* merge of memory and file: values reach memory in the order in which     *)
(* they were handed to the cache, and memory is never behind the file.     *)
(* Timing is the one behind what memory drops: the writer is never late,   *)
(* and wakes up within its interval of the oldest value not yet saved.     *)
(***************************************************************************)
EXTENDS ProviderCacheProps, TLAPS

Stores == {i \in DOMAIN tasks: tasks[i].kind = "store"}

\* Stores wait in the order in which they were called, newer than what they
\* will replace.
Queued ==
    /\ style = "awaited" => Stores = {}
    /\ \A i, j \in Stores: i < j => tasks[i].version < tasks[j].version
    /\ \A i \in Stores:
          /\ tasks[i].version <= issued
          /\ \A k \in Key: cache[k].version < tasks[i].version /\ file[k].version < tasks[i].version

Issued == \A k \in Key: cache[k].version <= issued /\ file[k].version <= issued

NotBehind == \A k \in Key: cache[k] # NoEntry => file[k].version <= cache[k].version

Order == Queued /\ Issued /\ NotBehind

Unsaved(k) ==
    cache[k] # NoEntry /\ file[k].version < cache[k].version /\ trouble < cache[k].at

\* _async_init has still to run.
Starting == \E i \in DOMAIN tasks: tasks[i].kind = "init"

Timing ==
    /\ disk # {"read", "write"} => trouble = now
    /\ running => now <= writeAt /\ writeAt <= now + WriteInterval
    /\ running => \A k \in Key: Unsaved(k) => writeAt <= cache[k].at + WriteInterval
    /\ Starting => \A k \in Key: Unsaved(k) => cache[k].at = now

CacheInv == TypeOK /\ CleanIsOnDisk /\ Order /\ Timing
-----------------------------------------------------------------------------------
LEMMA Appended ==
    ASSUME NEW S, NEW s \in Seq(S), NEW e \in S
    PROVE  /\ Append(s, e) \in Seq(S)
           /\ DOMAIN Append(s, e) = 1 .. Len(s) + 1
           /\ DOMAIN s = 1 .. Len(s) /\ Len(s) \in Nat
           /\ \A i \in 1 .. Len(s): Append(s, e)[i] = s[i]
           /\ Append(s, e)[Len(s) + 1] = e
  OBVIOUS

LEMMA Rest ==
    ASSUME NEW S, NEW s \in Seq(S), s # <<>>
    PROVE  /\ Tail(s) \in Seq(S)
           /\ Head(s) \in S /\ Head(s) = s[1] /\ 1 \in DOMAIN s
           /\ DOMAIN s = 1 .. Len(s) /\ Len(s) \in Nat
           /\ DOMAIN Tail(s) = 1 .. Len(s) - 1
           /\ \A i \in DOMAIN Tail(s): i + 1 \in DOMAIN s /\ Tail(s)[i] = s[i + 1]
  OBVIOUS
-----------------------------------------------------------------------------------
(* Types.                                                                  *)

\* What is in memory or in the file is an entry, or nothing.
LEMMA EntryType ==
    ASSUME TypeOK, NEW k \in Key
    PROVE  /\ cache[k] \in Entry \cup {NoEntry} /\ file[k] \in Entry \cup {NoEntry}
           /\ cache[k].version \in Int /\ cache[k].at \in Int
           /\ file[k].version \in Int /\ file[k].at \in Int
           /\ cache[k] # NoEntry => cache[k].version \in 1 .. MaxVersion /\ cache[k].at \in 0 .. now
           /\ file[k] # NoEntry => file[k].version \in 1 .. MaxVersion /\ file[k].at \in 0 .. now
           /\ now \in Int
  BY BoundAssumption DEF TypeOK, Entry, NoEntry

\* A save writes entries.
LEMMA MergedType ==
    ASSUME TypeOK, NEW m \in [Key -> Entry \cup {NoEntry}]
    PROVE  Merged(m) \in [Key -> Entry \cup {NoEntry}]
  BY DEF TypeOK, Merged, OnDisk

LEMMA EmptyType == Empty \in [Key -> Entry \cup {NoEntry}]
  BY DEF Empty

LEMMA StartedType == Started \in Seq(Task) /\ DOMAIN Started = {1} /\ Started[1].kind = "init"
  BY DEF Started, Task

LEMMA InitTypeOK == Init => TypeOK
  <1> SUFFICES ASSUME Init PROVE TypeOK
    OBVIOUS
  <1>1. cache \in [Key -> Entry \cup {NoEntry}] /\ file \in [Key -> Entry \cup {NoEntry}]
    BY EmptyType DEF Init
  <1>2. tasks \in Seq(Task)
    BY StartedType DEF Init
  <1>3. dirty \in BOOLEAN /\ running \in BOOLEAN /\ closing \in BOOLEAN
    BY DEF Init
  <1>4. /\ now \in 0 .. MaxTime /\ writeAt \in Nat /\ issued \in 0 .. MaxVersion
        /\ trouble \in -1 .. now /\ restarts \in 0 .. MaxRestarts
    BY BoundAssumption DEF Init
  <1> QED
    BY <1>1, <1>2, <1>3, <1>4 DEF Init, TypeOK

LEMMA TickTypeOK == TypeOK /\ Tick => TypeOK'
  <1> SUFFICES ASSUME TypeOK, Tick PROVE TypeOK'
    OBVIOUS
  <1>1. now \in Nat /\ now' = now + 1 /\ now' \in 0 .. MaxTime /\ trouble' \in -1 .. now'
    BY BoundAssumption DEF TypeOK, Tick
  <1>2. \A e \in Entry: e \in Entry'
    BY <1>1 DEF Entry
  <1>3. cache' \in [Key -> Entry \cup {NoEntry}]' /\ file' \in [Key -> Entry \cup {NoEntry}]'
    BY <1>2 DEF TypeOK, Tick, NoEntry
  <1> QED
    BY <1>1, <1>3 DEF TypeOK, Tick, loops, Task

LEMMA PutTypeOK ==
    ASSUME TypeOK, NEW k \in Key, NEW v \in 1 .. MaxVersion, Put(k, v)
    PROVE  cache' \in [Key -> Entry \cup {NoEntry}] /\ dirty' \in BOOLEAN
  <1>1. Stamped(v) \in Entry
    BY DEF Stamped, Entry, TypeOK
  <1> QED
    BY <1>1 DEF Put, TypeOK

LEMMA NextTypeOK == TypeOK /\ [Next]_vars => TypeOK'
  <1> SUFFICES ASSUME TypeOK, [Next]_vars PROVE TypeOK'
    OBVIOUS
  <1> USE DEF loops, world
  <1>0. \A v: v \in 1 .. MaxVersion => v \in Int
    BY BoundAssumption
  <1>1. ASSUME NEW k \in Key, Store(k) PROVE TypeOK'
    <2>1. issued' \in 1 .. MaxVersion
      BY <1>1, BoundAssumption DEF Store, Issue, TypeOK
    <2>2. [kind |-> "store", key |-> k, version |-> issued'] \in Task
      BY <2>1 DEF Task
    <2>3. tasks' \in Seq(Task)
      BY <1>1, <2>2, Appended DEF Store, TypeOK
    <2> QED
      BY <1>1, <2>1, <2>3, BoundAssumption DEF Store, TypeOK, Entry
  <1>2. ASSUME NEW k \in Key, StoreAsync(k) PROVE TypeOK'
    <2>1. issued' \in 1 .. MaxVersion
      BY <1>2, BoundAssumption DEF StoreAsync, Issue, TypeOK
    <2>2. cache' \in [Key -> Entry \cup {NoEntry}] /\ dirty' \in BOOLEAN
      BY <1>2, <2>1, PutTypeOK DEF StoreAsync
    <2> QED
      BY <1>2, <2>1, <2>2, BoundAssumption DEF StoreAsync, TypeOK, Entry
  <1>3. ASSUME NEW k \in Key, Retrieve(k) PROVE TypeOK'
    <2>1. [kind |-> "lookup", key |-> k] \in Task
      BY DEF Task
    <2>2. tasks' \in Seq(Task)
      BY <1>3, <2>1, Appended DEF Retrieve, TypeOK
    <2>3. cache' \in [Key -> Entry \cup {NoEntry}]
      BY <1>3 DEF Retrieve, TypeOK
    <2> QED
      BY <1>3, <2>2, <2>3 DEF Retrieve, TypeOK, Entry
  <1>4. ASSUME NEW k \in Key, RetrieveAsync(k) PROVE TypeOK'
    <2>1. cache' \in [Key -> Entry \cup {NoEntry}]
      BY <1>4 DEF RetrieveAsync, TypeOK
    <2> QED
      BY <1>4, <2>1 DEF RetrieveAsync, TypeOK, Entry
  <1>5. CASE RunStore
    <2>1. Tail(tasks) \in Seq(Task) /\ Head(tasks) \in Task
      BY <1>5, Rest DEF RunStore, Run, TypeOK
    <2>2. Head(tasks).key \in Key /\ Head(tasks).version \in 1 .. MaxVersion
      BY <1>5, <2>1 DEF RunStore, Run, Task
    <2>3. cache' \in [Key -> Entry \cup {NoEntry}] /\ dirty' \in BOOLEAN
      BY <1>5, <2>2, PutTypeOK DEF RunStore
    <2> QED
      BY <1>5, <2>1, <2>3 DEF RunStore, Run, TypeOK, Entry
  <1>6. CASE RunLookup
    <2>1. Tail(tasks) \in Seq(Task)
      BY <1>6, Rest DEF RunLookup, Run, TypeOK
    <2>2. cache' \in [Key -> Entry \cup {NoEntry}]
      <3>1. Head(tasks).key \in Key
        BY <1>6, Rest DEF RunLookup, Run, TypeOK, Task
      <3> QED
        BY <1>6, <3>1 DEF RunLookup, TypeOK
    <2> QED
      BY <1>6, <2>1, <2>2 DEF RunLookup, Run, TypeOK, Entry
  <1>7. CASE RunInit
    <2>1. Tail(tasks) \in Seq(Task)
      BY <1>7, Rest DEF RunInit, Run, TypeOK
    <2>2. cache' \in [Key -> Entry \cup {NoEntry}]
      BY <1>7 DEF RunInit, TypeOK
    <2> QED
      BY <1>7, <2>1, <2>2, TTLAssumption DEF RunInit, Run, TypeOK, NextWrite, Entry
  <1>8. CASE Write
    <2>1. file' \in [Key -> Entry \cup {NoEntry}]
      BY <1>8, MergedType DEF Write, Save, TypeOK
    <2> QED
      <3>1. dirty' \in BOOLEAN
        BY <1>8, Zenon DEF Write, StillDirty, TypeOK
      <3>2. writeAt' \in Nat
        BY <1>8, TTLAssumption DEF Write, NextWrite, TypeOK
      <3> QED
        BY <1>8, <2>1, <3>1, <3>2 DEF Write, TypeOK, Entry
  <1>9. CASE CleanUp
    <2>1. cache' \in [Key -> Entry \cup {NoEntry}]
      BY <1>9 DEF CleanUp, TypeOK
    <2> QED
      BY <1>9, <2>1 DEF CleanUp, TypeOK, Entry
  <1>10. CASE Clear
    <2>1. file' \in [Key -> Entry \cup {NoEntry}]
      BY <1>10, MergedType, EmptyType DEF Clear, Save, TypeOK
    <2> QED
      BY <1>10, <2>1, EmptyType DEF Clear, TypeOK, Entry
  <1>11. CASE Shutdown
    BY <1>11 DEF Shutdown, TypeOK, Entry
  <1>12. CASE FinalSave
    <2>1. file' \in [Key -> Entry \cup {NoEntry}]
      BY <1>12, MergedType DEF FinalSave, Save, TypeOK
    <2> QED
      BY <1>12, <2>1 DEF FinalSave, TypeOK, Entry
  <1>13. CASE DiskTurns
    BY <1>13 DEF DiskTurns, TypeOK, Entry
  <1>14. CASE Tick
    BY <1>14, TickTypeOK
  <1>15. CASE Restart
    <2>1. dirty' \in BOOLEAN /\ running' \in BOOLEAN /\ closing' \in BOOLEAN
      BY <1>15 DEF Restart
    <2>2. cache' \in [Key -> Entry \cup {NoEntry}] /\ tasks' \in Seq(Task)
      BY <1>15, EmptyType, StartedType DEF Restart
    <2>3. writeAt' \in Nat /\ restarts' \in 0 .. MaxRestarts
      BY <1>15, BoundAssumption DEF Restart, TypeOK
    <2> QED
      BY <1>15, <2>1, <2>2, <2>3 DEF Restart, TypeOK, Entry
  <1>16. CASE UNCHANGED vars
    BY <1>16 DEF vars, TypeOK, Entry
  <1> QED
    BY <1>1, <1>2, <1>3, <1>4, <1>5, <1>6, <1>7, <1>8, <1>9, <1>10, <1>11, <1>12, <1>13,
       <1>14, <1>15, <1>16 DEF Next

\* Entries are never stamped later than the clock, tasks are well-formed and
\* the writer's times are times, for any keys and times to live.
THEOREM TypeCorrect == Spec => []TypeOK
  BY InitTypeOK, NextTypeOK, PTL DEF Spec
-----------------------------------------------------------------------------------
(* What steps do to memory and file.                                       *)

Refetch ==
    \/ \E k \in Key: Retrieve(k) \/ RetrieveAsync(k)
    \/ RunLookup \/ RunInit \/ CleanUp

Saving == Write \/ FinalSave \/ Clear

\* A step that does not store leaves in memory what was there, or what the
\* file has.
LEMMA RefetchStep ==
    ASSUME TypeOK, Refetch
    PROVE  /\ \A k \in Key: cache'[k] \in {cache[k], file[k], NoEntry}
           /\ UNCHANGED <<now, style, file, dirty, issued, disk, trouble>>
  <1>1. ASSUME NEW k \in Key, Retrieve(k) \/ RetrieveAsync(k)
        PROVE  /\ \A l \in Key: cache'[l] \in {cache[l], file[l], NoEntry}
               /\ UNCHANGED <<now, style, file, dirty, issued, disk, trouble>>
    BY <1>1 DEF Retrieve, RetrieveAsync, TypeOK, world
  <1>2. CASE RunLookup
    BY <1>2 DEF RunLookup, TypeOK, world
  <1>3. CASE RunInit \/ CleanUp
    BY <1>3 DEF RunInit, CleanUp, TypeOK, world
  <1> QED
    BY <1>1, <1>2, <1>3 DEF Refetch

\* A save that happens puts into the file all that stays in memory, and keeps
\* what it can read.
LEMMA SavingStep ==
    ASSUME TypeOK, Saving
    PROVE  /\ \A k \in Key: /\ cache'[k] \in {cache[k], NoEntry}
                            /\ file'[k] \in {cache[k], file[k], NoEntry}
                            /\ OnDisk(k) => file'[k] = file[k] \/ (cache[k] # NoEntry /\ file'[k] = cache[k])
           /\ file' = file \/ \A k \in Key: cache'[k] # NoEntry => file'[k] = cache'[k]
           /\ UNCHANGED <<now, style, tasks, issued, disk, trouble>>
  <1>1. CASE Write
    BY <1>1 DEF Write, Save, Merged, TypeOK, world
  <1>2. CASE FinalSave
    BY <1>2 DEF FinalSave, Save, Merged, TypeOK, world
  <1>3. CASE Clear
    <2>1. /\ cache' = Empty /\ Save(Empty) /\ UNCHANGED <<now, style, tasks, issued, disk, trouble>>
          /\ \A k \in Key: Empty[k] = NoEntry
      BY <1>3 DEF Clear, world, Empty
    <2>2. \A k \in Key: file'[k] \in {file[k], NoEntry} /\ (OnDisk(k) => file'[k] = file[k])
      BY <2>1 DEF Save, Merged, TypeOK
    <2> QED
      BY <2>1, <2>2
  <1> QED
    BY <1>1, <1>2, <1>3 DEF Saving
-----------------------------------------------------------------------------------
(* Clean means saved.                                                      *)

LEMMA CleanStep == TypeOK /\ CleanIsOnDisk /\ [Next]_vars => CleanIsOnDisk'
  <1> SUFFICES ASSUME TypeOK, CleanIsOnDisk, [Next]_vars, ~dirty'
               PROVE  \A k \in Key: cache'[k] # NoEntry => file'[k] = cache'[k]
    BY DEF CleanIsOnDisk
  <1>1. CASE UNCHANGED <<cache, file, dirty>>
    BY <1>1 DEF CleanIsOnDisk
  <1>2. CASE Refetch
    BY <1>2, RefetchStep DEF CleanIsOnDisk
  <1>3. CASE Write
    <2>1. CASE dirty
      <3>1. "write" \in disk
        BY <1>3, <2>1, Zenon DEF Write, StillDirty
      <3> QED
        BY <1>3, <2>1, <3>1 DEF Write, Save, Merged, TypeOK
    <2>2. CASE ~dirty
      BY <1>3, <2>2 DEF Write, CleanIsOnDisk
    <2> QED
      BY <2>1, <2>2
  <1>4. CASE FinalSave
    BY <1>4 DEF FinalSave, CleanIsOnDisk
  <1>5. CASE Restart
    BY <1>5 DEF Restart, Empty
  <1>6. dirty' => \A k \in Key: cache'[k] # NoEntry => file'[k] = cache'[k]
    OBVIOUS
  <1>7. ASSUME NEW k \in Key, Store(k) PROVE UNCHANGED <<cache, file, dirty>>
    BY <1>7 DEF Store
  <1>8. ASSUME NEW k \in Key, StoreAsync(k) PROVE dirty'
    BY <1>8 DEF StoreAsync, Put
  <1>9. ASSUME RunStore \/ Clear PROVE dirty'
    BY <1>9 DEF RunStore, Put, Clear
  <1>10. ASSUME Shutdown \/ DiskTurns \/ Tick \/ UNCHANGED vars PROVE UNCHANGED <<cache, file, dirty>>
    BY <1>10 DEF Shutdown, DiskTurns, Tick, vars
  <1> QED
    BY <1>1, <1>2, <1>3, <1>4, <1>5, <1>6, <1>7, <1>8, <1>9, <1>10 DEF Next, Refetch

\* A cache that is not dirty has all it holds in its file, whatever saves
\* failed and whatever was looked up, for any keys and intervals.
THEOREM CleanIsSaved == Spec => []CleanIsOnDisk
  <1>1. Init => CleanIsOnDisk
    BY DEF Init, CleanIsOnDisk, Empty
  <1> QED
    BY <1>1, CleanStep, TypeCorrect, PTL DEF Spec
-----------------------------------------------------------------------------------
(* The order of values.                                                    *)

\* The stores waiting after a step are waiting ones of before, shifted by d.
Shifted(d) == \A i \in Stores': i + d \in Stores /\ tasks'[i] = tasks[i + d]

LEMMA StoreType ==
    ASSUME TypeOK, NEW i \in Stores
    PROVE  i \in Int /\ tasks[i].version \in Int /\ tasks[i].version >= 1 /\ tasks[i].key \in Key
  <1>1. i \in Int /\ tasks[i] \in Task /\ tasks[i].kind = "store"
    BY DEF TypeOK, Stores
  <1>2. tasks[i] \in [kind: {"store"}, key: Key, version: 1 .. MaxVersion]
    BY <1>1 DEF Task
  <1> QED
    BY <1>1, <1>2, BoundAssumption

\* Stores keep waiting in order while memory and file only get what one of
\* them had.
LEMMA QueueKept ==
    ASSUME TypeOK, TypeOK', Order, NEW d \in {0, 1}, Shifted(d), UNCHANGED <<style, issued>>,
           \A k \in Key: /\ cache'[k] \in {cache[k], file[k], NoEntry}
                         /\ file'[k] \in {cache[k], file[k], NoEntry}
    PROVE  Queued' /\ Issued'
  <1>1. ASSUME NEW k \in Key
        PROVE  /\ cache'[k].version \in {cache[k].version, file[k].version, 0}
               /\ file'[k].version \in {cache[k].version, file[k].version, 0}
    BY DEF NoEntry
  <1>2. Issued'
    <2> SUFFICES ASSUME NEW k \in Key
                 PROVE  cache'[k].version <= issued /\ file'[k].version <= issued
      BY DEF Issued
    <2>1. issued \in Int /\ 0 <= issued
      BY BoundAssumption DEF TypeOK
    <2>2. cache[k].version <= issued /\ file[k].version <= issued
      BY DEF Order, Issued
    <2> QED
      BY <1>1, <2>1, <2>2
  <1>3. style' = "awaited" => Stores' = {}
    BY DEF Order, Queued, Shifted
  <1>4. ASSUME NEW i \in Stores', NEW j \in Stores', i < j
        PROVE  tasks'[i].version < tasks'[j].version
    <2>1. i + d \in Stores /\ j + d \in Stores
      BY DEF Shifted
    <2>2. i \in Int /\ j \in Int
      BY DEF Stores, TypeOK
    <2>3. i + d < j + d
      BY <1>4, <2>2
    <2> QED
      BY <2>1, <2>3 DEF Order, Queued, Shifted
  <1>5. ASSUME NEW i \in Stores'
        PROVE  /\ tasks'[i].version <= issued'
               /\ \A k \in Key: /\ cache'[k].version < tasks'[i].version
                                /\ file'[k].version < tasks'[i].version
    <2>1. i + d \in Stores /\ tasks'[i] = tasks[i + d]
      BY DEF Shifted
    <2>2. tasks[i + d].version \in Int /\ tasks[i + d].version >= 1
      BY <2>1, StoreType
    <2> QED
      BY <1>1, <2>1, <2>2, EntryType DEF Order, Queued
  <1> QED
    BY <1>2, <1>3, <1>4, <1>5 DEF Queued

\* The tasks after a step, if no store is created.
LEMMA QueueStep ==
    ASSUME TypeOK, TypeOK'
    PROVE  /\ tasks' = tasks => Shifted(0)
           /\ tasks # <<>> /\ tasks' = Tail(tasks) => Shifted(1)
           /\ \A k \in Key: tasks' = Append(tasks, [kind |-> "lookup", key |-> k]) => Shifted(0)
  <1>1. tasks' = tasks => Shifted(0)
    <2> SUFFICES ASSUME tasks' = tasks, NEW i \in Stores'
                 PROVE  i + 0 \in Stores /\ tasks'[i] = tasks[i + 0]
      BY DEF Shifted
    <2>1. i \in Stores /\ i + 0 = i
      BY StoreType DEF Stores
    <2> QED
      BY <2>1
  <1>2. tasks # <<>> /\ tasks' = Tail(tasks) => Shifted(1)
    BY Rest DEF Shifted, Stores, TypeOK
  <1>3. ASSUME NEW k \in Key, tasks' = Append(tasks, [kind |-> "lookup", key |-> k])
        PROVE  Shifted(0)
    <2>1. [kind |-> "lookup", key |-> k] \in Task
      BY DEF Task
    <2>2. ASSUME NEW i \in Stores' PROVE i \in DOMAIN tasks /\ tasks'[i] = tasks[i] /\ i + 0 = i
      BY <1>3, <2>1, Appended DEF Stores, TypeOK
    <2> QED
      BY <2>2 DEF Shifted, Stores
  <1> QED
    BY <1>1, <1>2, <1>3

LEMMA RefetchOrder == TypeOK /\ TypeOK' /\ Order /\ Refetch => Order'
  <1> SUFFICES ASSUME TypeOK, TypeOK', Order, Refetch PROVE Order'
    OBVIOUS
  <1>1. \E d \in {0, 1}: Shifted(d)
    <2>1. ASSUME NEW k \in Key, Retrieve(k) PROVE Shifted(0)
      BY <2>1, QueueStep DEF Retrieve
    <2>2. ASSUME NEW k \in Key, RetrieveAsync(k) PROVE Shifted(0)
      BY <2>2, QueueStep DEF RetrieveAsync
    <2>3. ASSUME RunLookup \/ RunInit PROVE Shifted(1)
      BY <2>3, QueueStep DEF RunLookup, RunInit, Run
    <2>4. ASSUME CleanUp PROVE Shifted(0)
      BY <2>4, QueueStep DEF CleanUp
    <2> QED
      BY <2>1, <2>2, <2>3, <2>4 DEF Refetch
  <1>2. /\ UNCHANGED <<style, issued, file>>
        /\ \A k \in Key: /\ cache'[k] \in {cache[k], file[k], NoEntry}
                         /\ file'[k] \in {cache[k], file[k], NoEntry}
    BY RefetchStep
  <1>3. Queued' /\ Issued'
    BY <1>1, <1>2, QueueKept
  <1>4. NotBehind'
    BY <1>2, EntryType DEF Order, NotBehind
  <1> QED
    BY <1>3, <1>4 DEF Order

LEMMA SavingOrder == TypeOK /\ TypeOK' /\ Order /\ Saving => Order'
  <1> SUFFICES ASSUME TypeOK, TypeOK', Order, Saving PROVE Order'
    OBVIOUS
  <1>1. /\ UNCHANGED <<style, issued, tasks>>
        /\ \A k \in Key: /\ cache'[k] \in {cache[k], NoEntry}
                         /\ file'[k] \in {cache[k], file[k], NoEntry}
        /\ file' = file \/ \A k \in Key: cache'[k] # NoEntry => file'[k] = cache'[k]
    BY SavingStep
  <1>2. Queued' /\ Issued'
    BY <1>1, QueueStep, QueueKept
  <1>3. NotBehind'
    BY <1>1, EntryType DEF Order, NotBehind, TypeOK
  <1> QED
    BY <1>2, <1>3 DEF Order

\* The value put into memory is newer than all there is and older than all
\* that waits.
LEMMA PutOrder ==
    ASSUME TypeOK, TypeOK', Order, NEW k \in Key, NEW v \in 1 .. MaxVersion, Put(k, v),
           file' = file, style' = style, issued' >= v, issued' >= issued,
           NEW d \in {0, 1}, Shifted(d), \A i \in Stores': tasks'[i].version > v,
           \A l \in Key: cache[l].version < v /\ file[l].version < v
    PROVE  Order'
  <1>1. v \in Int /\ issued \in Int /\ issued' \in Int
    BY BoundAssumption DEF TypeOK
  <1>2. \A l \in Key: cache'[l].version \in {cache[l].version, v}
    BY DEF Put, Stamped, TypeOK
  <1>3. cache'[k].version = v /\ \A l \in Key: l # k => cache'[l] = cache[l]
    BY DEF Put, Stamped, TypeOK
  <1>4. Issued'
    BY <1>1, <1>2, EntryType DEF Order, Issued
  <1>5. NotBehind'
    BY <1>1, <1>3, EntryType DEF Order, NotBehind
  <1>6. style' = "awaited" => Stores' = {}
    BY DEF Order, Queued, Shifted
  <1>7. ASSUME NEW i \in Stores', NEW j \in Stores', i < j
        PROVE  tasks'[i].version < tasks'[j].version
    <2>1. i + d \in Stores /\ j + d \in Stores
      BY DEF Shifted
    <2>2. i \in Int /\ j \in Int
      BY DEF Stores, TypeOK
    <2>3. i + d < j + d
      BY <1>7, <2>2
    <2>4. tasks[i + d].version < tasks[j + d].version
      BY <2>1, <2>3 DEF Order, Queued
    <2> QED
      BY <2>4 DEF Shifted
  <1>8. ASSUME NEW i \in Stores'
        PROVE  /\ tasks'[i].version <= issued'
               /\ \A l \in Key: /\ cache'[l].version < tasks'[i].version
                                /\ file'[l].version < tasks'[i].version
    <2>1. i + d \in Stores /\ tasks'[i] = tasks[i + d]
      BY DEF Shifted
    <2>2. tasks[i + d].version \in Int /\ tasks[i + d].version <= issued
      BY <2>1, StoreType DEF Order, Queued
    <2>3. \A l \in Key: /\ cache[l].version < tasks[i + d].version
                        /\ file[l].version < tasks[i + d].version
      BY <2>1 DEF Order, Queued
    <2> QED
      BY <1>1, <1>2, <2>1, <2>2, <2>3
  <1> QED
    BY <1>4, <1>5, <1>6, <1>7, <1>8 DEF Order, Queued

LEMMA StoreOrder == TypeOK /\ TypeOK' /\ Order /\ (\E k \in Key: Store(k)) => Order'
  <1> SUFFICES ASSUME TypeOK, TypeOK', Order, NEW k \in Key, Store(k) PROVE Order'
    OBVIOUS
  <1> DEFINE e == [kind |-> "store", key |-> k, version |-> issued']
  <1>1. /\ UNCHANGED <<cache, file, style>> /\ issued' = issued + 1 /\ tasks' = Append(tasks, e)
        /\ style = "scheduled"
    BY DEF Store, Issue
  <1>2. issued \in Int /\ issued' \in 1 .. MaxVersion
    BY <1>1, BoundAssumption DEF Store, Issue, TypeOK
  <1>3. e \in Task
    BY <1>2 DEF Task
  <1>4. e.version = issued + 1
    BY <1>1
  <1> HIDE DEF e
  <1>5. ASSUME NEW i \in Stores'
        PROVE  \/ i \in Stores /\ tasks'[i] = tasks[i] /\ i <= Len(tasks)
               \/ i = Len(tasks) + 1 /\ tasks'[i] = e
    BY <1>1, <1>3, Appended DEF Stores, TypeOK
  <1>6. Len(tasks) \in Nat
    BY DEF TypeOK
  <1>7. \A i \in Stores: i \in Int /\ tasks[i].version \in Int /\ tasks[i].version <= issued
    BY StoreType DEF Order, Queued
  <1>8. \A i, j \in Stores': i < j => tasks'[i].version < tasks'[j].version
    BY <1>2, <1>4, <1>5, <1>6, <1>7 DEF Order, Queued
  <1>9. ASSUME NEW i \in Stores'
        PROVE  /\ tasks'[i].version <= issued'
               /\ \A l \in Key: /\ cache'[l].version < tasks'[i].version
                                /\ file'[l].version < tasks'[i].version
    <2>1. CASE i \in Stores /\ tasks'[i] = tasks[i]
      BY <1>1, <1>2, <1>7, <2>1 DEF Order, Queued
    <2>2. CASE tasks'[i] = e
      BY <1>1, <1>2, <1>4, <2>2, EntryType DEF Order, Issued
    <2> QED
      BY <1>5, <2>1, <2>2
  <1>10. Issued' /\ NotBehind'
    BY <1>1, <1>2, EntryType DEF Order, Issued, NotBehind
  <1> QED
    BY <1>1, <1>8, <1>9, <1>10 DEF Order, Queued

LEMMA OrderStep == TypeOK /\ TypeOK' /\ Order /\ [Next]_vars => Order'
  <1> SUFFICES ASSUME TypeOK, TypeOK', Order, [Next]_vars PROVE Order'
    OBVIOUS
  <1>1. ASSUME NEW k \in Key, StoreAsync(k) PROVE Order'
    <2>1. /\ Put(k, issued') /\ issued' = issued + 1 /\ style = "awaited"
          /\ UNCHANGED <<file, style, tasks>>
      BY <1>1 DEF StoreAsync, Issue
    <2>2. issued \in Int /\ issued' \in 1 .. MaxVersion
      BY <1>1, BoundAssumption DEF StoreAsync, Issue, TypeOK
    <2>3. Stores' = {} /\ Shifted(0)
      BY <2>1, QueueStep DEF Order, Queued, Stores
    <2>4. \A l \in Key: cache[l].version < issued' /\ file[l].version < issued'
      BY <2>1, <2>2, EntryType DEF Order, Issued
    <2>5. issued' >= issued /\ issued' >= issued'
      BY <2>1, <2>2
    <2> QED
      BY <2>1, <2>2, <2>3, <2>4, <2>5, PutOrder
  <1>2. CASE RunStore
    <2> DEFINE v == Head(tasks).version
               k == Head(tasks).key
    <2>1. /\ Put(k, v) /\ tasks # <<>> /\ tasks' = Tail(tasks)
          /\ UNCHANGED <<file, style, issued>>
      BY <1>2 DEF RunStore, Run
    <2>2. 1 \in Stores /\ v = tasks[1].version /\ k = tasks[1].key
      BY <1>2, Rest DEF RunStore, Run, Stores, TypeOK
    <2>3. v \in 1 .. MaxVersion /\ k \in Key
      <3>1. tasks[1] \in Task /\ tasks[1].kind = "store"
        BY <2>2 DEF Stores, TypeOK
      <3> QED
        BY <2>2, <3>1 DEF Task
    <2>4. v <= issued /\ \A l \in Key: cache[l].version < v /\ file[l].version < v
      BY <2>2 DEF Order, Queued
    <2>5. Shifted(1)
      BY <2>1, QueueStep
    <2>6. ASSUME NEW i \in Stores' PROVE tasks'[i].version > v
      <3>1. i + 1 \in Stores /\ tasks'[i] = tasks[i + 1] /\ i \in DOMAIN tasks'
        BY <2>5 DEF Shifted, Stores
      <3>2. 1 < i + 1
        BY <2>1, <3>1, Rest DEF TypeOK
      <3>3. tasks[1].version < tasks[i + 1].version
        BY <2>2, <3>1, <3>2 DEF Order, Queued
      <3> QED
        BY <2>2, <3>1, <3>3, StoreType
    <2>7. issued \in Int
      BY DEF TypeOK
    <2> HIDE DEF v, k
    <2>8. issued' >= v /\ issued' >= issued
      BY <2>1, <2>3, <2>4, <2>7, BoundAssumption
    <2> QED
      BY <2>1, <2>3, <2>4, <2>5, <2>6, <2>8, PutOrder
  <1>3. CASE \E k \in Key: Store(k)
    BY <1>3, StoreOrder
  <1>4. CASE Refetch
    BY <1>4, RefetchOrder
  <1>5. CASE Saving
    BY <1>5, SavingOrder
  <1>6. CASE Restart
    <2>1. UNCHANGED <<file, issued>> /\ cache' = Empty /\ Stores' = {}
      BY <1>6, StartedType DEF Restart, Stores
    <2>2. \A k \in Key: cache'[k] = NoEntry
      BY <2>1 DEF Empty
    <2>3. Issued' /\ NotBehind'
      BY <2>1, <2>2, EntryType DEF Order, Issued, NotBehind, NoEntry, TypeOK
    <2> QED
      BY <2>1, <2>3 DEF Order, Queued
  <1>7. CASE UNCHANGED <<style, cache, file, tasks, issued>>
    BY <1>7 DEF Order, Queued, Issued, NotBehind, Stores
  <1>8. ASSUME Shutdown \/ DiskTurns \/ Tick \/ UNCHANGED vars
        PROVE  UNCHANGED <<style, cache, file, tasks, issued>>
    BY <1>8 DEF Shutdown, DiskTurns, Tick, vars
  <1> QED
    BY <1>1, <1>2, <1>3, <1>4, <1>5, <1>6, <1>7, <1>8 DEF Next, Refetch, Saving

LEMMA InitOrder == Init => Order
  <1> SUFFICES ASSUME Init PROVE Order
    OBVIOUS
  <1>1. Stores = {}
    BY StartedType DEF Init, Stores
  <1>2. \A k \in Key: cache[k] = NoEntry /\ file[k] = NoEntry
    BY DEF Init, Empty
  <1> QED
    BY <1>1, <1>2 DEF Init, Order, Queued, Issued, NotBehind, NoEntry

\* For any number of keys, values and tasks: a step that is not clear() and
\* happens while the file can be read leaves in the file what may still be used,
\* and puts no older value in its place (provider_cache.py:222-238).
THEOREM FileKeeps == Spec => FileNeverForgets
  <1>1. ASSUME TypeOK, Order, [Next]_vars, NEW k \in Key,
               file[k] # NoEntry, ~Expired(file[k], DiskTTL), "read" \in disk, ~Clear
        PROVE  file'[k].version >= file[k].version
    <2>1. OnDisk(k) /\ file[k].version \in Int
      BY <1>1, EntryType DEF OnDisk
    <2>2. CASE file' = file
      BY <2>1, <2>2
    <2>3. CASE Saving
      BY <1>1, <2>1, <2>3, SavingStep, EntryType DEF Order, NotBehind
    <2>4. file' = file \/ Saving
      BY <1>1 DEF Next, Saving, vars, Store, StoreAsync, Retrieve, RetrieveAsync, RunStore,
                  RunLookup, RunInit, CleanUp, Shutdown, DiskTurns, Tick, Restart
    <2> QED
      BY <2>2, <2>3, <2>4
  <1>2. TypeOK /\ Order /\ [Next]_vars =>
            [\A k \in Key:
                file[k] # NoEntry /\ ~Expired(file[k], DiskTTL) /\ "read" \in disk /\ ~Clear
                  => file'[k].version >= file[k].version]_vars
    BY <1>1
  <1> QED
    BY <1>2, InitTypeOK, NextTypeOK, InitOrder, OrderStep, PTL DEF Spec, FileNeverForgets
-----------------------------------------------------------------------------------
(* The writer's timing.                                                    *)

\* Only the start of the process creates the task of _async_init.
LEMMA StartingKept == TypeOK /\ [Next]_vars /\ Starting' => Starting \/ Restart
  <1> SUFFICES ASSUME TypeOK, [Next]_vars, Starting' PROVE Starting \/ Restart
    OBVIOUS
  <1>1. CASE tasks' = tasks
    BY <1>1 DEF Starting
  <1>2. CASE tasks # <<>> /\ tasks' = Tail(tasks)
    BY <1>2, Rest DEF Starting, TypeOK
  <1>3. ASSUME NEW e \in Task, e.kind # "init", tasks' = Append(tasks, e) PROVE Starting
    BY <1>3, Appended DEF Starting, TypeOK
  <1>4. ASSUME NEW k \in Key, Store(k) PROVE Starting
    <2> DEFINE e == [kind |-> "store", key |-> k, version |-> issued']
    <2>1. issued' \in 1 .. MaxVersion
      BY <1>4, BoundAssumption DEF Store, Issue, TypeOK
    <2>2. e \in Task /\ e.kind # "init" /\ tasks' = Append(tasks, e)
      BY <1>4, <2>1 DEF Store, Task
    <2> QED
      BY <1>3, <2>2
  <1>5. ASSUME NEW k \in Key, Retrieve(k) PROVE Starting
    <2> DEFINE e == [kind |-> "lookup", key |-> k]
    <2>1. e \in Task /\ e.kind # "init" /\ tasks' = Append(tasks, e)
      BY <1>5 DEF Retrieve, Task
    <2> QED
      BY <1>3, <2>1
  <1>6. ASSUME RunStore \/ RunLookup \/ RunInit PROVE tasks # <<>> /\ tasks' = Tail(tasks)
    BY <1>6 DEF RunStore, RunLookup, RunInit, Run
  <1>7. ASSUME NEW k \in Key, StoreAsync(k) \/ RetrieveAsync(k) PROVE tasks' = tasks
    BY <1>7 DEF StoreAsync, RetrieveAsync
  <1>8. ASSUME \/ Write \/ CleanUp \/ Clear \/ Shutdown
               \/ FinalSave \/ DiskTurns \/ Tick \/ UNCHANGED vars
        PROVE  tasks' = tasks
    BY <1>8 DEF Write, CleanUp, Clear, Shutdown, FinalSave, DiskTurns, Tick, vars
  <1> QED
    BY <1>1, <1>2, <1>4, <1>5, <1>6, <1>7, <1>8 DEF Next

\* A step that stores nothing and moves no clock leaves nothing else unsaved.
LEMMA UnsavedBefore ==
    ASSUME TypeOK, Refetch \/ Saving, NEW k \in Key, Unsaved(k)'
    PROVE  Unsaved(k) /\ cache'[k] = cache[k] /\ file' = file
  <1>1. CASE Refetch
    BY <1>1, RefetchStep, EntryType DEF Unsaved
  <1>2. CASE Saving
    BY <1>2, SavingStep, EntryType DEF Unsaved
  <1> QED
    BY <1>1, <1>2

\* When the writer has saved, only a failing disk leaves something unsaved.
LEMMA WriteSaves ==
    ASSUME TypeOK, CleanIsOnDisk, Timing, Write, NEW k \in Key
    PROVE  ~Unsaved(k)'
  <1> SUFFICES ASSUME Unsaved(k)' PROVE FALSE
    OBVIOUS
  <1>1. Unsaved(k) /\ cache'[k] = cache[k] /\ file' = file
    BY UnsavedBefore DEF Saving
  <1>2. dirty
    BY <1>1, EntryType DEF Unsaved, CleanIsOnDisk
  <1>3. "write" \notin disk
    BY <1>1, <1>2, EntryType DEF Write, Save, Merged, Unsaved, TypeOK
  <1>4. trouble = now
    BY <1>3 DEF Timing
  <1> QED
    BY <1>1, <1>4, EntryType DEF Unsaved

LEMMA TimingStep == TypeOK /\ CleanIsOnDisk /\ Timing /\ [Next]_vars => Timing'
  <1> SUFFICES ASSUME TypeOK, CleanIsOnDisk, Timing, [Next]_vars PROVE Timing'
    OBVIOUS
  <1>0. /\ now \in Int /\ writeAt \in Int /\ trouble \in Int /\ trouble <= now
        /\ WriteInterval \in Int /\ WriteInterval > 0
    BY TTLAssumption DEF TypeOK
  <1>a. restarts' = restarts => (Starting' => Starting)
    BY StartingKept, BoundAssumption DEF TypeOK, Restart
  <1>1. CASE RunInit
    <2>1. /\ running' /\ writeAt' = now + WriteInterval /\ now' = now /\ disk' = disk
          /\ trouble' = trouble
      BY <1>1 DEF RunInit, NextWrite, world
    <2>2. Starting
      BY <1>1, Rest DEF RunInit, Run, Starting, TypeOK
    <2>3. ASSUME NEW k \in Key, Unsaved(k)' PROVE cache'[k].at = now
      BY <1>1, <2>2, <2>3, UnsavedBefore DEF Refetch, Timing
    <2> QED
      BY <1>0, <2>1, <2>3 DEF Timing
  <1>2. CASE Refetch /\ ~RunInit
    <2>1. UNCHANGED <<now, disk, trouble, running, writeAt>>
      BY <1>2 DEF Refetch, Retrieve, RetrieveAsync, RunLookup, CleanUp, loops, world
    <2>2. Starting' => Starting
      BY <1>a, <1>2 DEF Refetch, Retrieve, RetrieveAsync, RunLookup, CleanUp, world
    <2>3. ASSUME NEW k \in Key, Unsaved(k)' PROVE Unsaved(k) /\ cache'[k] = cache[k]
      BY <1>2, <2>3, UnsavedBefore
    <2> QED
      BY <2>1, <2>2, <2>3 DEF Timing
  <1>3. CASE Write
    <2>1. /\ writeAt' = now + WriteInterval /\ UNCHANGED <<now, disk, trouble, running>>
      BY <1>3 DEF Write, NextWrite, world
    <2> QED
      BY <1>0, <1>3, <2>1, WriteSaves DEF Timing
  <1>4. CASE FinalSave \/ Clear
    <2>1. UNCHANGED <<now, disk, trouble, running, writeAt, tasks>>
      BY <1>4 DEF FinalSave, Clear, loops, world
    <2>2. ASSUME NEW k \in Key, Unsaved(k)' PROVE Unsaved(k) /\ cache'[k] = cache[k]
      BY <1>4, <2>2, UnsavedBefore DEF Saving
    <2> QED
      BY <2>1, <2>2 DEF Timing, Starting
  <1>5. ASSUME NEW k \in Key, NEW v, Put(k, v), UNCHANGED <<now, file, disk, trouble, running, writeAt>>,
               Starting' => Starting
        PROVE  Timing'
    <2>1. cache'[k].at = now /\ \A l \in Key: l # k => cache'[l] = cache[l]
      BY <1>5 DEF Put, Stamped, TypeOK
    <2>2. \A l \in Key: l # k => (Unsaved(l)' => Unsaved(l))
      BY <1>5, <2>1 DEF Unsaved
    <2> QED
      BY <1>0, <1>5, <2>1, <2>2 DEF Timing
  <1>6. ASSUME NEW k \in Key, StoreAsync(k) PROVE Timing'
    BY <1>5, <1>6 DEF StoreAsync, loops, world, Starting
  <1>7. CASE RunStore
    <2>1. Starting' => Starting
      BY <1>a, <1>7 DEF RunStore, world
    <2>2. Head(tasks).key \in Key
      BY <1>7, Rest DEF RunStore, Run, TypeOK, Task
    <2>3. /\ Put(Head(tasks).key, Head(tasks).version)
          /\ UNCHANGED <<now, file, disk, trouble, running, writeAt>>
      BY <1>7 DEF RunStore, loops, world
    <2> QED
      BY <1>5, <2>1, <2>2, <2>3
  <1>8. ASSUME NEW k \in Key, Store(k) PROVE Timing'
    <2>1. Starting' => Starting
      BY <1>a, <1>8 DEF Store, world
    <2> QED
      BY <1>8, <2>1 DEF Store, loops, world, Timing, Unsaved
  <1>9. CASE Shutdown
    BY <1>9 DEF Shutdown, world, Timing, Unsaved, Starting
  <1>10. ASSUME UNCHANGED <<cache, file>>, trouble' \in Int, trouble <= trouble', NEW k \in Key, Unsaved(k)'
         PROVE  Unsaved(k)
    BY <1>0, <1>10, EntryType DEF Unsaved
  <1>11. CASE DiskTurns
    <2>1. trouble' = now /\ UNCHANGED <<now, cache, file, tasks, running, writeAt>>
      BY <1>11 DEF DiskTurns, loops
    <2>2. \A k \in Key: Unsaved(k)' => Unsaved(k)
      BY <1>0, <1>10, <2>1
    <2> QED
      BY <2>1, <2>2 DEF Timing, Starting
  <1>12. CASE Tick
    <2>1. /\ now' = now + 1 /\ tasks' = <<>> /\ (running => now < writeAt)
          /\ trouble' = (IF disk = {"read", "write"} THEN trouble ELSE now')
          /\ UNCHANGED <<cache, file, running, writeAt, disk>>
      BY <1>12 DEF Tick, loops
    <2>2. trouble' \in Int /\ trouble <= trouble'
      BY <1>0, <2>1
    <2>3. \A k \in Key: Unsaved(k)' => Unsaved(k)
      BY <1>10, <2>1, <2>2
    <2>4. ~Starting'
      BY <2>1 DEF Starting
    <2> QED
      BY <1>0, <2>1, <2>3, <2>4 DEF Timing
  <1>13. CASE Restart
    <2>1. ~running' /\ UNCHANGED <<now, disk, trouble>> /\ \A k \in Key: cache'[k] = NoEntry
      BY <1>13 DEF Restart, Empty
    <2> QED
      BY <2>1 DEF Timing, Unsaved
  <1>14. CASE UNCHANGED vars
    BY <1>14 DEF vars, loops, world, Timing, Unsaved, Starting
  <1> QED
    BY <1>1, <1>2, <1>3, <1>4, <1>6, <1>7, <1>8, <1>9, <1>11, <1>12, <1>13, <1>14 DEF Next, Refetch

LEMMA InitTiming == Init => Timing
  BY DEF Init, Empty, Timing, Unsaved

\* For any times to live and interval, with any number of keys: when memory
\* drops a value because of its age and the disk has worked since it was
\* stored, the file has it, or a newer one.
THEOREM DroppedIsSaved == Spec => DroppedIsOnDisk
  <1>1. ASSUME TypeOK, Timing, NEW k \in Key, DroppedByAge(k), WriteInterval <= MemoryTTL,
               trouble < cache[k].at
        PROVE  file[k].version >= cache[k].version
    <2> SUFFICES ASSUME ~(file[k].version >= cache[k].version) PROVE FALSE
      OBVIOUS
    <2>1. Unsaved(k) /\ running
      BY <1>1, EntryType DEF Unsaved, DroppedByAge
    <2>2. now <= writeAt /\ writeAt <= cache[k].at + WriteInterval
      BY <1>1, <2>1 DEF Timing
    <2>3. now - cache[k].at > MemoryTTL
      BY <1>1 DEF DroppedByAge, Expired
    <2> QED
      BY <1>1, <2>2, <2>3, EntryType, TTLAssumption DEF TypeOK
  <1>2. TypeOK /\ Timing /\ [Next]_vars =>
            [\A k \in Key:
                DroppedByAge(k) /\ WriteInterval <= MemoryTTL /\ trouble < cache[k].at
                  => file[k].version >= cache[k].version]_vars
    BY <1>1
  <1>3. Init => CleanIsOnDisk
    BY DEF Init, CleanIsOnDisk, Empty
  <1> QED
    BY <1>2, <1>3, InitTypeOK, NextTypeOK, CleanStep, InitTiming, TimingStep, PTL
    DEF Spec, DroppedIsOnDisk
====================================================================================
