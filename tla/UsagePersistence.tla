------------------------------ MODULE UsagePersistence ------------------------------
(***************************************************************************)
(* How the usage manager persists its states (usage/manager.py and         *)
(* usage/persistence/storage.py) through one resilient writer: saves that  *)
(* are debounced, the task that flushes what a save left behind, the save  *)
(* at shutdown, the load at the next start and the reload while it runs.   *)
(*                                                                         *)
(* Every save stores all that is in memory, so the states in memory are a  *)
(* version: 1 as registered, one more with every recorded update, and the  *)
(* file's after a load.  No save suspends (UsageStorage._save_lock is      *)
(* never held across an await), hence an update and its save are one step  *)
(* up to the writer's own steps.                                           *)
(***************************************************************************)
EXTENDS Integers

CONSTANTS
    RetryInterval,   \* retry_interval of the writer and of the registry
    Debounce,        \* save_debounce_seconds
    MaxVersion       \* bound: updates and restarts

ASSUME PersistenceAssumption ==
    /\ RetryInterval \in Nat \ {0}
    /\ Debounce \in Nat \ {0}
    /\ MaxVersion \in Nat \ {0}

VARIABLES
    disk, upFor, file, current, healthy, sinceAttempt, pending, main, job, retryIn,
    alive, raised, behind,
    usage,       \* version in memory
    dirty,       \* _dirty
    sinceSave,   \* time.time() - _last_save
    flushIn,     \* how long the flush task (_save_task) still sleeps
    saver,       \* whose save the writer is busy with
    open,        \* the application still serves requests
    waiting,     \* age of the oldest update that no save has stored
    missed       \* history: a save has ended in an exception since the last one stored

Writer == INSTANCE StateWriter

saving == <<dirty, sinceSave, flushIn, saver>>
writer == <<disk, upFor, file, current, healthy, sinceAttempt, pending, main, job, retryIn,
            alive, raised, behind>>
vars   == <<writer, usage, saving, open, waiting, missed>>

None == -1

TypeOK ==
    /\ Writer!TypeOK
    /\ usage \in 1 .. MaxVersion
    /\ dirty \in BOOLEAN
    /\ sinceSave \in 0 .. Debounce
    /\ flushIn \in None .. Debounce
    /\ saver \in {"none", "record", "flush", "shutdown"}
    /\ open \in BOOLEAN
    /\ waiting \in None .. Debounce + 1
    /\ missed \in BOOLEAN

Init ==
    /\ Writer!Init
    /\ usage = 1
    /\ dirty = FALSE
    /\ sinceSave = Debounce
    /\ flushIn = None
    /\ saver = "none"
    /\ open = TRUE
    /\ waiting = None
    /\ missed = FALSE
------------------------------------------------------------------------------------
(* UsageStorage.save and _save_if_needed.                                  *)

Debounced == sinceSave < Debounce

DirtyAsBefore == dirty \* mutant
\* A save that is debounced or fails marks the states dirty...
MarkedDirty == TRUE

ScheduledAnew == Debounce \* mutant
\* ...and _schedule_save_flush starts the task unless there is one.
Scheduled == IF flushIn = None THEN Debounce ELSE flushIn

\* Only _save_if_needed schedules; the flush and the shutdown do not.
NotSaved(who) ==
    /\ dirty' = MarkedDirty
    /\ flushIn' = IF who = "record" THEN Scheduled ELSE flushIn
    /\ UNCHANGED sinceSave

\* An update is recorded and _save_if_needed called.
Record ==
    /\ main = "idle"
    /\ open
    /\ usage < MaxVersion
    /\ usage' = usage + 1
    /\ waiting' = IF waiting = None THEN 0 ELSE waiting
    /\ UNCHANGED open

RecordDebounced ==
    /\ Record
    /\ Debounced
    /\ NotSaved("record")
    /\ UNCHANGED <<writer, saver, missed>>

RecordPutOff ==
    /\ Record
    /\ ~Debounced
    /\ Writer!WriteSkipped(usage + 1)
    /\ NotSaved("record")
    /\ UNCHANGED <<saver, missed>>

\* A save of v gets an exception, while it builds the data or from the writer,
\* and returns False without marking anything.
Raised(v) ==
    /\ Writer!WriteRaised(v) \/ UNCHANGED writer
    /\ missed' = TRUE
    /\ UNCHANGED <<dirty, sinceSave, saver>>

RecordRaised ==
    /\ Record
    /\ ~Debounced
    /\ Raised(usage + 1)
    /\ flushIn' = Scheduled

\* The disk write of the save of who.
Attempt(v, who) ==
    /\ Writer!WriteStored(v) \/ Writer!WriteFailed(v)
    /\ saver' = who
    /\ UNCHANGED <<dirty, sinceSave, missed>>

RecordWritten ==
    /\ Record
    /\ ~Debounced
    /\ Attempt(usage + 1, "record")
    /\ UNCHANGED flushIn

SaveDone ==
    /\ Writer!Unregister
    /\ dirty' = FALSE
    /\ sinceSave' = 0
    /\ waiting' = None
    /\ saver' = "none"
    /\ missed' = FALSE
    /\ UNCHANGED <<usage, flushIn, open>>

SaveFailed ==
    /\ Writer!Register
    /\ NotSaved(saver)
    /\ saver' = "none"
    /\ UNCHANGED <<usage, open, waiting, missed>>
------------------------------------------------------------------------------------
(* _flush_save: wakes up, save_if_dirty, done.                             *)

FlushDue ==
    /\ main = "idle"
    /\ flushIn = 0
    /\ flushIn' = None
    /\ UNCHANGED <<usage, open, waiting>>

FlushClean ==
    /\ FlushDue
    /\ ~dirty
    /\ UNCHANGED <<writer, dirty, sinceSave, saver, missed>>

FlushPutOff ==
    /\ FlushDue
    /\ dirty
    /\ Writer!WriteSkipped(usage)
    /\ dirty' = MarkedDirty
    /\ UNCHANGED <<sinceSave, saver, missed>>

FlushRaised ==
    /\ FlushDue
    /\ dirty
    /\ Raised(usage)

FlushWritten ==
    /\ FlushDue
    /\ dirty
    /\ Attempt(usage, "flush")

Flush == FlushClean \/ FlushPutOff \/ FlushRaised \/ FlushWritten
------------------------------------------------------------------------------------
(* RotatingClient.close: shutdown() saves by force, then the process ends. *)

Close ==
    /\ main = "idle"
    /\ open
    /\ open' = FALSE
    /\ UNCHANGED <<usage, flushIn, waiting>>

ClosePutOff ==
    /\ Close
    /\ Writer!WriteSkipped(usage)
    /\ dirty' = MarkedDirty
    /\ UNCHANGED <<sinceSave, saver, missed>>

CloseRaised ==
    /\ Close
    /\ Raised(usage)

CloseWritten ==
    /\ Close
    /\ Attempt(usage, "shutdown")

Exit ==
    /\ ~open
    /\ Writer!Exit
    /\ flushIn' = None
    /\ UNCHANGED <<usage, dirty, sinceSave, saver, open, waiting, missed>>

\* Memory is lost with the process.
Forgotten ==
    /\ usage' = 1
    /\ dirty' = FALSE
    /\ sinceSave' = Debounce
    /\ flushIn' = None
    /\ saver' = "none"
    /\ open' = FALSE
    /\ waiting' = None
    /\ missed' = FALSE

Exited == Writer!Exited /\ Forgotten

Crash == Writer!Crash /\ Forgotten

FreshStates == 1 \* mutant
FileOnly == file \* mutant
\* load(): nothing without a file, else what it holds.
Loaded == IF file = 0 THEN 1 ELSE file

\* initialize() when the file can be read.
Start ==
    /\ Writer!Start
    /\ behind' = FALSE
    /\ usage' = Loaded
    /\ open' = TRUE
    /\ UNCHANGED <<saving, waiting, missed>>

\* When it cannot, or is invalid, load() answers with no states.
StartUnread ==
    /\ Writer!Start
    /\ behind'
    /\ usage' = 1
    /\ open' = TRUE
    /\ UNCHANGED <<saving, waiting, missed>>

\* reload_from_disk: what was recorded since the file's state is undone, and
\* nothing of it waits any more.  A file that cannot be read changes nothing.
Reload ==
    /\ main = "idle"
    /\ open
    /\ file # 0
    /\ usage' = file
    /\ waiting' = None
    /\ IF file < current THEN Writer!GoBack ELSE UNCHANGED writer
    /\ UNCHANGED <<saving, open, missed>>
------------------------------------------------------------------------------------
\* Older(None) stays None; the event loop runs a flush that is due at once.
Tick ==
    /\ flushIn # 0
    /\ Writer!Tick
    /\ sinceSave' = Writer!Older(sinceSave, Debounce)
    /\ flushIn' = IF flushIn = None THEN None ELSE flushIn - 1
    /\ waiting' = IF waiting = None THEN None ELSE Writer!Older(waiting, Debounce + 1)
    /\ UNCHANGED <<usage, dirty, saver, open, missed>>

WriterSteps ==
    /\ Writer!Background
    /\ UNCHANGED <<usage, saving, open, waiting, missed>>

Next ==
    \/ RecordDebounced \/ RecordPutOff \/ RecordRaised \/ RecordWritten
    \/ SaveDone \/ SaveFailed
    \/ Flush
    \/ ClosePutOff \/ CloseRaised \/ CloseWritten
    \/ Exit \/ Exited \/ Crash \/ Start \/ StartUnread \/ Reload
    \/ WriterSteps
    \/ Tick

Spec == Init /\ [][Next]_vars
====================================================================================
