-------------------------------- MODULE StateWriter --------------------------------
(***************************************************************************)
(* One state file, its ResilientStateWriter and the BufferedWriteRegistry  *)
(* that retries what could not be written (utils/resilient_io.py).         *)
(*                                                                         *)
(* The owner of the file hands complete states to write() on the event     *)
(* loop.  A failed write is registered; a daemon thread retries it every   *)
(* interval, and an exit handler of the main thread a last time.  Both go  *)
(* through _try_write, which copies the pending state under the registry's *)
(* lock, moves a temporary file over the state file without it, and        *)
(* removes the pending state under it again.                               *)
(*                                                                         *)
(* A state is a version, larger for a newer one; 0 is no state at all (the *)
(* file does not exist, nothing is pending, write() was never called).     *)
(* The owner's states get newer, until it goes back to an older one: that  *)
(* of a file that it could not load, or one that it loads while it runs.   *)
(* Times are kept as ages and countdowns, which stop where the code no     *)
(* longer tells them apart.                                                *)
(***************************************************************************)
EXTENDS Integers

CONSTANTS
    RetryInterval,   \* retry_interval of the writer and of the registry
    MaxVersion       \* bound: versions the owner may produce

ASSUME WriterAssumption ==
    /\ RetryInterval \in Nat \ {0}
    /\ MaxVersion \in Nat

VARIABLES
    disk,          \* writing works
    upFor,         \* for how long it has worked, if it does
    file,          \* version in the state file
    current,       \* _current_state
    healthy,       \* _disk_healthy
    sinceAttempt,  \* time.time() - _last_attempt
    pending,       \* BufferedWriteRegistry._pending[path]
    main,          \* what the main thread does
    job,           \* the two _try_write calls that may be under way
    retryIn,       \* how long the retry thread still sleeps
    alive,         \* no exception has ended the retry thread
    raised,        \* history: the last attempt ended in an exception of its own
    behind         \* history: the owner has gone back, and older states may be
                   \* newer than what it has stored since

hardware == <<disk, upFor>>
writer   == <<current, healthy, sinceAttempt>>
registry == <<pending, job, retryIn, alive>>
history  == <<raised, behind>>
vars     == <<hardware, file, writer, registry, main, history>>

Thread  == {"retry", "exit"}
Version == 0 .. MaxVersion
Span    == 0 .. RetryInterval
Job     == [at : {"off"}, data : {0}] \union
           [at : {"copied", "moved"}, data : Version \ {0}]

TypeOK ==
    /\ disk \in BOOLEAN
    /\ upFor \in Span
    /\ file \in Version
    /\ current \in Version
    /\ healthy \in BOOLEAN
    /\ sinceAttempt \in Span
    /\ pending \in Version
    /\ main \in {"idle", "unregister", "register", "exit", "down"}
    /\ job \in [Thread -> Job]
    /\ retryIn \in Span
    /\ alive \in BOOLEAN
    /\ raised \in BOOLEAN
    /\ behind \in BOOLEAN

NoJobs == [t \in Thread |-> [at |-> "off", data |-> 0]]

Init ==
    /\ disk = TRUE
    /\ upFor = RetryInterval
    /\ file = 0
    /\ current = 0
    /\ healthy = TRUE
    /\ sinceAttempt = RetryInterval
    /\ pending = 0
    /\ main = "idle"
    /\ job = NoJobs
    /\ retryIn = RetryInterval
    /\ alive = TRUE
    /\ raised = FALSE
    /\ behind = FALSE
------------------------------------------------------------------------------------
(* ResilientStateWriter.write, on the main thread.                         *)

TooSoon == ~healthy /\ sinceAttempt < RetryInterval

AttemptAtSkip == 0 \* mutant
\* A write that is skipped leaves _last_attempt alone.
AttemptSkipped == sinceAttempt

\* "Too soon to retry, data is safe in memory": write() returns False.
WriteSkipped(v) ==
    /\ main = "idle"
    /\ TooSoon
    /\ current' = v
    /\ sinceAttempt' = AttemptSkipped
    /\ UNCHANGED <<hardware, file, healthy, registry, main, history>>

\* _try_disk_write begins, and notes the time.
Attempted(v) ==
    /\ main = "idle"
    /\ ~TooSoon
    /\ current' = v
    /\ sinceAttempt' = 0

\* It moves the new file into place.
WriteStored(v) ==
    /\ Attempted(v)
    /\ disk
    /\ file' = v
    /\ main' = "unregister"
    /\ raised' = FALSE
    /\ UNCHANGED <<hardware, healthy, registry, behind>>

\* It gets an OSError.
WriteFailed(v) ==
    /\ Attempted(v)
    /\ ~disk
    /\ main' = "register"
    /\ raised' = FALSE
    /\ UNCHANGED <<hardware, file, healthy, registry, behind>>

\* It gets another exception, the serializer's for instance, and write() lets
\* it through: nothing but the time of the attempt is noted.
WriteRaised(v) ==
    /\ Attempted(v)
    /\ raised' = TRUE
    /\ UNCHANGED <<hardware, file, healthy, registry, main, behind>>

Write(v) == WriteSkipped(v) \/ WriteStored(v) \/ WriteFailed(v) \/ WriteRaised(v)

StillPending == pending \* mutant
\* unregister drops what an earlier write left pending.
Unpended == 0

\* What the owner wrote is stored, and nothing else is under way.
CaughtUp == file = current /\ \A t \in Thread : job[t].at = "off"

\* After success: write() returns True.
Unregister ==
    /\ main = "unregister"
    /\ healthy' = TRUE
    /\ pending' = Unpended
    /\ main' = "idle"
    /\ behind' = (behind /\ ~CaughtUp)
    /\ UNCHANGED <<hardware, file, current, sinceAttempt, job, retryIn, alive, raised>>

\* After failure, register_pending replaces what is pending: write() returns
\* False.
Register ==
    /\ main = "register"
    /\ healthy' = FALSE
    /\ pending' = current
    /\ main' = "idle"
    /\ UNCHANGED <<hardware, file, current, sinceAttempt, job, retryIn, alive, history>>
------------------------------------------------------------------------------------
(* BufferedWriteRegistry._try_write, by the retry thread or at exit.       *)

Doing(t, at, v) == job' = [job EXCEPT ![t] = [at |-> at, data |-> v]]

HeldUnchecked == TRUE \* mutant
\* The state may have been unregistered since the paths were listed.
Held == pending # 0

\* The copy, with the registry locked.
Copy(t) ==
    /\ job[t].at = "off"
    /\ Held
    /\ Doing(t, "copied", pending)
    /\ UNCHANGED <<hardware, file, writer, pending, retryIn, alive, main, history>>

\* The atomic move, with nothing locked.
Move(t) ==
    /\ job[t].at = "copied"
    /\ disk
    /\ file' = job[t].data
    /\ Doing(t, "moved", job[t].data)
    /\ UNCHANGED <<hardware, writer, pending, retryIn, alive, main, history>>

\* The exit handler clears _running, which the thread reads when it wakes up.
RunningIfHealthy == main \notin {"exit", "down"} /\ healthy \* mutant
Running == main \notin {"exit", "down"}

\* The retry thread goes back to sleep.
Sleep ==
    /\ Doing("retry", "off", 0)
    /\ retryIn' = RetryInterval

Woken ==
    /\ Running
    /\ alive
    /\ retryIn = 0
    /\ job["retry"].at = "off"

WakeUp ==
    /\ Woken
    /\ Copy("retry")

WakeUpForNothing ==
    /\ Woken
    /\ ~Held
    /\ Sleep
    /\ UNCHANGED <<hardware, file, writer, pending, alive, main, history>>

Retry == Move("retry")

\* An OSError: the state stays pending.
RetryFails ==
    /\ job["retry"].at = "copied"
    /\ ~disk
    /\ Sleep
    /\ UNCHANGED <<hardware, file, writer, pending, alive, main, history>>

\* Nothing catches another exception, of this file's serializer or of a file
\* that is tried before it: the thread ends, and what is pending stays so.
RetryRaises ==
    /\ Woken \/ job["retry"].at = "copied"
    /\ alive' = FALSE
    /\ Sleep
    /\ UNCHANGED <<hardware, file, writer, pending, main, history>>

\* _pending.pop(path): whatever is pending by now.
Pop ==
    /\ job["retry"].at = "moved"
    /\ pending' = 0
    /\ Sleep
    /\ UNCHANGED <<hardware, file, writer, alive, main, history>>

RetryThread == WakeUp \/ WakeUpForNothing \/ Retry \/ RetryFails \/ Pop
------------------------------------------------------------------------------------
(* The end of the process, and its next start.                             *)

\* The interpreter exits: it runs the exit handler on the main thread.
Exit ==
    /\ main = "idle"
    /\ main' = "exit"
    /\ UNCHANGED <<hardware, file, writer, registry, history>>

ExitCopy == main = "exit" /\ Copy("exit")

FlushAtExit == Move("exit")

\* Memory is lost, and the daemon thread with it.
Lost ==
    /\ current' = 0
    /\ healthy' = TRUE
    /\ sinceAttempt' = RetryInterval
    /\ pending' = 0
    /\ job' = NoJobs
    /\ retryIn' = RetryInterval
    /\ alive' = TRUE
    /\ raised' = FALSE
    /\ behind' = FALSE
    /\ main' = "down"
    /\ UNCHANGED <<hardware, file>>

\* The attempt of the exit handler fails or raises.
ExitFails == job["exit"].at = "copied"

\* Nothing is pending, or the last attempt is over.
Exited ==
    /\ main = "exit"
    /\ \/ job["exit"].at = "off" /\ ~Held
       \/ ExitFails
       \/ job["exit"].at = "moved"
    /\ Lost

Crash ==
    /\ main # "down"
    /\ Lost

\* The owner loads the file, or fails to and starts from nothing.
Start ==
    /\ main = "down"
    /\ main' = "idle"
    /\ behind' \in {FALSE, file # 0}
    /\ UNCHANGED <<hardware, file, writer, registry, raised>>

\* The owner goes back to an older state while it runs.
GoBack ==
    /\ main = "idle"
    /\ behind' = TRUE
    /\ UNCHANGED <<hardware, file, writer, registry, main, raised>>
------------------------------------------------------------------------------------
DiskFails ==
    /\ disk
    /\ disk' = FALSE
    /\ upFor' = 0
    /\ UNCHANGED <<file, writer, registry, main, history>>

DiskRecovers ==
    /\ ~disk
    /\ disk' = TRUE
    /\ UNCHANGED <<upFor, file, writer, registry, main, history>>

Older(age, limit) == IF age < limit THEN age + 1 ELSE limit
Less(rest)       == IF rest > 0 THEN rest - 1 ELSE 0

\* A write() blocks the event loop for less than a unit of time.
Tick ==
    /\ main \notin {"unregister", "register"}
    /\ upFor' = IF disk THEN Older(upFor, RetryInterval) ELSE 0
    /\ sinceAttempt' = Older(sinceAttempt, RetryInterval)
    /\ retryIn' = Less(retryIn)
    /\ UNCHANGED <<disk, file, current, healthy, pending, job, alive, main, history>>

Background ==
    \/ RetryThread \/ RetryRaises \/ ExitCopy \/ FlushAtExit
    \/ DiskFails \/ DiskRecovers

\* Unless it has gone back, the owner goes on from what it loaded or wrote last.
OwnerWrites(v) ==
    /\ behind \/ (v >= current /\ v >= file)
    /\ Write(v)

Next ==
    \/ \E v \in Version \ {0} : OwnerWrites(v)
    \/ Unregister \/ Register
    \/ Background
    \/ Exit \/ Exited \/ Crash \/ Start \/ GoBack
    \/ Tick

Spec == Init /\ [][Next]_vars

\* Threads are scheduled and time passes; disks, serializers and owners owe
\* nothing.
Fairness ==
    /\ WF_vars(Unregister \/ Register)
    /\ WF_vars(RetryThread)
    /\ WF_vars(ExitCopy \/ FlushAtExit \/ Exited)
    /\ WF_vars(Tick)

FairSpec == Spec /\ Fairness
====================================================================================
