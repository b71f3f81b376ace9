--------------------------- MODULE UsagePersistence_proofs ---------------------------
(* Proofs about the persistence of usage, for every interval, debounce time *)
(* and bound.  What StateWriter_proofs shows of the writer holds here once  *)
(* the manager is known to use it as it expects.                            *)
EXTENDS UsagePersistenceProps, TLAPS

Proved == INSTANCE StateWriter_proofs

\* The manager's steps that hand its state over to the writer...
HandsOver ==
    \/ RecordPutOff \/ RecordWritten
    \/ FlushPutOff \/ FlushWritten
    \/ ClosePutOff \/ CloseWritten
    \/ (RecordRaised \/ FlushRaised \/ CloseRaised) /\ Writer!WriteRaised(usage')

\* ...and the saves that end before they reach it.
NotHandedOver == (RecordRaised \/ FlushRaised \/ CloseRaised) /\ UNCHANGED writer

\* The steps of the next-state relation, split as the proofs use them.
LEMMA Steps ==
    ASSUME [Next]_vars
    PROVE \/ HandsOver
          \/ NotHandedOver
          \/ RecordDebounced
          \/ SaveDone
          \/ SaveFailed
          \/ FlushClean
          \/ Exit
          \/ Writer!Lost /\ Forgotten /\ Writer!Next
          \/ Start
          \/ StartUnread
          \/ Reload
          \/ WriterSteps
          \/ Tick
          \/ UNCHANGED vars
  <1>1. CASE RecordRaised
    <2>1. usage' = usage + 1 /\ (Writer!WriteRaised(usage + 1) \/ UNCHANGED writer)
      BY <1>1 DEF RecordRaised, Record, Raised
    <2>2. Writer!WriteRaised(usage') \/ UNCHANGED writer
      BY <2>1, Zenon
    <2> QED BY <1>1, <2>2 DEF HandsOver, NotHandedOver
  <1>2. CASE FlushRaised \/ CloseRaised
    <2>1. usage' = usage /\ (Writer!WriteRaised(usage) \/ UNCHANGED writer)
      BY <1>2 DEF FlushRaised, FlushDue, CloseRaised, Close, Raised
    <2>2. Writer!WriteRaised(usage') \/ UNCHANGED writer
      BY <2>1, Zenon
    <2> QED BY <1>2, <2>2 DEF HandsOver, NotHandedOver
  <1> QED BY <1>1, <1>2 DEF Next, HandsOver, Flush, Exited, Crash, Writer!Next, Writer!Exited,
             Writer!Crash
------------------------------------------------------------------------------------
\* What the writer keeps is typed, and unless the manager has gone back, nothing
\* the writer holds is newer than what is in memory; a file may be until it has
\* been loaded.
Newest ==
    /\ usage \in 1 .. MaxVersion
    /\ current \in 0 .. MaxVersion
    /\ pending \in 0 .. MaxVersion
    /\ file \in 0 .. MaxVersion
    /\ job \in [Writer!Thread -> Writer!Job]
    /\ main = "down" => ~behind /\ usage = 1
    /\ main \in {"unregister", "register"} => current = usage
    /\ ~behind => /\ pending <= current
                  /\ current <= usage
                  /\ \A t \in Writer!Thread : job[t].data <= current
                  /\ main # "down" => file <= usage

\* What is handed over is what is in memory after the step.
LEMMA HandedOver ==
    ASSUME Newest, HandsOver
    PROVE  /\ usage' \in usage .. MaxVersion
           /\ usage' \in Writer!Version \ {0}
           /\ behind \/ (usage' >= current /\ usage' >= file)
           /\ Writer!Write(usage')
  <1>1. Writer!Write(usage') /\ (usage' = usage \/ (usage < MaxVersion /\ usage' = usage + 1))
    <2>1. CASE RecordPutOff \/ RecordWritten
      <3>1. usage < MaxVersion /\ usage' = usage + 1
        BY <2>1 DEF RecordPutOff, RecordWritten, Record
      <3>2. Writer!Write(usage + 1)
        BY <2>1 DEF RecordPutOff, RecordWritten, Attempt, Writer!Write
      <3> QED BY <3>1, <3>2, Zenon
    <2>2. CASE FlushPutOff \/ FlushWritten \/ ClosePutOff \/ CloseWritten
      <3>1. usage' = usage
        BY <2>2 DEF FlushPutOff, FlushWritten, FlushDue, ClosePutOff, CloseWritten, Close
      <3>2. Writer!Write(usage)
        BY <2>2 DEF FlushPutOff, FlushWritten, ClosePutOff, CloseWritten, Attempt, Writer!Write
      <3> QED BY <3>1, <3>2, Zenon
    <2>3. CASE (RecordRaised \/ FlushRaised \/ CloseRaised) /\ Writer!WriteRaised(usage')
      BY <2>3 DEF RecordRaised, Record, FlushRaised, FlushDue, CloseRaised, Close, Writer!Write
    <2> QED BY <2>1, <2>2, <2>3 DEF HandsOver
  <1>2. main = "idle"
    BY <1>1 DEF Writer!Write, Writer!WriteSkipped, Writer!WriteStored, Writer!WriteFailed,
                Writer!WriteRaised, Writer!Attempted
  <1> QED BY <1>1, <1>2, PersistenceAssumption DEF Newest, Writer!Version

\* Every step of the manager is a step of its writer, or leaves it alone.
LEMMA WriterStep ==
    ASSUME Newest, [Next]_vars
    PROVE  [Writer!Next]_Writer!vars
  <1> DEFINE Same == UNCHANGED Writer!vars
  <1>0. UNCHANGED writer => Same
    BY DEF writer, Writer!vars, Writer!hardware, Writer!writer, Writer!registry, Writer!history
  <1>1. CASE HandsOver
    BY <1>1, HandedOver DEF Writer!Next, Writer!OwnerWrites
  <1>2. CASE RecordDebounced \/ NotHandedOver \/ FlushClean \/ UNCHANGED vars
    BY <1>0, <1>2 DEF RecordDebounced, NotHandedOver, FlushClean, vars
  <1>3. CASE SaveDone \/ SaveFailed
    BY <1>3 DEF SaveDone, SaveFailed, Writer!Next
  <1>5. CASE Exit \/ Start \/ StartUnread
    BY <1>5 DEF Exit, Start, StartUnread, Writer!Next
  <1>6. CASE WriterSteps \/ Tick
    BY <1>6 DEF WriterSteps, Tick, Writer!Next
  <1>7. CASE Reload
    BY <1>0, <1>7 DEF Reload, Writer!Next
  <1> QED BY Steps, <1>1, <1>2, <1>3, <1>5, <1>6, <1>7

LEMMA NewestInvariant == Spec => []Newest
  <1> USE PersistenceAssumption
  <1>0. [at |-> "off", data |-> 0] \in Writer!Job /\ 0 \in Writer!Version
    BY DEF Writer!Job, Writer!Version
  <1>1. Init => Newest
    <2>1. SUFFICES ASSUME Init PROVE Newest
      OBVIOUS
    <2>2. job \in [Writer!Thread -> Writer!Job] /\ \A t \in Writer!Thread : job[t].data = 0
      BY <2>1, <1>0 DEF Init, Writer!Init, Writer!NoJobs
    <2>3. ~behind
      BY <2>1, Zenon DEF Init, Writer!Init
    <2> QED BY <2>1, <2>2, <2>3 DEF Init, Writer!Init, Newest
  <1>2. ASSUME Newest, [Next]_vars PROVE Newest'
    <2> USE <1>2
    <2>0. \A t \in Writer!Thread : /\ job[t].data \in 0 .. MaxVersion
                                   /\ job[t].at = "off" <=> job[t].data = 0
      BY DEF Newest, Writer!Job, Writer!Version
    \* A job that is replaced is still a function on the threads.
    <2>1. ASSUME NEW t \in Writer!Thread, NEW at \in {"off", "copied", "moved"},
                 NEW v \in 0 .. MaxVersion, at = "off" <=> v = 0, Writer!Doing(t, at, v)
          PROVE  /\ job' \in [Writer!Thread -> Writer!Job]
                 /\ \A u \in Writer!Thread : job'[u].data = IF u = t THEN v ELSE job[u].data
      <3>1. [at |-> at, data |-> v] \in Writer!Job
        BY <2>1 DEF Writer!Job, Writer!Version
      <3> QED BY <2>1, <3>1 DEF Newest, Writer!Doing
    <2>3. CASE HandsOver
      <3>1. usage' \in usage .. MaxVersion /\ Writer!Write(usage')
        BY <2>3, HandedOver
      <3>2. /\ UNCHANGED <<job, behind>>
            /\ current' = usage' /\ pending' = pending /\ file' \in {file, usage'}
            /\ main = "idle" /\ main' \in {"idle", "unregister", "register"}
        BY <3>1 DEF Writer!Write, Writer!WriteSkipped, Writer!WriteStored, Writer!WriteFailed,
                    Writer!WriteRaised, Writer!Attempted, Writer!registry, Writer!history
      <3> QED BY <2>0, <3>1, <3>2 DEF Newest
    <2>4. CASE RecordDebounced \/ NotHandedOver
      <3>1. usage' \in usage .. MaxVersion
        BY <2>4 DEF RecordDebounced, NotHandedOver, RecordRaised, Record, FlushRaised, FlushDue,
                    CloseRaised, Close, Newest
      <3>2. main = "idle" /\ UNCHANGED writer
        BY <2>4 DEF RecordDebounced, NotHandedOver, RecordRaised, Record, FlushRaised, FlushDue,
                    CloseRaised, Close
      <3> QED BY <2>0, <3>1, <3>2 DEF Newest, writer
    <2>5. CASE SaveDone
      <3>1. /\ main = "unregister" /\ main' = "idle" /\ pending' = 0
            /\ UNCHANGED <<usage, current, file, job>>
            /\ behind' \/ ~behind
                 \/ (file = current /\ \A t \in Writer!Thread : job[t].at = "off")
        BY <2>5 DEF SaveDone, Writer!Unregister, Writer!Unpended, Writer!hardware,
                    Writer!CaughtUp
      <3> QED BY <2>0, <3>1 DEF Newest
    <2>6. CASE SaveFailed
      BY <2>0, <2>6 DEF SaveFailed, Writer!Register, Writer!hardware, Writer!history, Newest
    <2>7. CASE FlushClean
      BY <2>7 DEF FlushClean, FlushDue, writer, Newest
    <2>8. CASE Exit
      BY <2>8 DEF Exit, Writer!Exit, Writer!hardware, Writer!writer, Writer!registry,
                  Writer!history, Newest
    <2>9. CASE Writer!Lost /\ Forgotten
      <3>1. job' \in [Writer!Thread -> Writer!Job] /\ \A t \in Writer!Thread : job'[t].data = 0
        BY <2>9, <1>0 DEF Writer!Lost, Writer!NoJobs
      <3>2. ~behind'
        BY <2>9, Zenon DEF Writer!Lost
      <3> QED BY <2>9, <3>1, <3>2 DEF Newest, Writer!Lost, Forgotten
    <2>10. CASE Start \/ StartUnread
      <3>1. /\ main = "down" /\ main' = "idle" /\ usage = 1 /\ ~behind
            /\ UNCHANGED <<job, current, pending, file>>
        BY <2>10 DEF Newest, Start, StartUnread, Writer!Start, Writer!writer, Writer!registry
      <3>2. usage' \in 1 .. MaxVersion /\ (~behind' => file <= usage')
        BY <2>10 DEF Newest, Start, StartUnread, Loaded
      <3> QED BY <2>0, <3>1, <3>2 DEF Newest
    <2>11. CASE Reload
      <3>1. /\ main = "idle" /\ UNCHANGED <<job, current, pending, file, main>>
            /\ usage' = file /\ file # 0
            /\ behind' \/ (~(file < current) /\ UNCHANGED behind)
        BY <2>11 DEF Reload, writer, Writer!GoBack, Writer!writer, Writer!registry
      <3> QED BY <2>0, <3>1 DEF Newest
    <2>12. CASE WriterSteps
      <3> USE DEF Writer!hardware, Writer!writer, Writer!registry, Writer!history
      <3>1. usage' = usage
        BY <2>12 DEF WriterSteps
      <3>2. ASSUME NEW t \in Writer!Thread, Writer!Copy(t) PROVE Newest'
        <4>1. /\ job' \in [Writer!Thread -> Writer!Job]
              /\ \A u \in Writer!Thread : job'[u].data = IF u = t THEN pending ELSE job[u].data
          BY <2>1, <3>2 DEF Writer!Copy, Writer!Held, Newest
        <4> QED BY <2>0, <3>1, <3>2, <4>1 DEF Writer!Copy, Newest
      <3>3. ASSUME NEW t \in Writer!Thread, Writer!Move(t) PROVE Newest'
        <4>1. job[t].data \in 0 .. MaxVersion /\ job[t].data # 0
          BY <2>0, <3>3 DEF Writer!Move
        <4>2. /\ job' \in [Writer!Thread -> Writer!Job]
              /\ \A u \in Writer!Thread : job'[u].data = IF u = t THEN job[t].data ELSE job[u].data
          BY <2>1, <3>3, <4>1 DEF Writer!Move, Newest
        <4> QED BY <2>0, <3>1, <3>3, <4>1, <4>2 DEF Writer!Move, Newest
      <3>4. ASSUME Writer!Sleep, UNCHANGED <<file, current, main, behind>>, pending' \in {0, pending}
            PROVE  Newest'
        <4>1. /\ job' \in [Writer!Thread -> Writer!Job]
              /\ \A u \in Writer!Thread : job'[u].data = IF u = "retry" THEN 0 ELSE job[u].data
          BY <2>1, <3>4 DEF Writer!Sleep, Writer!Thread, Newest
        <4> QED BY <2>0, <3>1, <3>4, <4>1 DEF Newest
      <3>5. CASE Writer!RetryThread \/ Writer!RetryRaises
        BY <3>2, <3>3, <3>4, <3>5 DEF Writer!RetryThread, Writer!WakeUp, Writer!WakeUpForNothing,
           Writer!Retry, Writer!RetryFails, Writer!RetryRaises, Writer!Pop, Writer!Thread
      <3>6. CASE Writer!ExitCopy \/ Writer!FlushAtExit
        BY <3>2, <3>3, <3>6 DEF Writer!ExitCopy, Writer!FlushAtExit, Writer!Thread
      <3>7. CASE Writer!DiskFails \/ Writer!DiskRecovers
        BY <3>1, <3>7 DEF Writer!DiskFails, Writer!DiskRecovers, Newest
      <3> QED BY <2>12, <3>5, <3>6, <3>7 DEF WriterSteps, Writer!Background
    <2>13. CASE Tick
      BY <2>13 DEF Tick, Writer!Tick, Writer!history, Newest
    <2>14. CASE UNCHANGED vars
      BY <2>14 DEF vars, writer, Newest
    <2> QED BY Steps, <2>3, <2>4, <2>5, <2>6, <2>7, <2>8, <2>9, <2>10, <2>11, <2>12, <2>13,
               <2>14
  <1> QED BY <1>1, <1>2, PTL DEF Spec

\* The manager uses its writer as the writer expects (manager.py:2461-2481,
\* storage.py:84-127): every step is a step of StateWriter or none, those after a
\* load that failed and after reload_from_disk being steps behind its state.
THEOREM ManagerUsesWriter == Spec => UsesWriter
  <1>1. Init => Writer!Init
    BY DEF Init
  <1>2. Newest /\ [Next]_vars => [Writer!Next]_Writer!vars
    BY WriterStep
  <1> QED BY <1>1, <1>2, NewestInvariant, PTL DEF Spec, UsesWriter, Writer!Spec

\* The two instances of StateWriter are the same.
LEMMA SameWriter ==
    /\ Writer!Spec => Proved!Spec
    /\ Proved!TypeOK => Writer!TypeOK
  BY DEF Writer!Init, Proved!Init, Writer!Next, Proved!Next, Writer!Spec, Proved!Spec,
         Writer!vars, Proved!vars, Writer!hardware, Proved!hardware, Writer!writer,
         Proved!writer, Writer!registry, Proved!registry, Writer!Thread, Proved!Thread,
         Writer!Version, Proved!Version, Writer!Span, Proved!Span, Writer!Job, Proved!Job,
         Writer!TypeOK, Proved!TypeOK, Writer!NoJobs, Proved!NoJobs, Writer!TooSoon,
         Proved!TooSoon, Writer!AttemptSkipped, Proved!AttemptSkipped, Writer!WriteSkipped,
         Proved!WriteSkipped, Writer!WriteStored, Proved!WriteStored, Writer!WriteFailed,
         Proved!WriteFailed, Writer!Write, Proved!Write, Writer!Unpended, Proved!Unpended,
         Writer!Unregister, Proved!Unregister, Writer!Register, Proved!Register, Writer!Doing,
         Proved!Doing, Writer!Copy, Proved!Copy, Writer!Move, Proved!Move, Writer!Running,
         Proved!Running, Writer!Sleep, Proved!Sleep, Writer!WakeUp, Proved!WakeUp,
         Writer!WakeUpForNothing, Proved!WakeUpForNothing, Writer!Retry, Proved!Retry,
         Writer!RetryFails, Proved!RetryFails, Writer!Pop, Proved!Pop, Writer!RetryThread,
         Proved!RetryThread, Writer!Exit, Proved!Exit, Writer!ExitCopy, Proved!ExitCopy,
         Writer!FlushAtExit, Proved!FlushAtExit, Writer!Lost, Proved!Lost, Writer!Exited,
         Proved!Exited, Writer!Crash, Proved!Crash, Writer!Start, Proved!Start,
         Writer!DiskFails, Proved!DiskFails, Writer!DiskRecovers, Proved!DiskRecovers,
         Writer!Older, Proved!Older, Writer!Less, Proved!Less, Writer!Tick, Proved!Tick,
         Writer!Background, Proved!Background, Writer!history, Proved!history,
         Writer!Attempted, Proved!Attempted, Writer!WriteRaised, Proved!WriteRaised,
         Writer!Held, Proved!Held, Writer!Woken, Proved!Woken, Writer!RetryRaises,
         Proved!RetryRaises, Writer!ExitFails, Proved!ExitFails, Writer!CaughtUp,
         Proved!CaughtUp, Writer!OwnerWrites, Proved!OwnerWrites, Writer!GoBack,
         Proved!GoBack
------------------------------------------------------------------------------------
\* Types of what the manager and its storage keep besides the writer.
ManagerTypes ==
    /\ dirty \in BOOLEAN
    /\ sinceSave \in 0 .. Debounce
    /\ flushIn \in None .. Debounce
    /\ saver \in {"none", "record", "flush", "shutdown"}
    /\ open \in BOOLEAN
    /\ waiting \in None .. Debounce + 1
    /\ missed \in BOOLEAN

LEMMA ManagerTypesInvariant == Spec => []ManagerTypes
  <1> USE PersistenceAssumption DEF None
  <1> DEFINE Ages == /\ sinceSave \in 0 .. Debounce
                     /\ flushIn \in None .. Debounce
                     /\ waiting \in None .. Debounce + 1
  <1>1. Init => ManagerTypes
    <2>1. Init => dirty \in BOOLEAN /\ open \in BOOLEAN /\ missed \in BOOLEAN
      BY Zenon DEF Init
    <2>2. Init => Ages
      BY DEF Init, Ages
    <2> QED BY <2>1, <2>2 DEF Init, ManagerTypes, Ages
  <1>2. ASSUME ManagerTypes, [Next]_vars PROVE ManagerTypes'
    <2> USE <1>2 DEF ManagerTypes, MarkedDirty, Scheduled
    <2>12. CASE RecordRaised \/ FlushRaised \/ CloseRaised
      <3>1. missed' \in BOOLEAN /\ open' \in BOOLEAN
        BY <2>12, Zenon DEF RecordRaised, Record, FlushRaised, FlushDue, CloseRaised, Close, Raised
      <3>2. UNCHANGED <<dirty, sinceSave, saver>>
        BY <2>12 DEF RecordRaised, FlushRaised, CloseRaised, Raised
      <3>3. flushIn' \in {None, flushIn, Debounce} /\ waiting' \in {waiting, 0}
        BY <2>12 DEF RecordRaised, Record, FlushRaised, FlushDue, CloseRaised, Close
      <3> QED BY <3>1, <3>2, <3>3
    <2>1. CASE HandsOver
      <3>1. CASE RecordPutOff
        BY <3>1 DEF RecordPutOff, Record, NotSaved
      <3>2. CASE RecordWritten
        BY <3>2 DEF RecordWritten, Record, Attempt
      <3>3. CASE FlushPutOff \/ FlushWritten
        <4>1. UNCHANGED <<sinceSave, open, waiting, missed>> /\ flushIn' = None
          BY <3>3 DEF FlushPutOff, FlushWritten, FlushDue, Attempt
        <4>2. dirty' \in BOOLEAN /\ saver' \in {saver, "flush"}
          BY <3>3 DEF FlushPutOff, FlushWritten, FlushDue, Attempt
        <4> QED BY <4>1, <4>2
      <3>4. CASE ClosePutOff \/ CloseWritten
        BY <3>4 DEF ClosePutOff, CloseWritten, Close, Attempt
      <3>5. CASE RecordRaised \/ FlushRaised \/ CloseRaised
        BY <2>12, <3>5
      <3> QED BY <2>1, <3>1, <3>2, <3>3, <3>4, <3>5 DEF HandsOver
    <2>2. CASE RecordDebounced
      BY <2>2 DEF RecordDebounced, Record, NotSaved
    <2>3. CASE SaveDone
      <3>1. dirty' \in BOOLEAN /\ missed' \in BOOLEAN
        BY <2>3, Zenon DEF SaveDone
      <3> QED BY <2>3, <3>1 DEF SaveDone
    <2>4. CASE SaveFailed
      BY <2>4 DEF SaveFailed, NotSaved
    <2>5. CASE FlushClean
      <3>1. UNCHANGED <<dirty, sinceSave, saver, open, waiting, missed>> /\ flushIn' = None
        BY <2>5 DEF FlushClean, FlushDue
      <3> QED BY <3>1
    <2>6. CASE Exit
      BY <2>6 DEF Exit
    <2>7. CASE Forgotten
      <3>1. dirty' \in BOOLEAN /\ open' \in BOOLEAN /\ missed' \in BOOLEAN
        BY <2>7, Zenon DEF Forgotten
      <3> QED BY <2>7, <3>1 DEF Forgotten
    <2>8. CASE Start \/ StartUnread
      BY <2>8 DEF Start, StartUnread, saving
    <2>13. CASE Reload
      BY <2>13 DEF Reload, saving
    <2>9. CASE WriterSteps
      BY <2>9 DEF WriterSteps, saving
    <2>10. CASE Tick
      <3>1. UNCHANGED <<dirty, saver, open, missed>>
        BY <2>10 DEF Tick
      <3>2. sinceSave' \in 0 .. Debounce
        BY <2>10 DEF Tick, Writer!Older
      <3>3. flushIn' \in None .. Debounce
        BY <2>10 DEF Tick
      <3>4. waiting' \in None .. Debounce + 1
        BY <2>10 DEF Tick, Writer!Older
      <3> QED BY <3>1, <3>2, <3>3, <3>4
    <2>11. CASE UNCHANGED vars
      BY <2>11 DEF vars, saving
    <2> QED BY Steps, <2>1, <2>2, <2>3, <2>4, <2>5, <2>6, <2>7, <2>8, <2>9, <2>10, <2>11,
               <2>12, <2>13 DEF NotHandedOver
  <1> QED BY <1>1, <1>2, PTL DEF Spec

\* Every variable keeps its type, those of the writer because the manager
\* uses it as it expects (manager.py:2461-2481, storage.py:84-180).
THEOREM TypeCorrect == Spec => []TypeOK
  <1>1. Proved!Spec => []Proved!TypeOK
    BY PersistenceAssumption, Proved!TypeCorrect
  <1>2. Newest /\ Proved!TypeOK /\ ManagerTypes => TypeOK
    BY SameWriter DEF TypeOK, Newest, ManagerTypes
  <1> QED BY <1>1, <1>2, ManagerUsesWriter, SameWriter, NewestInvariant,
             ManagerTypesInvariant, PTL DEF UsesWriter
------------------------------------------------------------------------------------
\* Unless an exception has ended a save, an update that waits is marked, and while
\* the writer is healthy the flush task is under way and wakes up in time.
Timely ==
    /\ main \notin {"unregister", "register"} /\ ~dirty => waiting = None \/ missed
    /\ main = "down" => waiting = None
    /\ main = "idle" /\ healthy /\ waiting # None
          => missed \/ (flushIn # None /\ waiting + flushIn <= Debounce)

LEMMA TimelyInvariant == Spec => []Timely
  <1> USE PersistenceAssumption DEF None
  <1>1. Init => Timely
    BY DEF Init, Timely
  <1>2. ASSUME ManagerTypes, Timely, [Next]_vars PROVE Timely'
    <2> USE <1>2 DEF MarkedDirty, Scheduled
    <2>13. CASE RecordRaised \/ FlushRaised \/ CloseRaised
      <3>1. main' = "idle" /\ missed'
        BY <2>13 DEF RecordRaised, Record, FlushRaised, FlushDue, CloseRaised, Close, Raised,
                     Writer!WriteRaised, Writer!Attempted, writer
      <3> QED BY <3>1 DEF Timely
    <2>14. CASE Reload
      <3>1. main' = main /\ main = "idle" /\ waiting' = None
        BY <2>14 DEF Reload, Writer!GoBack, Writer!writer, writer
      <3> QED BY <3>1 DEF Timely
    <2>1. CASE RecordPutOff \/ FlushPutOff \/ ClosePutOff
      <3>1. main' = "idle" /\ ~healthy' /\ dirty'
        BY <2>1 DEF RecordPutOff, FlushPutOff, ClosePutOff, NotSaved, Writer!WriteSkipped,
                    Writer!TooSoon
      <3> QED BY <3>1 DEF Timely
    <2>2. CASE RecordWritten \/ FlushWritten \/ CloseWritten
      <3>1. main' \in {"unregister", "register"}
        BY <2>2 DEF RecordWritten, FlushWritten, CloseWritten, Attempt, Writer!WriteStored,
                    Writer!WriteFailed, Writer!Attempted
      <3> QED BY <3>1 DEF Timely
    <2>3. CASE RecordDebounced
      <3>1. dirty' /\ main = "idle" /\ main' = main /\ healthy' = healthy /\ missed' = missed
        BY <2>3 DEF RecordDebounced, Record, NotSaved, writer
      <3>2. /\ waiting' = IF waiting = None THEN 0 ELSE waiting
            /\ flushIn' = IF flushIn = None THEN Debounce ELSE flushIn
        BY <2>3 DEF RecordDebounced, Record, NotSaved
      <3> QED BY <3>1, <3>2 DEF Timely, ManagerTypes
    <2>4. CASE SaveDone
      BY <2>4 DEF SaveDone, Timely
    <2>5. CASE SaveFailed
      <3>1. main' = "idle" /\ ~healthy' /\ dirty'
        BY <2>5 DEF SaveFailed, NotSaved, Writer!Register
      <3> QED BY <3>1 DEF Timely
    <2>6. CASE FlushClean
      <3>1. /\ main = "idle" /\ ~dirty /\ UNCHANGED <<main, healthy, dirty, missed, waiting>>
        BY <2>6 DEF FlushClean, FlushDue, writer
      <3> QED BY <3>1 DEF Timely
    <2>7. CASE Exit
      <3>1. main = "idle" /\ main' = "exit" /\ UNCHANGED <<dirty, waiting, missed>>
        BY <2>7 DEF Exit, Writer!Exit
      <3> QED BY <3>1 DEF Timely
    <2>8. CASE Forgotten
      BY <2>8 DEF Forgotten, Timely
    <2>9. CASE Start \/ StartUnread
      <3>1. main = "down" /\ UNCHANGED waiting
        BY <2>9 DEF Start, StartUnread, Writer!Start
      <3> QED BY <3>1 DEF Timely
    <2>10. CASE WriterSteps
      <3>1. UNCHANGED <<main, healthy>>
        BY <2>10 DEF WriterSteps, Writer!Background, Writer!RetryThread, Writer!WakeUp,
           Writer!WakeUpForNothing, Writer!Retry, Writer!RetryFails, Writer!Pop,
           Writer!ExitCopy, Writer!FlushAtExit, Writer!Copy, Writer!Move,
           Writer!RetryRaises, Writer!DiskFails, Writer!DiskRecovers, Writer!writer
      <3> QED BY <2>10, <3>1 DEF WriterSteps, saving, Timely
    <2>11. CASE Tick
      <3>1. UNCHANGED <<main, healthy, dirty, missed>> /\ main \notin {"unregister", "register"}
        BY <2>11 DEF Tick, Writer!Tick
      <3>2. /\ flushIn # 0
            /\ flushIn' = IF flushIn = None THEN None ELSE flushIn - 1
            /\ waiting = None => waiting' = None
            /\ waiting # None => waiting' \in {waiting + 1, Debounce + 1}
            /\ waiting # None /\ waiting < Debounce + 1 => waiting' = waiting + 1
        BY <2>11 DEF Tick, Writer!Older
      <3> QED BY <3>1, <3>2 DEF Timely, ManagerTypes
    <2>12. CASE UNCHANGED vars
      BY <2>12 DEF vars, writer, saving, Timely
    <2> QED BY Steps, <2>1, <2>2, <2>3, <2>4, <2>5, <2>6, <2>7, <2>8, <2>9, <2>10, <2>11,
               <2>12, <2>13, <2>14 DEF HandsOver, NotHandedOver
  <1> QED BY <1>1, <1>2, ManagerTypesInvariant, PTL DEF Spec

\* For every debounce time, while the writer is healthy no update is left
\* unstored for longer (storage.py:146-149, manager.py:2461-2481), unless an
\* exception has ended a save (storage.py:182-184).
THEOREM UpdatesStoredInTime == Spec => []StoredInTime
  <1>1. ManagerTypes /\ Timely => StoredInTime
    BY PersistenceAssumption DEF ManagerTypes, Timely, StoredInTime, None
  <1> QED BY <1>1, ManagerTypesInvariant, TimelyInvariant, PTL

\* What is not marked dirty has been stored (storage.py:146-180), unless an
\* exception has ended a save (storage.py:182-184).
THEOREM CleanMeansStored == Spec => []CleanIsStored
  <1>1. Timely => CleanIsStored
    BY DEF Timely, CleanIsStored
  <1> QED BY <1>1, TimelyInvariant, PTL
------------------------------------------------------------------------------------
(* What is proved of the writer, for the writer in use.                    *)

\* A failure that makes the writer put saves off is as old as the present spell
\* of a working disk, so the interval that a save waits for ends in it; only an
\* attempt that an exception ended may be younger (resilient_io.py:383-388).
THEOREM SavesAreResumed == Spec => SavesResume
  <1>1. /\ Proved!Spec => []Proved!TypeOK
        /\ Proved!Spec => []Proved!FailureIsOld
    BY PersistenceAssumption, Proved!TypeCorrect, Proved!FailureIsOldInvariant
  <1>2. ASSUME Proved!TypeOK, Proved!FailureIsOld, [Next]_vars
        PROVE  [RecordPutOff \/ FlushPutOff \/ ClosePutOff
                    => ~disk \/ upFor < RetryInterval \/ raised]_vars
    <2>1. SUFFICES ASSUME RecordPutOff \/ FlushPutOff \/ ClosePutOff, disk, ~raised
                   PROVE  upFor < RetryInterval
      OBVIOUS
    <2>2. main = "idle" /\ ~healthy /\ sinceAttempt < RetryInterval
      BY <2>1 DEF RecordPutOff, FlushPutOff, ClosePutOff, Writer!WriteSkipped, Writer!TooSoon
    <2>3. upFor <= sinceAttempt
      BY <1>2, <2>1, <2>2 DEF Proved!FailureIsOld
    <2> QED BY <1>2, <2>2, <2>3, PersistenceAssumption DEF Proved!TypeOK, Proved!Span
  <1> QED BY <1>1, <1>2, ManagerUsesWriter, SameWriter, PTL DEF Spec, SavesResume, UsesWriter

\* The usage file goes back only by a stale copy (resilient_io.py:190-239), after
\* a load that failed (storage.py:99-100, 120-125) or after reload_from_disk
\* (manager.py:1706-1726), whatever saves, flushes, shutdowns and crashes come in
\* between.
THEOREM CountersKept == Spec => CountersGoBackOnlyBy
  <1>1. /\ Proved!Spec => []Proved!TypeOK
        /\ Proved!Spec => Proved!BackwardsOnlyIfReplaced
    BY PersistenceAssumption, Proved!TypeCorrect, Proved!OnlyStaleCopies
  <1>2. ASSUME Proved!TypeOK,
               [file' < file => pending # file' \/ main = "unregister" \/ behind]_Proved!vars
        PROVE  [file' < file => pending # file' \/ main = "unregister" \/ behind]_vars
    BY <1>2, PersistenceAssumption DEF Proved!vars, Proved!hardware, Proved!TypeOK, Proved!Version
  <1> QED BY <1>1, <1>2, ManagerUsesWriter, SameWriter, PTL
          DEF CountersGoBackOnlyBy, Proved!BackwardsOnlyIfReplaced, UsesWriter
=======================================================================================
