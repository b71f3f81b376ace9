---------------------------- MODULE StateWriter_proofs ----------------------------
(* Proofs about the resilient writer, for every interval and bound.        *)
EXTENDS StateWriterProps, TLAPS

\* The steps of the next-state relation, split as the proofs use them.
LEMMA Steps ==
    ASSUME [Next]_vars
    PROVE \/ \E v \in Version \ {0} : OwnerWrites(v) /\ WriteSkipped(v)
          \/ \E v \in Version \ {0} : OwnerWrites(v) /\ WriteStored(v)
          \/ \E v \in Version \ {0} : OwnerWrites(v) /\ WriteFailed(v)
          \/ \E v \in Version \ {0} : OwnerWrites(v) /\ WriteRaised(v)
          \/ Unregister
          \/ Register
          \/ \E t \in Thread : Copy(t)
          \/ \E t \in Thread : Move(t)
          \/ WakeUpForNothing
          \/ RetryFails
          \/ RetryRaises
          \/ Pop
          \/ Exit
          \/ Lost
          \/ Start
          \/ GoBack
          \/ DiskFails
          \/ DiskRecovers
          \/ Tick
          \/ UNCHANGED vars
  BY DEF Next, OwnerWrites, Write, Background, RetryThread, WakeUp, Retry, ExitCopy,
         FlushAtExit, Exited, Crash, Thread

\* A job that is replaced is still a function on the threads.
LEMMA DoingType ==
    ASSUME job \in [Thread -> Job], NEW t \in Thread, NEW v \in Version,
           NEW at \in {"off", "copied", "moved"}, at = "off" <=> v = 0, Doing(t, at, v)
    PROVE  job' \in [Thread -> Job]
  <1>1. [at |-> at, data |-> v] \in Job
    BY DEF Job
  <1> QED BY <1>1 DEF Doing

LEMMA JobTypes ==
    ASSUME TypeOK, NEW t \in Thread
    PROVE  /\ job[t].data \in Version /\ job[t].at \in {"off", "copied", "moved"}
           /\ job[t].at = "off" <=> job[t].data = 0
  <1>1. job[t] \in Job /\ 0 \in Version
    BY WriterAssumption DEF TypeOK, Version
  <1> QED BY <1>1 DEF Job

LEMMA NoJobsType == NoJobs \in [Thread -> Job]
  <1>1. [at |-> "off", data |-> 0] \in Job
    BY DEF Job
  <1> QED BY <1>1 DEF NoJobs
------------------------------------------------------------------------------------
\* The variables of the writer keep their types (resilient_io.py:71-89, 338-364).
THEOREM TypeCorrect == Spec => []TypeOK
  <1> USE WriterAssumption
  <1>1. Init => TypeOK
    <2>1. NoJobs \in [Thread -> Job]
      BY NoJobsType
    <2>2. Init => /\ disk \in BOOLEAN /\ healthy \in BOOLEAN /\ alive \in BOOLEAN
                  /\ raised \in BOOLEAN /\ behind \in BOOLEAN
      BY Zenon DEF Init
    <2> QED BY <2>1, <2>2 DEF Init, TypeOK, Version, Span
  <1>2. ASSUME TypeOK, [Next]_vars PROVE TypeOK'
    <2>1. ASSUME NEW v \in Version \ {0}, WriteSkipped(v) PROVE TypeOK'
      BY <1>2, <2>1 DEF TypeOK, WriteSkipped, AttemptSkipped, hardware, registry, history
    <2>2. ASSUME NEW v \in Version \ {0}, WriteStored(v) PROVE TypeOK'
      <3>1. raised' \in BOOLEAN
        BY <2>2, Zenon DEF WriteStored
      <3> QED BY <1>2, <2>2, <3>1 DEF TypeOK, WriteStored, Attempted, hardware, registry, Span
    <2>3. ASSUME NEW v \in Version \ {0}, WriteFailed(v) PROVE TypeOK'
      <3>1. raised' \in BOOLEAN
        BY <2>3, Zenon DEF WriteFailed
      <3> QED BY <1>2, <2>3, <3>1 DEF TypeOK, WriteFailed, Attempted, hardware, registry, Span
    <2>19. ASSUME NEW v \in Version \ {0}, WriteRaised(v) PROVE TypeOK'
      <3>1. raised' \in BOOLEAN
        BY <2>19, Zenon DEF WriteRaised
      <3> QED BY <1>2, <2>19, <3>1 DEF TypeOK, WriteRaised, Attempted, hardware, registry, Span
    <2>4. CASE Unregister
      <3>1. behind' \in BOOLEAN
        BY <2>4, Zenon DEF Unregister
      <3> QED BY <1>2, <2>4, <3>1 DEF TypeOK, Unregister, Unpended, hardware, Version
    <2>5. CASE Register
      BY <1>2, <2>5 DEF TypeOK, Register, hardware, history
    <2>6. ASSUME NEW t \in Thread, Copy(t) PROVE TypeOK'
      <3>1. job' \in [Thread -> Job]
        BY <1>2, <2>6, DoingType DEF TypeOK, Copy, Held
      <3> QED BY <1>2, <2>6, <3>1 DEF TypeOK, Copy, hardware, writer, history
    <2>7. ASSUME NEW t \in Thread, Move(t) PROVE TypeOK'
      <3>1. job[t].data \in Version \ {0}
        BY <1>2, <2>7, JobTypes DEF Move
      <3>2. job' \in [Thread -> Job]
        BY <1>2, <2>7, <3>1, DoingType DEF TypeOK, Move
      <3> QED BY <1>2, <2>7, <3>1, <3>2 DEF TypeOK, Move, hardware, writer, history
    <2>8. ASSUME Sleep, UNCHANGED <<hardware, file, writer, main, history>>,
                 pending' \in Version, alive' \in BOOLEAN
          PROVE TypeOK'
      <3>1. job' \in [Thread -> Job]
        <4>1. 0 \in Version /\ "retry" \in Thread
          BY DEF Version, Thread
        <4> QED BY <1>2, <2>8, <4>1, DoingType DEF TypeOK, Sleep
      <3> QED BY <1>2, <2>8, <3>1 DEF TypeOK, Sleep, hardware, writer, history, Span
    <2>9. CASE WakeUpForNothing
      BY <1>2, <2>8, <2>9 DEF TypeOK, WakeUpForNothing
    <2>10. CASE RetryFails
      BY <1>2, <2>8, <2>10 DEF TypeOK, RetryFails
    <2>11. CASE Pop
      BY <1>2, <2>8, <2>11 DEF TypeOK, Pop, Version
    <2>20. CASE RetryRaises
      <3>1. alive' \in BOOLEAN
        BY <2>20, Zenon DEF RetryRaises
      <3> QED BY <1>2, <2>8, <2>20, <3>1 DEF TypeOK, RetryRaises
    <2>12. CASE Exit
      BY <1>2, <2>12 DEF TypeOK, Exit, hardware, writer, registry, history
    <2>13. CASE Lost
      <3>1. job' \in [Thread -> Job]
        BY <2>13, NoJobsType DEF Lost
      <3>2. alive' \in BOOLEAN /\ raised' \in BOOLEAN /\ behind' \in BOOLEAN
        BY <2>13, Zenon DEF Lost
      <3> QED BY <1>2, <2>13, <3>1, <3>2 DEF TypeOK, Lost, hardware, Version, Span
    <2>14. CASE Start \/ GoBack
      <3>1. behind' \in BOOLEAN
        BY <2>14, Zenon DEF Start, GoBack
      <3> QED BY <1>2, <2>14, <3>1 DEF TypeOK, Start, GoBack, hardware, writer, registry
    <2>15. CASE DiskFails
      <3>1. disk' \in BOOLEAN /\ upFor' = 0
        BY <2>15, Zenon DEF DiskFails
      <3>2. upFor' \in Span
        BY <3>1 DEF Span
      <3> QED BY <1>2, <2>15, <3>1, <3>2 DEF TypeOK, DiskFails, writer, registry, history
    <2>16. CASE DiskRecovers
      BY <1>2, <2>16 DEF TypeOK, DiskRecovers, writer, registry, history
    <2>17. CASE Tick
      BY <1>2, <2>17 DEF TypeOK, Tick, Older, Less, Span, history
    <2>18. CASE UNCHANGED vars
      BY <1>2, <2>18 DEF TypeOK, vars, hardware, writer, registry, history
    <2> QED BY <1>2, Steps, <2>1, <2>2, <2>3, <2>4, <2>5, <2>6, <2>7, <2>9, <2>10,
               <2>11, <2>12, <2>13, <2>14, <2>15, <2>16, <2>17, <2>18, <2>19, <2>20
  <1> QED BY <1>1, <1>2, PTL DEF Spec
------------------------------------------------------------------------------------
\* The failure that made the writer unhealthy is at least as old as the
\* present spell of a working disk, unless an exception renewed the delay.
FailureIsOld ==
    /\ ~disk => upFor = 0
    /\ main # "unregister" /\ (~healthy \/ main = "register") /\ disk /\ ~raised
          => upFor <= sinceAttempt

LEMMA FailureIsOldInvariant == Spec => []FailureIsOld
  <1> USE WriterAssumption
  <1>1. Init => FailureIsOld
    BY DEF Init, FailureIsOld
  <1>2. ASSUME TypeOK, FailureIsOld, [Next]_vars PROVE FailureIsOld'
    <2>1. ASSUME NEW v \in Version \ {0}, WriteSkipped(v) PROVE FailureIsOld'
      BY <1>2, <2>1 DEF FailureIsOld, WriteSkipped, AttemptSkipped, hardware, history
    <2>2. ASSUME NEW v \in Version \ {0}, WriteStored(v) PROVE FailureIsOld'
      BY <1>2, <2>2 DEF FailureIsOld, WriteStored, hardware
    <2>14. ASSUME NEW v \in Version \ {0}, WriteRaised(v) PROVE FailureIsOld'
      BY <1>2, <2>14 DEF FailureIsOld, WriteRaised, hardware
    <2>3. ASSUME NEW v \in Version \ {0}, WriteFailed(v) PROVE FailureIsOld'
      BY <1>2, <2>3 DEF FailureIsOld, WriteFailed, Attempted, hardware
    <2>4. CASE Unregister
      BY <1>2, <2>4 DEF FailureIsOld, Unregister, hardware
    <2>5. CASE Register
      BY <1>2, <2>5 DEF FailureIsOld, Register, hardware, history
    <2>6. ASSUME UNCHANGED <<hardware, writer, main, raised>> PROVE FailureIsOld'
      BY <1>2, <2>6 DEF FailureIsOld, hardware, writer
    <2>7. ASSUME NEW t \in Thread, Copy(t) \/ Move(t) PROVE FailureIsOld'
      BY <2>6, <2>7 DEF Copy, Move, history
    <2>8. CASE WakeUpForNothing \/ RetryFails \/ RetryRaises \/ Pop
      BY <2>6, <2>8 DEF WakeUpForNothing, RetryFails, RetryRaises, Pop, history
    <2>15. CASE GoBack \/ UNCHANGED vars
      <3>1. UNCHANGED hardware /\ UNCHANGED writer /\ UNCHANGED main /\ UNCHANGED raised
        BY <2>15, Zenon DEF GoBack, vars, history
      <3> QED BY <2>6, <3>1
    <2>9. CASE Exit \/ Start
      <3>1. UNCHANGED hardware /\ UNCHANGED writer /\ UNCHANGED raised
        BY <2>9, Zenon DEF Exit, Start, history
      <3>2. main # "unregister" /\ main # "register" /\ main' # "unregister" /\ main' # "register"
        BY <2>9 DEF Exit, Start
      <3> QED BY <1>2, <3>1, <3>2 DEF FailureIsOld, hardware, writer
    <2>10. CASE Lost
      BY <1>2, <2>10 DEF FailureIsOld, Lost, hardware
    <2>11. CASE DiskFails
      BY <1>2, <2>11 DEF FailureIsOld, DiskFails
    <2>12. CASE DiskRecovers
      BY <1>2, <2>12 DEF FailureIsOld, DiskRecovers, writer, history, TypeOK, Span
    <2>13. CASE Tick
      BY <1>2, <2>13 DEF FailureIsOld, Tick, Older, history, TypeOK, Span
    <2> QED BY <1>2, Steps, <2>1, <2>2, <2>3, <2>4, <2>5, <2>7, <2>8, <2>9, <2>10,
               <2>11, <2>12, <2>13, <2>14, <2>15
  <1> QED BY <1>1, <1>2, TypeCorrect, PTL DEF Spec

\* A writer never puts off a write once the disk has worked for a retry
\* interval (resilient_io.py:383-388), unless an exception other than OSError
\* ended the last attempt.
THEOREM WriterRecovers == Spec => RecoversAfterInterval
  <1>1. ASSUME TypeOK, FailureIsOld, [Next]_vars
        PROVE  [\A v \in Version : WriteSkipped(v)
                    => ~disk \/ upFor < RetryInterval \/ raised]_vars
    BY <1>1, WriterAssumption DEF FailureIsOld, WriteSkipped, TooSoon, TypeOK, Span
  <1> QED BY <1>1, TypeCorrect, FailureIsOldInvariant, PTL
             DEF Spec, RecoversAfterInterval
------------------------------------------------------------------------------------
\* What is pending, and what is copied from it, is in the order it was written.
Ordered ==
    /\ pending <= current
    /\ main = "register" => file <= current
    /\ pending # 0 /\ main # "unregister" => file <= pending
    /\ \A t \in Thread : job[t].at # "off" =>
          /\ job[t].data <= current
          /\ pending # 0 => job[t].data <= pending

\* It is as long as the owner has not gone back, and again once the owner has
\* caught up.
OrderedAhead == (behind /\ main # "down") \/ Ordered

LEMMA OrderedInvariant == Spec => []OrderedAhead
  <1> USE WriterAssumption DEF OrderedAhead
  <1>1. Init => OrderedAhead
    BY DEF Init, Ordered, NoJobs, Thread
  <1>2. ASSUME TypeOK, OrderedAhead, [Next]_vars PROVE OrderedAhead'
    <2>15. CASE Unregister
      <3>1. \A t \in Thread : job'[t] = job[t] /\ job[t].data \in Int
        BY <1>2, <2>15, JobTypes DEF Unregister, Version
      <3>2. CASE behind
        <4>1. behind' \/ (file = current /\ \A t \in Thread : job[t].at = "off")
          BY <2>15, <3>2 DEF Unregister, CaughtUp
        <4> QED BY <1>2, <2>15, <3>1, <4>1 DEF Ordered, Unregister, Unpended, TypeOK, Version
      <3>3. CASE Ordered
        BY <1>2, <2>15, <3>1, <3>3 DEF Ordered, Unregister, Unpended, TypeOK, Version
      <3> QED BY <1>2, <3>2, <3>3
    <2>16. CASE Lost
      BY <2>16 DEF Ordered, Lost, NoJobs
    <2>17. CASE Start
      BY <1>2, <2>17 DEF Ordered, Start, writer, registry
    <2>18. CASE GoBack
      BY <2>18 DEF GoBack
    <2>19. SUFFICES ASSUME ~behind \/ main = "down", Ordered, ~Unregister, ~Lost, ~Start, ~GoBack
                    PROVE  Ordered'
      <3>1. UNCHANGED behind \/ Unregister \/ Lost \/ Start \/ GoBack
        BY <1>2, Steps DEF WriteSkipped, WriteStored, WriteFailed, WriteRaised, Register, Copy,
           Move, WakeUpForNothing, RetryFails, RetryRaises, Pop, Exit, DiskFails,
           DiskRecovers, Tick, vars, history
      <3>2. main' = "down" => main = "down" \/ Lost
        BY <1>2, Steps DEF WriteSkipped, WriteStored, WriteFailed, WriteRaised, Attempted,
           Register, Unregister, Copy, Start, GoBack,
           Move, WakeUpForNothing, RetryFails, RetryRaises, Pop, Exit, DiskFails,
           DiskRecovers, Tick, vars
      <3>3. CASE Unregister \/ Lost \/ Start \/ GoBack
        BY <3>3, <2>15, <2>16, <2>17, <2>18
      <3>4. CASE ~Unregister /\ ~Lost /\ ~Start /\ ~GoBack
        <4>1. CASE behind /\ main # "down"
          <5>1. behind' /\ main' # "down"
            BY <4>1, <3>4, <3>1, <3>2
          <5> QED BY <5>1
        <4>2. CASE Ordered /\ (~behind \/ main = "down")
          BY <4>2, <3>4, <2>19
        <4> QED BY <1>2, <4>1, <4>2
      <3> QED BY <3>3, <3>4
    <2> USE <1>2, <2>19
    <2>0. \A t \in Thread : job[t].data \in Int
      BY JobTypes DEF Version
    <2>1. ASSUME NEW v \in Version \ {0}, OwnerWrites(v), WriteSkipped(v) PROVE Ordered'
      BY <2>0, <2>1 DEF Ordered, OwnerWrites, WriteSkipped, registry, TypeOK, Version
    <2>2. ASSUME NEW v \in Version \ {0}, OwnerWrites(v), WriteStored(v) PROVE Ordered'
      BY <2>0, <2>2 DEF Ordered, OwnerWrites, WriteStored, Attempted, registry, TypeOK, Version
    <2>3. ASSUME NEW v \in Version \ {0}, OwnerWrites(v), WriteFailed(v) PROVE Ordered'
      BY <2>0, <2>3 DEF Ordered, OwnerWrites, WriteFailed, Attempted, registry, TypeOK, Version
    <2>4. ASSUME NEW v \in Version \ {0}, OwnerWrites(v), WriteRaised(v) PROVE Ordered'
      BY <2>0, <2>4 DEF Ordered, OwnerWrites, WriteRaised, Attempted, registry, TypeOK, Version
    <2>5. CASE Register
      BY <2>0, <2>5 DEF Ordered, Register, TypeOK, Version
    <2>6. ASSUME NEW t \in Thread, Copy(t) PROVE Ordered'
      <3>1. ASSUME NEW u \in Thread, job[u]'.at # "off"
            PROVE  /\ job[u]'.data <= current
                   /\ pending # 0 => job[u]'.data <= pending
        BY <2>0, <2>6, <3>1 DEF Ordered, Copy, Doing, TypeOK, Version
      <3> QED BY <2>6, <3>1 DEF Ordered, Copy, writer
    <2>7. ASSUME NEW t \in Thread, Move(t) PROVE Ordered'
      <3>1. \A u \in Thread : job[u]'.data = job[u].data /\ (job[u]'.at # "off" => job[u].at # "off")
        BY <2>7 DEF Move, Doing, TypeOK
      <3>2. /\ file' = job[t].data
            /\ job[t].data <= current
            /\ pending # 0 => job[t].data <= pending
        BY <2>7 DEF Ordered, Move
      <3> QED BY <2>7, <3>1, <3>2 DEF Ordered, Move, writer
    <2>8. ASSUME Sleep, UNCHANGED <<file, writer, main>>, pending' \in {pending, 0}
          PROVE Ordered'
      <3>1. \A u \in Thread : job[u]'.at # "off" => job[u]' = job[u]
        BY <2>8 DEF Sleep, Doing, TypeOK
      <3> QED BY <2>8, <3>1 DEF Ordered, writer, TypeOK, Version
    <2>9. CASE WakeUpForNothing \/ RetryFails \/ RetryRaises \/ Pop
      BY <2>8, <2>9 DEF WakeUpForNothing, RetryFails, RetryRaises, Pop
    <2>11. CASE Exit \/ DiskFails \/ DiskRecovers \/ UNCHANGED vars
      BY <2>11 DEF Ordered, Exit, DiskFails, DiskRecovers, vars, writer, registry
    <2>12. CASE Tick
      BY <2>12 DEF Ordered, Tick
    <2> QED BY Steps, <2>1, <2>2, <2>3, <2>4, <2>5, <2>6, <2>7, <2>9, <2>11, <2>12, <2>19
  <1> QED BY <1>1, <1>2, TypeCorrect, PTL DEF Spec

\* As long as the owner does not go back, only a stale copy takes the file back
\* (resilient_io.py:190-239).
THEOREM OnlyStaleCopies == Spec => BackwardsOnlyIfReplaced
  <1>1. ASSUME TypeOK, OrderedAhead, [Next]_vars
        PROVE  [file' < file => pending # file' \/ main = "unregister" \/ behind]_vars
    <2> SUFFICES ASSUME file' < file, pending = file', main # "unregister", ~behind
                 PROVE  FALSE
      OBVIOUS
    <2> USE <1>1, WriterAssumption
    <2>0. Ordered
      BY DEF OrderedAhead
    <2>1. ASSUME NEW v \in Version \ {0}, OwnerWrites(v), WriteStored(v) PROVE FALSE
      BY <2>1 DEF OwnerWrites, WriteStored, TypeOK, Version
    <2>2. ASSUME NEW t \in Thread, Move(t) PROVE FALSE
      <3>1. job[t].data \in Int /\ job[t].data # 0 /\ file' = job[t].data
        BY <2>2, JobTypes DEF Move, Version
      <3> QED BY <2>0, <2>2, <3>1 DEF Ordered, Move, TypeOK, Version
    <2>3. ASSUME UNCHANGED file PROVE FALSE
      BY <2>3 DEF TypeOK, Version
    <2> QED BY Steps, <2>1, <2>2, <2>3
            DEF WriteSkipped, WriteFailed, WriteRaised, Unregister, Register, Copy,
                WakeUpForNothing, RetryFails, RetryRaises, Pop, Exit, Lost, Start, GoBack,
                DiskFails, DiskRecovers, Tick, vars
  <1> QED BY <1>1, TypeCorrect, OrderedInvariant, PTL DEF Spec, BackwardsOnlyIfReplaced
====================================================================================
