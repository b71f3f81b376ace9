------------------------ MODULE RequestExecutor_proofs ------------------------
(***************************************************************************)
(* Theorems about the executor, for any number of credentials and any      *)
(* limits, delays and deadline.  All rest on FailureStep, which says of    *)
(* the five handlers of errors together what they may do.                  *)
(***************************************************************************)
EXTENDS RequestExecutorProps, TLAPS

\* What makes the types inductive: at the threshold of quota failures the
\* request is on its way out, and a retry has an attempt left.
Under(pcNext, thenNext, streakNext) ==
    streakNext = QuotaThreshold => pcNext \in {"leave", "done"} /\ thenNext = "done"

Control ==
    /\ TypeOK
    /\ Under(pc, then, streak)
    /\ pc = "sleep" /\ then = "call" => AnotherAttempt
    /\ pc = "leave" => then # "call"
    /\ pc = "stream" => mode = "stream"

\* An error is handled.
Failed ==
    \/ \E e \in Error, d \in TransientDelay :
          \/ SingleFails(e, d)
          \/ EmbeddedError(e, d)
          \/ ConnectionError(e, d)
          \/ OtherError(e, d)
    \/ \E e \in Error, b \in Backoff : StatusError(e, b)

InTime(w) == w <= 0 \/ w <= left

FailureStep ==
    /\ Failing({"call", "stream"})
    /\ streak' \in 0 .. QuotaThreshold
    /\ sleepFor' \in Int
    /\ \/ pc' = "leave" /\ then' = "done" /\ result' = "failure"
       \/ /\ pc' = "sleep" /\ then' = "call" /\ result' \in {result, "failure"}
          /\ AnotherAttempt /\ InTime(sleepFor') /\ streak' < QuotaThreshold
       \/ /\ pc' = "sleep" /\ then' = "loop" /\ result' = "failure"
          /\ mode = "stream" => InTime(sleepFor')
          /\ streak' < QuotaThreshold
       \/ /\ pc' = "leave" /\ then' = "loop" /\ result' = result
          /\ mode = "stream" /\ AnotherAttempt /\ streak' < QuotaThreshold
-------------------------------------------------------------------------------
\* Waits are integers, and what a stream picks before a rotation fits.
LEMMA Waits ==
    ASSUME TypeOK, NEW e \in Error, NEW d \in TransientDelay
    PROVE  /\ d \in Nat
           /\ e.retryAfter \in Int
           /\ RetryWait(e, d) \in Int
           /\ SingleDelay(e) \subseteq Nat
           /\ \A w \in StreamDelay(e) : w \in Nat /\ InTime(w)
  <1>1. d \in Nat
    BY ExecutorAssumption
  <1>2. e.retryAfter \in RetryAfter \cup {-1}
    BY DEF Error, None
  <1>3. e.retryAfter \in Int
    <2>1. CASE e.retryAfter \in RetryAfter
      <3>1. \A r \in RetryAfter : r \in Int
        BY ExecutorAssumption
      <3>2. QED
        BY <2>1, <3>1, Zenon
    <2>2. CASE e.retryAfter = -1
      BY <2>2
    <2>3. QED
      BY <1>2, <2>1, <2>2
  <1>4. RetryWait(e, d) \in Int
    BY <1>1, <1>3 DEF RetryWait
  <1>5. SingleDelay(e) \subseteq Nat
    BY ExecutorAssumption DEF SingleDelay
  <1>6. \A w \in StreamDelay(e) : w \in Nat /\ InTime(w)
    BY <1>5 DEF StreamDelay, InTime, Fits
  <1>7. QED
    BY <1>1, <1>3, <1>4, <1>5, <1>6

\* The count of quota failures in a row, short of its limit.
LEMMA Streaks ==
    ASSUME Control, pc \in {"call", "stream"}, NEW e
    PROVE  /\ streak \in 0 .. QuotaThreshold /\ streak < QuotaThreshold
           /\ Streak(e) \in 0 .. QuotaThreshold
           /\ ~QuotaLimit(e) => Streak(e) < QuotaThreshold
  BY ExecutorAssumption DEF Control, TypeOK, Under, Streak, QuotaLimit

\* Every handler of errors ends the request, waits for another attempt that is
\* left and fits, rotates, or (streaming) leaves without a mark.
LEMMA Failures == Control /\ Failed => FailureStep
  <1>1. ASSUME Control, NEW e \in Error, NEW d \in TransientDelay,
               SingleFails(e, d)
        PROVE  FailureStep
    <2>1. pc \in {"call", "stream"}
      BY <1>1 DEF SingleFails, Failing
    <2>2. CASE QuotaLimit(e) \/ ~Rotatable(e)
      BY <1>1, <2>1, <2>2, Streaks
         DEF SingleFails, Failing, End, FailureStep, Control, TypeOK
    <2>3. CASE /\ ~QuotaLimit(e) /\ Rotatable(e)
               /\ RetrySame(e) /\ Fits(RetryWait(e, d))
      BY <1>1, <2>1, <2>3, Streaks, Waits
         DEF SingleFails, Failing, Retry, RetrySame, Fits, InTime, FailureStep, Control
    <2>4. CASE /\ ~QuotaLimit(e) /\ Rotatable(e)
               /\ ~(RetrySame(e) /\ Fits(RetryWait(e, d)))
      BY <1>1, <2>1, <2>4, Streaks, Waits
         DEF SingleFails, Failing, Rotate, Marked, FailureStep, Control
    <2>5. QED
      BY <2>2, <2>3, <2>4
  <1>2. ASSUME Control, NEW e \in Error, NEW d \in TransientDelay,
               EmbeddedError(e, d)
        PROVE  FailureStep
    <2>1. pc \in {"call", "stream"}
      BY <1>2 DEF EmbeddedError, Failing
    <2>2. CASE QuotaLimit(e) \/ ~Rotatable(e) \/ ~CanRetryStream
      BY <1>2, <2>1, <2>2, Streaks
         DEF EmbeddedError, Failing, End, FailureStep, Control, TypeOK
    <2>3. CASE /\ ~(QuotaLimit(e) \/ ~Rotatable(e) \/ ~CanRetryStream)
               /\ RetrySame(e) /\ (RetryWait(e, d) = 0 \/ Fits(RetryWait(e, d)))
      BY <1>2, <2>1, <2>3, Streaks, Waits
         DEF EmbeddedError, Failing, Retry, RetrySame, Fits, InTime, FailureStep, Control
    <2>4. CASE /\ ~(QuotaLimit(e) \/ ~Rotatable(e) \/ ~CanRetryStream)
               /\ ~(RetrySame(e) /\ (RetryWait(e, d) = 0 \/ Fits(RetryWait(e, d))))
      BY <1>2, <2>1, <2>4, Streaks, Waits
         DEF EmbeddedError, Failing, Rotate, Marked, FailureStep, Control
    <2>5. QED
      BY <2>2, <2>3, <2>4
  <1>3. ASSUME Control, NEW e \in Error, NEW d \in TransientDelay,
               ConnectionError(e, d)
        PROVE  FailureStep
    <2>1. pc \in {"call", "stream"}
      BY <1>3 DEF ConnectionError, Failing
    <2>2. CASE ~AnotherAttempt
      BY <1>3, <2>1, <2>2, Streaks, Waits
         DEF ConnectionError, Failing, Rotate, Marked, FailureStep, Control
    <2>3. CASE AnotherAttempt /\ (RetryWait(e, d) = 0 \/ Fits(RetryWait(e, d)))
      BY <1>3, <2>1, <2>3, Streaks, Waits
         DEF ConnectionError, Failing, Retry, Fits, InTime, FailureStep, Control
    <2>4. CASE AnotherAttempt /\ ~(RetryWait(e, d) = 0 \/ Fits(RetryWait(e, d)))
      BY <1>3, <2>1, <2>4, Streaks
         DEF ConnectionError, Failing, FailureStep, Control, TypeOK
    <2>5. QED
      BY <2>2, <2>3, <2>4
  <1>4. ASSUME Control, NEW e \in Error, NEW d \in TransientDelay,
               OtherError(e, d)
        PROVE  FailureStep
    <2>1. pc \in {"call", "stream"}
      BY <1>4 DEF OtherError, Failing
    <2>2. CASE ~Rotatable(e)
      BY <1>4, <2>1, <2>2, Streaks
         DEF OtherError, Failing, End, FailureStep, Control, TypeOK
    <2>3. CASE /\ Rotatable(e)
               /\ RetrySame(e) /\ (RetryWait(e, d) = 0 \/ Fits(RetryWait(e, d)))
      BY <1>4, <2>1, <2>3, Streaks, Waits
         DEF OtherError, Failing, Retry, RetrySame, Fits, InTime, FailureStep, Control
    <2>4. CASE /\ Rotatable(e)
               /\ ~(RetrySame(e) /\ (RetryWait(e, d) = 0 \/ Fits(RetryWait(e, d))))
      BY <1>4, <2>1, <2>4, Streaks, Waits
         DEF OtherError, Failing, Rotate, Marked, FailureStep, Control
    <2>5. QED
      BY <2>2, <2>3, <2>4
  <1>5. ASSUME Control, NEW e \in Error, NEW b \in Backoff, StatusError(e, b)
        PROVE  FailureStep
    <2>1. pc \in {"call", "stream"}
      BY <1>5 DEF StatusError, Failing
    <2>2. PICK d \in TransientDelay : TRUE
      BY ExecutorAssumption
    <2>3. StatusWait(e, b) \in Int
      <3>1. b \in Int
        BY DEF Backoff
      <3>2. e.retryAfter \in Int
        BY <1>5, <2>2, Waits DEF Control
      <3>3. QED
        BY <3>1, <3>2 DEF StatusWait
    <2>4. CASE QuotaLimit(e) \/ ~Rotatable(e)
      BY <1>5, <2>1, <2>4, Streaks
         DEF StatusError, Failing, End, FailureStep, Control, TypeOK
    <2>5. CASE /\ ~QuotaLimit(e) /\ Rotatable(e)
               /\ RetryStatus(e) /\ Fits(StatusWait(e, b))
      BY <1>5, <2>1, <2>3, <2>5, Streaks
         DEF StatusError, Failing, Retry, RetryStatus, Fits, InTime, FailureStep, Control
    <2>6. CASE /\ ~QuotaLimit(e) /\ Rotatable(e)
               /\ ~(RetryStatus(e) /\ Fits(StatusWait(e, b)))
      BY <1>5, <2>1, <2>2, <2>6, Streaks, Waits
         DEF StatusError, Failing, Rotate, Marked, FailureStep, Control
    <2>7. QED
      BY <2>4, <2>5, <2>6
  <1>6. QED
    BY <1>1, <1>2, <1>3, <1>4, <1>5 DEF Failed
-------------------------------------------------------------------------------
(* The type invariant.                                                     *)

LEMMA CallCounts ==
    ASSUME TypeOK, Call
    PROVE  calls' \in [Credential -> 0 .. MaxRetries + 1]
  <1> DEFINE Counted(n) == IF n > MaxRetries THEN n ELSE n + 1
  <1>1. calls' = [calls EXCEPT ![cred] = Counted(calls[cred])]
    BY DEF Call
  <1>2. ASSUME NEW n \in 0 .. MaxRetries + 1
        PROVE  Counted(n) \in 0 .. MaxRetries + 1
    BY ExecutorAssumption
  <1>3. calls \in [Credential -> 0 .. MaxRetries + 1]
    BY DEF TypeOK
  <1>4. QED
    <2> HIDE DEF Counted
    <2> QED
      BY <1>1, <1>2, <1>3

LEMMA ControlStep == Control /\ [Next]_vars => Control'
  <1> SUFFICES ASSUME Control, [Next]_vars
               PROVE  Control'
    OBVIOUS
  <1> USE ExecutorAssumption
  <1>1. CASE NextCredential
    BY <1>1 DEF NextCredential, Control, TypeOK, Under, AnotherAttempt, retry, history, Chunk
  <1>2. CASE Exhausted
    BY <1>2 DEF Exhausted, Control, TypeOK, Under, AnotherAttempt, retry, history, Chunk
  <1>3. CASE NoAvailableKeys
    BY <1>3 DEF NoAvailableKeys, Control, TypeOK, Under, AnotherAttempt, retry, history, Chunk
  <1>4. CASE \E c \in Credential : Acquired(c)
    BY <1>4 DEF Acquired, Untried, Control, TypeOK, Under, AnotherAttempt, history, Chunk
  <1>5. CASE PrepareFails
    BY <1>5 DEF PrepareFails, Control, TypeOK, Under, AnotherAttempt, retry, history, Chunk
  <1>6. CASE FirstCall
    BY <1>6, CallCounts DEF FirstCall, Call, Control, TypeOK, Under, AnotherAttempt, retry, Chunk
  <1>7. CASE CallAgain
    BY <1>7, CallCounts DEF CallAgain, Call, NextAttempt, Control, TypeOK, Under, AnotherAttempt, Chunk
  <1>8. CASE Slept
    BY <1>8 DEF Slept, Control, TypeOK, Under, AnotherAttempt, retry, history, Chunk
  <1>9. CASE Leave
    BY <1>9 DEF Leave, Recorded, Control, TypeOK, Under, AnotherAttempt, retry, Chunk
  <1>10. CASE Answer \/ StreamEnds
    BY <1>10 DEF Answer, StreamEnds, Answered, Control, TypeOK, Under, AnotherAttempt, retry, Chunk
  <1>11. CASE StreamOpens
    BY <1>11 DEF StreamOpens, Control, TypeOK, Under, AnotherAttempt, retry, history, Chunk
  <1>12. CASE \E k \in Chunk \ {"nothing"} : Yield(k)
    BY <1>12 DEF Yield, Control, TypeOK, Under, AnotherAttempt, retry, Chunk
  <1>13. CASE Disconnected
    BY <1>13 DEF Disconnected, Control, TypeOK, Under, AnotherAttempt, retry, Chunk
  <1>14. CASE Cancelled
    BY <1>14 DEF Cancelled, Control, TypeOK, Under, AnotherAttempt, retry, Chunk
  <1>15. CASE CancelledEarly
    BY <1>15 DEF CancelledEarly, Control, TypeOK, Under, AnotherAttempt, retry, Chunk
  <1>16. CASE Tick
    BY <1>16 DEF Tick, Control, TypeOK, Under, AnotherAttempt, retry, history, Chunk
  <1>17. CASE Failed
    <2>1. FailureStep
      BY <1>17, Failures
    <2>2. QED
      BY <2>1 DEF FailureStep, Failing, Control, TypeOK, Under, AnotherAttempt, history, Chunk
  <1>18. CASE UNCHANGED vars
    BY <1>18 DEF vars, Control, TypeOK, Under, AnotherAttempt, retry, history, Chunk
  <1>19. QED
    BY <1>1, <1>2, <1>3, <1>4, <1>5, <1>6, <1>7, <1>8, <1>9, <1>10, <1>11, <1>12,
       <1>13, <1>14, <1>15, <1>16, <1>17, <1>18
       DEF Next, Executor, Provider, Acquire, Failed

LEMMA ControlInit == Init => Control
  BY ExecutorAssumption DEF Init, Control, TypeOK, Under, AnotherAttempt, Chunk

\* Every variable keeps its type: no attempt beyond the last one starts, and
\* the count of quota failures never passes its threshold.
THEOREM TypeCorrect == Spec => []TypeOK
  <1>1. Control => TypeOK
    BY DEF Control
  <1>2. QED
    BY ControlInit, ControlStep, <1>1, PTL DEF Spec
-------------------------------------------------------------------------------
(* How often a credential is called.                                       *)

Open == {"prepare", "call", "stream", "sleep", "leave"}

\* Untried credentials have not been called, the one in use at most once for
\* each attempt up to this one.
Counts ==
    /\ pc \in Open => cred \in tried
    /\ \A c \in Credential : c \notin tried => calls[c] = 0
    /\ \A c \in Credential : calls[c] <= MaxRetries
    /\ pc = "prepare" => calls[cred] = 0 /\ attempt = 0
    /\ pc \in {"call", "stream", "sleep"} => calls[cred] <= attempt + 1

LEMMA CountsStep == Control /\ Counts /\ [Next]_vars => Counts'
  <1> SUFFICES ASSUME Control, Counts, [Next]_vars
               PROVE  Counts'
    OBVIOUS
  <1> USE ExecutorAssumption
  <1>1. CASE NextCredential
    BY <1>1 DEF NextCredential, retry, history, Counts, Open, Control, TypeOK, AnotherAttempt
  <1>2. CASE Exhausted
    BY <1>2 DEF Exhausted, retry, history, Counts, Open, Control, TypeOK, AnotherAttempt
  <1>3. CASE NoAvailableKeys
    BY <1>3 DEF NoAvailableKeys, retry, history, Counts, Open, Control, TypeOK, AnotherAttempt
  <1>4. CASE \E c \in Credential : Acquired(c)
    BY <1>4 DEF Acquired, Untried, history, Counts, Open, Control, TypeOK, AnotherAttempt
  <1>5. CASE PrepareFails
    BY <1>5 DEF PrepareFails, retry, history, Counts, Open, Control, TypeOK, AnotherAttempt
  <1>6. CASE FirstCall
    BY <1>6 DEF FirstCall, Call, retry, Counts, Open, Control, TypeOK, AnotherAttempt
  <1>7. CASE CallAgain
    BY <1>7 DEF CallAgain, Call, NextAttempt, Counts, Open, Control, TypeOK, AnotherAttempt
  <1>8. CASE Slept
    BY <1>8 DEF Slept, retry, history, Counts, Open, Control, TypeOK, AnotherAttempt
  <1>9. CASE Leave
    BY <1>9 DEF Leave, Recorded, retry, Counts, Open, Control, TypeOK, AnotherAttempt
  <1>10. CASE Answer \/ StreamEnds
    BY <1>10 DEF Answer, StreamEnds, Answered, retry, Counts, Open, Control, TypeOK, AnotherAttempt
  <1>11. CASE StreamOpens
    BY <1>11 DEF StreamOpens, retry, history, Counts, Open, Control, TypeOK, AnotherAttempt
  <1>12. CASE \E k \in Chunk \ {"nothing"} : Yield(k)
    BY <1>12 DEF Yield, retry, Counts, Open, Control, TypeOK, AnotherAttempt
  <1>13. CASE Disconnected
    BY <1>13 DEF Disconnected, retry, Counts, Open, Control, TypeOK, AnotherAttempt
  <1>14. CASE Cancelled
    BY <1>14 DEF Cancelled, retry, Counts, Open, Control, TypeOK, AnotherAttempt
  <1>15. CASE CancelledEarly
    BY <1>15 DEF CancelledEarly, retry, Counts, Open, Control, TypeOK, AnotherAttempt
  <1>16. CASE Tick
    BY <1>16 DEF Tick, retry, history, Counts, Open, Control, TypeOK, AnotherAttempt
  <1>17. CASE Failed
    <2>1. FailureStep
      BY <1>17, Failures
    <2>2. QED
      BY <2>1 DEF FailureStep, Failing, history, Counts, Open, Control, TypeOK, AnotherAttempt
  <1>18. CASE UNCHANGED vars
    BY <1>18 DEF vars, retry, history, Counts, Open, Control, TypeOK, AnotherAttempt
  <1>19. QED
    BY <1>1, <1>2, <1>3, <1>4, <1>5, <1>6, <1>7, <1>8, <1>9, <1>10, <1>11, <1>12,
       <1>13, <1>14, <1>15, <1>16, <1>17, <1>18
       DEF Next, Executor, Provider, Acquire, Failed

\* For any number of credentials and attempts, however errors mix, no
\* credential is called more often than it has attempts.
THEOREM CallsAreBounded == Spec => []CallsBounded
  <1>1. Init => Counts
    BY ExecutorAssumption DEF Init, Counts, Open
  <1>2. Counts => CallsBounded
    BY DEF Counts, CallsBounded
  <1>3. QED
    BY ControlInit, ControlStep, CountsStep, <1>1, <1>2, PTL DEF Spec
-------------------------------------------------------------------------------
(* Waits and the deadline.                                                 *)

LEMMA SleepsStep == Control /\ SleepsInTime /\ [Next]_vars => SleepsInTime'
  <1> SUFFICES ASSUME Control, SleepsInTime, [Next]_vars
               PROVE  SleepsInTime'
    OBVIOUS
  <1>1. CASE NextCredential
    BY <1>1 DEF NextCredential, retry, history, SleepsInTime, Control, TypeOK
  <1>2. CASE Exhausted
    BY <1>2 DEF Exhausted, retry, history, SleepsInTime, Control, TypeOK
  <1>3. CASE NoAvailableKeys
    BY <1>3 DEF NoAvailableKeys, retry, history, SleepsInTime, Control, TypeOK
  <1>4. CASE \E c \in Credential : Acquired(c)
    BY <1>4 DEF Acquired, Untried, history, SleepsInTime, Control, TypeOK
  <1>5. CASE PrepareFails
    BY <1>5 DEF PrepareFails, retry, history, SleepsInTime, Control, TypeOK
  <1>6. CASE FirstCall
    BY <1>6 DEF FirstCall, Call, retry, SleepsInTime, Control, TypeOK
  <1>7. CASE CallAgain
    BY <1>7 DEF CallAgain, Call, NextAttempt, SleepsInTime, Control, TypeOK
  <1>8. CASE Slept
    BY <1>8 DEF Slept, retry, history, SleepsInTime, Control, TypeOK
  <1>9. CASE Leave
    BY <1>9 DEF Leave, Recorded, retry, SleepsInTime, Control, TypeOK
  <1>10. CASE Answer \/ StreamEnds
    BY <1>10 DEF Answer, StreamEnds, Answered, retry, SleepsInTime, Control, TypeOK
  <1>11. CASE StreamOpens
    BY <1>11 DEF StreamOpens, retry, history, SleepsInTime, Control, TypeOK
  <1>12. CASE \E k \in Chunk \ {"nothing"} : Yield(k)
    BY <1>12 DEF Yield, retry, SleepsInTime, Control, TypeOK
  <1>13. CASE Disconnected
    BY <1>13 DEF Disconnected, retry, SleepsInTime, Control, TypeOK
  <1>14. CASE Cancelled
    BY <1>14 DEF Cancelled, retry, SleepsInTime, Control, TypeOK
  <1>15. CASE CancelledEarly
    BY <1>15 DEF CancelledEarly, retry, SleepsInTime, Control, TypeOK
  <1>16. CASE Tick
    BY <1>16 DEF Tick, retry, history, SleepsInTime, Control, TypeOK
  <1>17. CASE Failed
    <2>1. FailureStep
      BY <1>17, Failures
    <2>2. QED
      BY <2>1 DEF FailureStep, Failing, history, InTime, SleepsInTime, Control, TypeOK
  <1>18. CASE UNCHANGED vars
    BY <1>18 DEF vars, retry, history, SleepsInTime, Control, TypeOK
  <1>19. QED
    BY <1>1, <1>2, <1>3, <1>4, <1>5, <1>6, <1>7, <1>8, <1>9, <1>10, <1>11, <1>12,
       <1>13, <1>14, <1>15, <1>16, <1>17, <1>18
       DEF Next, Executor, Provider, Acquire, Failed

\* For any delays and deadline, a wait that another call follows, and every
\* wait of a stream, ends by the deadline.
THEOREM SleepsEndInTime == Spec => []SleepsInTime
  <1>1. Init => SleepsInTime
    BY DEF Init, SleepsInTime
  <1>2. QED
    BY ControlInit, ControlStep, SleepsStep, <1>1, PTL DEF Spec
-------------------------------------------------------------------------------
(* The recorded outcome.                                                   *)

\* What the mark means while the context is open.
Marks ==
    /\ result = "success" <=> reply = "answered"
    /\ reply # "none" => pc = "done" \/ (pc = "leave" /\ then = "done")
    /\ pc = "sleep" /\ then # "call" => result = "failure"
    /\ pc = "leave" /\ result = "none" =>
          \/ calls[cred] = 0
          \/ mode = "stream" /\ (reply = "gone" \/ AnotherAttempt)

LEMMA MarksStep == Control /\ Counts /\ Marks /\ [Next]_vars => Marks'
  <1> SUFFICES ASSUME Control, Counts, Marks, [Next]_vars
               PROVE  Marks'
    OBVIOUS
  <1>1. CASE NextCredential
    BY <1>1 DEF NextCredential, retry, history, Marks, Counts, Control, TypeOK, AnotherAttempt
  <1>2. CASE Exhausted
    BY <1>2 DEF Exhausted, retry, history, Marks, Counts, Control, TypeOK, AnotherAttempt
  <1>3. CASE NoAvailableKeys
    BY <1>3 DEF NoAvailableKeys, retry, history, Marks, Counts, Control, TypeOK, AnotherAttempt
  <1>4. CASE \E c \in Credential : Acquired(c)
    BY <1>4 DEF Acquired, Untried, history, Marks, Counts, Control, TypeOK, AnotherAttempt
  <1>5. CASE PrepareFails
    BY <1>5 DEF PrepareFails, retry, history, Marks, Counts, Control, TypeOK, AnotherAttempt
  <1>6. CASE FirstCall
    BY <1>6 DEF FirstCall, Call, retry, Marks, Counts, Control, TypeOK, AnotherAttempt
  <1>7. CASE CallAgain
    BY <1>7 DEF CallAgain, Call, NextAttempt, Marks, Counts, Control, TypeOK, AnotherAttempt
  <1>8. CASE Slept
    BY <1>8 DEF Slept, retry, history, Marks, Counts, Control, TypeOK, AnotherAttempt
  <1>9. CASE Leave
    BY <1>9 DEF Leave, Recorded, retry, Marks, Counts, Control, TypeOK, AnotherAttempt
  <1>10. CASE Answer \/ StreamEnds
    BY <1>10 DEF Answer, StreamEnds, Answered, retry, Marks, Counts, Control, TypeOK, AnotherAttempt
  <1>11. CASE StreamOpens
    BY <1>11 DEF StreamOpens, retry, history, Marks, Counts, Control, TypeOK, AnotherAttempt
  <1>12. CASE \E k \in Chunk \ {"nothing"} : Yield(k)
    BY <1>12 DEF Yield, retry, Marks, Counts, Control, TypeOK, AnotherAttempt
  <1>13. CASE Disconnected
    BY <1>13 DEF Disconnected, retry, Marks, Counts, Control, TypeOK, AnotherAttempt
  <1>14. CASE Cancelled
    BY <1>14 DEF Cancelled, retry, Marks, Counts, Control, TypeOK, AnotherAttempt
  <1>15. CASE CancelledEarly
    BY <1>15 DEF CancelledEarly, retry, Marks, Counts, Control, TypeOK, AnotherAttempt
  <1>16. CASE Tick
    BY <1>16 DEF Tick, retry, history, Marks, Counts, Control, TypeOK, AnotherAttempt
  <1>17. CASE Failed
    <2>1. FailureStep
      BY <1>17, Failures
    <2>2. QED
      BY <2>1 DEF FailureStep, Failing, history, Marks, Counts, Control, TypeOK, AnotherAttempt
  <1>18. CASE UNCHANGED vars
    BY <1>18 DEF vars, retry, history, Marks, Counts, Control, TypeOK, AnotherAttempt
  <1>19. QED
    BY <1>1, <1>2, <1>3, <1>4, <1>5, <1>6, <1>7, <1>8, <1>9, <1>10, <1>11, <1>12,
       <1>13, <1>14, <1>15, <1>16, <1>17, <1>18
       DEF Next, Executor, Provider, Acquire, Failed

LEMMA OutcomeStep ==
    Control /\ Counts /\ Marks /\ [Next]_vars =>
    [Leave =>
        /\ reply = "answered" => record'[cred] = "success"
        /\ record'[cred] = "success" =>
              \/ reply = "answered" \/ calls[cred] = 0
              \/ mode = "stream" /\ (reply = "gone" \/ AnotherAttempt)]_vars
  BY DEF Leave, Recorded, Marks, Counts, Open, Control, TypeOK

\* The recorded outcome is what the client has seen, with the exceptions that
\* OutcomeIsTrue names and no other.
THEOREM OutcomesAreTrue == Spec => OutcomeIsTrue
  <1>1. Init => Counts /\ Marks
    BY ExecutorAssumption DEF Init, Counts, Open, Marks
  <1>2. QED
    BY ControlInit, ControlStep, CountsStep, MarksStep, OutcomeStep, <1>1, PTL
       DEF Spec, OutcomeIsTrue
===============================================================================
