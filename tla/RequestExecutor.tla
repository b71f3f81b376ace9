------------------------------ MODULE RequestExecutor ------------------------------
(***************************************************************************)
(* How the executor serves one request (client/executor.py): it acquires a *)
(* credential, calls the provider, and after an error calls it again with  *)
(* the same credential, rotates to another one, or ends.  A request is     *)
(* answered at once or as a stream; the two have error handling of their   *)
(* own, the stream one for each kind of exception it can get.              *)
(*                                                                         *)
(* Acquiring is taken from the usage manager as what it promises: some     *)
(* credential the request has not tried, or NoAvailableKeys.  The provider *)
(* may take any time, and fail in any way the classification knows.        *)
(***************************************************************************)
EXTENDS Integers

CONSTANTS
    Credential,
    MaxRetries,         \* _get_max_retries: calls per credential
    QuotaThreshold,     \* quota_failure_threshold
    SmallCooldown,      \* SMALL_COOLDOWN_RETRY_THRESHOLD
    MaxRetryAfter,      \* RATE_LIMIT_MAX_RETRY_AFTER
    RetryAfter,         \* bound: what providers ask to wait
    TransientDelay,     \* what _get_transient_retry_delay may return
    ReasoningRetry,     \* STREAM_RETRY_ON_REASONING_ONLY
    Budget,             \* time from the start to the deadline
    NoCredential

ASSUME ExecutorAssumption ==
    /\ MaxRetries \in Nat \ {0}
    /\ QuotaThreshold \in Nat \ {0}
    /\ SmallCooldown \in Nat
    /\ MaxRetryAfter \in Nat
    /\ RetryAfter \subseteq Nat
    /\ TransientDelay \subseteq Nat /\ TransientDelay # {}
    /\ ReasoningRetry \in BOOLEAN
    /\ Budget \in Nat \ {0}
    /\ NoCredential \notin Credential

VARIABLES
    mode,       \* is the request answered at once or streamed?
    left,       \* deadline - time.time(), -1 for all that is past it
    pc,
    tried,      \* retry_state.tried_credentials
    cred,       \* credential of the open CredentialContext
    attempt,
    streak,     \* retry_state.consecutive_quota_failures
    result,     \* CredentialContext._result
    chunk,      \* last_streamed_chunk
    sleepFor,
    then,       \* where the sleep or the context's exit leads
    record,     \* the outcome recorded for each credential
    emitted,    \* the last chunk the client got of any attempt
    reply,      \* what became of the provider's answer
    calls       \* how often each credential was used, counted up to one too often

retry   == <<tried, cred, attempt, streak>>
history == <<record, emitted, reply, calls>>
vars    == <<mode, left, pc, retry, result, chunk, sleepFor, then, history>>

None  == -1
Chunk == {"nothing", "reasoning", "content"}

\* What tells one classified error from another; "server_error" is also
\* "api_connection", "invalid_request" all that is not worth a rotation.
ErrorType == {"invalid_request", "quota_exceeded", "rate_limit", "server_error", "other"}
Error     == [type : ErrorType, retryAfter : RetryAfter \cup {None}]

TypeOK ==
    /\ mode \in {"single", "stream"}
    /\ left \in -1 .. Budget
    /\ pc \in {"loop", "acquire", "prepare", "call", "stream", "sleep", "leave", "done"}
    /\ tried \subseteq Credential
    /\ cred \in Credential \cup {NoCredential}
    /\ attempt \in 0 .. MaxRetries - 1
    /\ streak \in 0 .. QuotaThreshold
    /\ result \in {"none", "success", "failure"}
    /\ chunk \in Chunk
    /\ sleepFor \in Int
    /\ then \in {"call", "loop", "done"}
    /\ record \in [Credential -> {"none", "success", "failure"}]
    /\ emitted \in Chunk
    /\ reply \in {"none", "answered", "gone"}
    /\ calls \in [Credential -> 0 .. MaxRetries + 1]

Init ==
    /\ mode \in {"single", "stream"}
    /\ left = Budget
    /\ pc = "loop"
    /\ tried = {}
    /\ cred = NoCredential
    /\ attempt = 0
    /\ streak = 0
    /\ result = "none"
    /\ chunk = "nothing"
    /\ sleepFor = 0
    /\ then = "loop"
    /\ record = [c \in Credential |-> "none"]
    /\ emitted = "nothing"
    /\ reply = "none"
    /\ calls = [c \in Credential |-> 0]
------------------------------------------------------------------------------------
(* The loop over credentials.                                              *)

UntriedIgnored == Credential \* mutant
Untried == Credential \ tried

NextCredential ==
    /\ pc = "loop"
    /\ left > 0
    /\ Untried # {}
    /\ pc' = "acquire"
    /\ UNCHANGED <<mode, left, retry, result, chunk, sleepFor, then, history>>

\* All credentials tried, or no time left.
Exhausted ==
    /\ pc = "loop"
    /\ left <= 0 \/ Untried = {}
    /\ pc' = "done"
    /\ UNCHANGED <<mode, left, retry, result, chunk, sleepFor, then, history>>

NoAvailableKeys ==
    /\ pc = "acquire"
    /\ pc' = "done"
    /\ UNCHANGED <<mode, left, retry, result, chunk, sleepFor, then, history>>

Acquired(c) ==
    /\ pc = "acquire"
    /\ left > 0
    /\ c \in Untried
    /\ pc' = "prepare"
    /\ cred' = c
    /\ tried' = tried \cup {c}
    /\ attempt' = 0
    /\ result' = "none"
    /\ UNCHANGED <<mode, left, streak, chunk, sleepFor, then, history>>

\* "Let context manager handle cleanup".
PrepareFails ==
    /\ pc = "prepare"
    /\ pc' = "leave"
    /\ then' = "loop"
    /\ UNCHANGED <<mode, left, retry, result, chunk, sleepFor, history>>

\* The next round of the loop over attempts.
Call ==
    /\ pc' = "call"
    /\ chunk' = "nothing"
    /\ calls' = [calls EXCEPT ![cred] = IF @ > MaxRetries THEN @ ELSE @ + 1]
    /\ UNCHANGED <<record, emitted, reply>>

FirstCall ==
    /\ pc = "prepare"
    /\ Call
    /\ UNCHANGED <<mode, left, retry, result, sleepFor, then>>

AttemptKept == attempt \* mutant
NextAttempt == attempt + 1

CallAgain ==
    /\ pc = "sleep"
    /\ sleepFor = 0
    /\ then = "call"
    /\ Call
    /\ attempt' = NextAttempt
    /\ UNCHANGED <<mode, left, tried, cred, streak, result, sleepFor, then>>

Slept ==
    /\ pc = "sleep"
    /\ sleepFor = 0
    /\ then # "call"
    /\ pc' = "leave"
    /\ UNCHANGED <<mode, left, retry, result, chunk, sleepFor, then, history>>

\* CredentialContext.__aexit__: what is not marked is a success.
Recorded == IF result = "failure" THEN "failure" ELSE "success"

Leave ==
    /\ pc = "leave"
    /\ record' = [record EXCEPT ![cred] = Recorded]
    /\ pc' = then
    /\ UNCHANGED <<mode, left, retry, result, chunk, sleepFor, then, emitted, reply, calls>>
------------------------------------------------------------------------------------
(* The provider's answer.                                                  *)

\* mark_success, and the response is returned or the stream ends with [DONE].
Answered(from) ==
    /\ pc = from
    /\ pc' = "leave"
    /\ then' = "done"
    /\ result' = "success"
    /\ reply' = "answered"
    /\ UNCHANGED <<mode, left, retry, chunk, sleepFor, record, emitted, calls>>

Answer == mode = "single" /\ Answered("call")

StreamOpens ==
    /\ mode = "stream"
    /\ pc = "call"
    /\ pc' = "stream"
    /\ UNCHANGED <<mode, left, retry, result, chunk, sleepFor, then, history>>

Yield(k) ==
    /\ pc = "stream"
    /\ chunk' = k
    /\ emitted' = k
    /\ UNCHANGED <<mode, left, pc, retry, result, sleepFor, then, record, reply, calls>>

StreamEnds == Answered("stream")

\* "Client disconnected. Aborting stream": neither marked nor an exception.
Disconnected ==
    /\ pc = "stream"
    /\ pc' = "leave"
    /\ then' = "done"
    /\ reply' = "gone"
    /\ UNCHANGED <<mode, left, retry, result, chunk, sleepFor, record, emitted, calls>>

\* The request's task is cancelled: no context is open yet, or it exits with
\* an exception.
CancelledEarly ==
    /\ pc = "acquire"
    /\ pc' = "done"
    /\ reply' = "gone"
    /\ UNCHANGED <<mode, left, retry, result, chunk, sleepFor, then, record, emitted, calls>>

Cancelled ==
    /\ pc \in {"prepare", "call", "stream", "sleep"}
    /\ pc' = "leave"
    /\ then' = "done"
    /\ result' = IF result = "none" THEN "failure" ELSE result
    /\ reply' = "gone"
    /\ sleepFor' = 0
    /\ UNCHANGED <<mode, left, retry, chunk, record, emitted, calls>>
------------------------------------------------------------------------------------
(* What error handling looks at (error_handler.py).                        *)

Rotatable(e) == e.type # "invalid_request"

Transient(e) == e.type \in {"server_error", "rate_limit"}

Quota(e) == e.type \in {"rate_limit", "quota_exceeded"}

ShortWait(e) == e.retryAfter > 0 /\ e.retryAfter < SmallCooldown

AcceptedWait(e) == e.retryAfter > 0 /\ e.retryAfter <= MaxRetryAfter

ShouldRetrySameKey(e) ==
    IF e.retryAfter # None
    THEN ShortWait(e)
    ELSE e.type \in {"server_error", "rate_limit", "quota_exceeded"}

AnotherAttempt == attempt < MaxRetries - 1

RetrySame(e) ==
    /\ AnotherAttempt
    /\ ShouldRetrySameKey(e) \/ (e.type = "rate_limit" /\ AcceptedWait(e))

\* Whether a wait of w fits into the deadline.
FitsAlways(w) == TRUE \* mutant
Fits(w) == w <= left

RetryWait(e, d) == IF e.retryAfter # None THEN e.retryAfter ELSE d

\* The quota failures in a row, this error included.
Streak(e) == IF e.type = "quota_exceeded" THEN streak + 1 ELSE 0

QuotaLimitLate(e) == e.type = "quota_exceeded" /\ streak + 1 > QuotaThreshold \* mutant
QuotaLimit(e) == e.type = "quota_exceeded" /\ streak + 1 >= QuotaThreshold

CanRetryStream == chunk = "nothing" \/ (ReasoningRetry /\ chunk = "reasoning")
------------------------------------------------------------------------------------
(* What error handling does.                                               *)

End ==
    /\ result' = "failure"
    /\ pc' = "leave"
    /\ then' = "done"
    /\ UNCHANGED sleepFor

Retry(w) ==
    /\ sleepFor' = w
    /\ pc' = "sleep"
    /\ then' = "call"

MarkedLast == IF AnotherAttempt THEN result ELSE "failure" \* mutant
Marked == "failure"

\* The context stays open while the request sleeps for one of the delays.
Rotate(delays) ==
    /\ result' = Marked
    /\ sleepFor' \in delays
    /\ pc' = "sleep"
    /\ then' = "loop"

SingleDelay(e) == IF Transient(e) THEN TransientDelay ELSE {0}

\* A stream skips a delay that does not fit.
StreamDelay(e) == {IF Fits(d) THEN d ELSE 0 : d \in SingleDelay(e)}

Failing(from) ==
    /\ pc \in from
    /\ UNCHANGED <<mode, left, tried, cred, attempt, chunk, history>>

\* _handle_error_with_context.
SingleFails(e, d) ==
    /\ mode = "single"
    /\ Failing({"call"})
    /\ streak' = Streak(e)
    /\ IF QuotaLimit(e) \/ ~Rotatable(e)
       THEN End
       ELSE IF RetrySame(e) /\ Fits(RetryWait(e, d))
       THEN Retry(RetryWait(e, d)) /\ UNCHANGED result
       ELSE Rotate(SingleDelay(e))

\* except StreamedAPIError: an error among the chunks, or no stream at all.
\* wrap_stream has marked it a failure, unless it only found partial JSON.
EmbeddedError(e, d) ==
    /\ Failing({"stream"})
    /\ streak' = Streak(e)
    /\ IF QuotaLimit(e) \/ ~Rotatable(e) \/ ~CanRetryStream
       THEN End
       ELSE IF RetrySame(e) /\ (RetryWait(e, d) = 0 \/ Fits(RetryWait(e, d)))
       THEN Retry(RetryWait(e, d)) /\ result' \in {result, "failure"}
       ELSE Rotate(StreamDelay(e))

\* 2 ** attempt and up to a second.
Backoff == 2^attempt .. 2^attempt + 1

\* The wait of a stream after a RateLimitError or HTTPStatusError, b being
\* the backoff.
StatusWait(e, b) == IF e.retryAfter \in {None, 0} THEN b ELSE e.retryAfter

RetryStatus(e) ==
    /\ AnotherAttempt
    /\ \/ ShortWait(e)
       \/ Quota(e) /\ AcceptedWait(e)
       \/ Quota(e) /\ e.retryAfter \in {None, 0}

\* except (RateLimitError, httpx.HTTPStatusError).
StatusError(e, b) ==
    /\ mode = "stream"
    /\ Failing({"call", "stream"})
    /\ streak' = Streak(e)
    /\ IF QuotaLimit(e) \/ ~Rotatable(e)
       THEN End
       ELSE IF RetryStatus(e) /\ Fits(StatusWait(e, b))
       THEN Retry(StatusWait(e, b)) /\ UNCHANGED result
       ELSE Rotate(StreamDelay(e))

\* except (APIConnectionError, InternalServerError, ServiceUnavailableError).
ConnectionError(e, d) ==
    /\ mode = "stream"
    /\ Failing({"call", "stream"})
    /\ e.type = "server_error"
    /\ UNCHANGED streak
    /\ IF ~AnotherAttempt
       THEN Rotate(StreamDelay(e))
       ELSE IF RetryWait(e, d) = 0 \/ Fits(RetryWait(e, d))
       THEN Retry(RetryWait(e, d)) /\ UNCHANGED result
       ELSE \* "No time to wait"
            pc' = "leave" /\ then' = "loop" /\ UNCHANGED <<result, sleepFor>>

\* except Exception.
OtherError(e, d) ==
    /\ mode = "stream"
    /\ Failing({"call", "stream"})
    /\ UNCHANGED streak
    /\ IF ~Rotatable(e)
       THEN End
       ELSE IF RetrySame(e) /\ (RetryWait(e, d) = 0 \/ Fits(RetryWait(e, d)))
       THEN Retry(RetryWait(e, d)) /\ UNCHANGED result
       ELSE Rotate(StreamDelay(e))
------------------------------------------------------------------------------------
\* Time passes while the request waits for something; a sleep ends in time.
Tick ==
    /\ pc \in {"acquire", "call", "stream"} \/ (pc = "sleep" /\ sleepFor > 0)
    /\ left' = IF left > -1 THEN left - 1 ELSE -1
    /\ sleepFor' = IF pc = "sleep" THEN sleepFor - 1 ELSE sleepFor
    /\ UNCHANGED <<mode, pc, retry, result, chunk, then, history>>

Executor ==
    \/ NextCredential \/ Exhausted
    \/ FirstCall \/ PrepareFails
    \/ CallAgain \/ Slept \/ Leave

Provider ==
    \/ Answer \/ StreamOpens \/ StreamEnds
    \/ \E e \in Error, d \in TransientDelay :
          \/ SingleFails(e, d)
          \/ EmbeddedError(e, d)
          \/ ConnectionError(e, d)
          \/ OtherError(e, d)
    \/ \E e \in Error, b \in Backoff : StatusError(e, b)

Acquire == NoAvailableKeys \/ \E c \in Credential : Acquired(c)

Next ==
    \/ Executor
    \/ Acquire
    \/ Provider
    \/ \E k \in Chunk \ {"nothing"} : Yield(k)
    \/ Disconnected \/ Cancelled \/ CancelledEarly
    \/ Tick

Spec == Init /\ [][Next]_vars

\* The event loop runs, acquiring and calls end (the HTTP clients have
\* timeouts), time passes.
Fairness ==
    /\ WF_vars(Executor)
    /\ WF_vars(Acquire)
    /\ WF_vars(Provider)
    /\ WF_vars(Tick)

FairSpec == Spec /\ Fairness
====================================================================================
