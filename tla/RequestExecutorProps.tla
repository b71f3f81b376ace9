------------------------- MODULE RequestExecutorProps -------------------------
(* What the executor promises about one request.                           *)
EXTENDS RequestExecutor

\* However errors, waits and kinds of exceptions mix, a request calls the
\* provider at most MaxRetries times with a credential and never comes back to
\* one it has left (executor.py:757 and 787, 1090).
CallsBounded == \A c \in Credential : calls[c] <= MaxRetries

\* A wait that precedes another call of the same credential ends by the
\* deadline, and so does every wait of a stream (executor.py:180-197, 1763).
SleepsInTime ==
    pc = "sleep" /\ (mode = "stream" \/ then = "call") =>
        sleepFor <= 0 \/ sleepFor <= left

\* What is recorded for the credential is what the client has seen: an answer
\* is a success, and without one, a success is recorded only for a client that
\* left its stream, for a credential that was never called, or for one whose
\* attempts a streaming request has cut short (usage/manager.py:86-104).
OutcomeIsTrue ==
    [][Leave =>
        /\ reply = "answered" => record'[cred] = "success"
        /\ record'[cred] = "success" =>
              \/ reply = "answered" \/ calls[cred] = 0
              \/ mode = "stream" /\ (reply = "gone" \/ AnotherAttempt)]_vars

\* A request that goes on comes to its end, whatever the provider answers and
\* however small the delays are configured.
RequestEnds == <>(pc = "done")

\* "Off by default because replaying streamed output can duplicate or diverge
\* for consumers that already received content" (config/defaults.py:179-180):
\* once the client has got output the provider is not called again.
OutputNotRepeated ==
    [][calls' # calls =>
        emitted = "nothing" \/ (ReasoningRetry /\ emitted = "reasoning")]_vars
===============================================================================
