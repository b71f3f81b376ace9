----------------------------- MODULE StateWriterProps -----------------------------
(* What the resilient writer promises.                                     *)
EXTENDS StateWriter

\* Once the disk has worked for a retry interval, write() is never put off as
\* too soon, however often it was put off before (resilient_io.py:383-388):
\* the failure that made the writer unhealthy is at least as old.  Only an
\* attempt that ended in an exception other than OSError renews the delay.
RecoversAfterInterval ==
    [][\A v \in Version : WriteSkipped(v) => ~disk \/ upFor < RetryInterval \/ raised]_vars

\* As long as the owner does not go back itself, the file goes back to an older
\* version only when a retry or the exit handler moves a copy that has been
\* replaced or removed in the registry since it was taken, or is about to be
\* (resilient_io.py:190-239): a check of the registry just before the move
\* would be enough.
BackwardsOnlyIfReplaced ==
    [][file' < file => pending # file' \/ main = "unregister" \/ behind]_vars

\* "Background thread retries failed writes every N seconds"
\* (resilient_io.py:53): once the disk works for good, nothing stays pending,
\* unless an exception that _try_write does not catch ends the thread.
PendingIsRetried == <>[](disk /\ alive) => (pending # 0 ~> pending = 0)
===================================================================================
