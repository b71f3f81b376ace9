--------------------------- MODULE UsagePersistenceProps ---------------------------
(* What the persistence of usage promises.                                 *)
EXTENDS UsagePersistence

\* However updates, debounced saves, flushes and failures interleave, while
\* the writer is healthy no recorded update is left unstored for longer than
\* the debounce time (storage.py:146-149, manager.py:2461-2481), unless an
\* exception has ended a save (storage.py:182-184).  An update that
\* reload_from_disk undoes is not waited for.
StoredInTime == main = "idle" /\ healthy => waiting <= Debounce \/ missed

\* States that are not marked dirty were stored by a save, whichever of the
\* saves of a request, of the flush task and of the shutdown failed or was put
\* off since (storage.py:146-180).  The exception: a save that ends in an
\* exception leaves the states unmarked (storage.py:182-184), and nothing but
\* the next update saves them.
CleanIsStored == main = "idle" /\ ~dirty => waiting = None \/ missed

\* The manager uses its writer as the writer expects: what it hands over is
\* never older than what the writer holds or the file contains, across
\* flushes, shutdown, crashes and loads (manager.py:2461-2481, storage.py:84-125),
\* but for two cases in which the manager itself goes back, and the writer's
\* behind says so: a start whose load fails goes on from empty states, which
\* the next save puts over the newer file (storage.py:99-100, 120-125), and
\* reload_from_disk drops updates that a failed save handed over
\* (manager.py:1706-1726).
UsesWriter == Writer!Spec

\* So what the writer promises holds in use.  Once the disk has worked for a
\* retry interval, no save, flush or shutdown is put off because of an earlier
\* failure (resilient_io.py:383-388), unless an exception other than OSError
\* ended the last attempt...
SavesResume ==
    [][RecordPutOff \/ FlushPutOff \/ ClosePutOff
           => ~disk \/ upFor < RetryInterval \/ raised]_vars

\* ...and of all that happens to the usage file, only three things put older
\* counters in the place of newer ones: a retry or the exit handler with a
\* stale copy (resilient_io.py:190-239), a start that could not load the file
\* (storage.py:99-100, 120-125), and reload_from_disk (manager.py:1706-1726).
CountersGoBackOnlyBy ==
    [][file' < file => pending # file' \/ main = "unregister" \/ behind]_vars
====================================================================================
