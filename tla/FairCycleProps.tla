------------------------------ MODULE FairCycleProps ------------------------------
(* What fair cycle rotation promises.                                      *)
EXTENDS FairCycle

Candidates == (SUBSET Credential) \ {{}}

\* The quota of c is known, and its threshold is that of no request at all.
NoQuota(c) == Limit[c] > 0 /\ Threshold(c) <= 0

\* select() calls itself again after a reset (engine.py:123-138), and does so
\* at most once: whatever the candidates, the second turn resets a group only
\* if the quota threshold of every candidate in it is 0.  Such a group is reset
\* again and again, and the recursion does not end.
SelectReturns ==
    \A S \in Candidates :
        \A T \in ToReset(Turned(fc, S), S) : \A c \in T : NoQuota(c)

\* The fair cycle alone never refuses a request: as soon as one tier has no
\* candidate that is cooling down or at its ceiling, and one whose threshold is
\* not 0, some candidate can be selected, because spent candidates are reset
\* rather than waited for (engine.py:118-142).  Otherwise requests wait for what
\* never comes.
NeverStuck ==
    \A S \in Candidates :
        (\E T \in Groups(S) : T \subseteq Reached(S) /\ \E c \in T : ~NoQuota(c))
            => Open(Turned(fc, S), S) # {}

\* The credential of a request that a step selects.
Selected(r) == pc[r] = "select" /\ pc'[r] = "running"

\* Within a cycle that has not outlived its duration, no credential is
\* selected that is exhausted or, once anything was recorded for it, has been
\* counted as often as its quota threshold allows (fair_cycle.py:79-115),
\* however many requests are released but not recorded yet.
SelectedHasQuota ==
    [][\A r \in Request : Selected(r) /\ ~Expired(fc) =>
          /\ ~fc'.exhausted[lease'[r]]
          /\ lease'[r] \in fc'.tracked /\ Limit[lease'[r]] > 0 =>
                fc'.requests[lease'[r]] < Threshold(lease'[r])]_vars

\* A step that puts an exhausted credential back while another credential of
\* its tier is not exhausted.
PutBackEarly(c, d) ==
    /\ Tier[c] = Tier[d]
    /\ fc.exhausted[c] /\ ~fc'.exhausted[c]
    /\ ~fc.exhausted[d] /\ ~QuotaReached(fc, d)

\* Apart from a baseline that shows fresh quota, an exhausted credential is
\* put back early only by a rotating request that has tried the others:
\* candidates of a select call are what the request has not tried.
EarlyResetOnlyOnRotation ==
    [][\A c, d \in Credential : PutBackEarly(c, d) =>
          \/ BaselineFresh(c)
          \/ \E r \in Request : pc[r] = "select" /\ d \in tried[r]]_vars
====================================================================================
