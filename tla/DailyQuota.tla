-------------------------------- MODULE DailyQuota ---------------------------------
(***************************************************************************)
(* What daily request limits promise, without days, aliases or outcomes:   *)
(* each quota has one counter; a request is let in while the counter is    *)
(* below the limit, and when it ends it leaves the requests in flight and  *)
(* enters the count, or is forgotten.  Counters go back to zero, never to  *)
(* anything between.                                                       *)
(***************************************************************************)
EXTENDS Integers

CONSTANTS
    Quota,      \* what is limited
    Limit,      \* requests a day, of each
    MaxFlight   \* requests let in and not ended, at most

VARIABLES
    counted,    \* requests counted since the quota began anew
    inflight    \* requests let in and not ended

vars == <<counted, inflight>>

Init ==
    /\ counted = [q \in Quota |-> 0]
    /\ inflight = [q \in Quota |-> 0]

Admit(q) ==
    /\ counted[q] < Limit[q]
    /\ inflight[q] < MaxFlight
    /\ inflight' = [inflight EXCEPT ![q] = @ + 1]
    /\ UNCHANGED counted

End(q) ==
    /\ inflight[q] > 0
    /\ inflight' = [inflight EXCEPT ![q] = @ - 1]
    /\ \/ counted' = [counted EXCEPT ![q] = @ + 1]
       \/ UNCHANGED counted

BeginAnew(S) ==
    /\ counted' = [q \in Quota |-> IF q \in S THEN 0 ELSE counted[q]]
    /\ UNCHANGED inflight

Next ==
    \/ \E q \in Quota : Admit(q) \/ End(q)
    \/ \E S \in SUBSET Quota : BeginAnew(S)

Spec == Init /\ [][Next]_vars
====================================================================================
