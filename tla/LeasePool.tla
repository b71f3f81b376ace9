-------------------------------- MODULE LeasePool --------------------------------
(***************************************************************************)
(* What a pool of credentials promises, without the means: a request holds *)
(* at most one credential at a time, no credential twice in its life, and  *)
(* no credential is held by more requests than its ceiling allows.  There  *)
(* are no counters, waits, notifications or cooldowns here.                *)
(***************************************************************************)
EXTENDS Integers, FiniteSets

CONSTANTS Request, Credential, MaxConcurrent

VARIABLES
    leased,   \* the requests each credential serves
    used      \* the credentials each open request has held so far

vars == <<leased, used>>

Init ==
    /\ leased = [c \in Credential |-> {}]
    /\ used = [r \in Request |-> {}]

Room(c) == MaxConcurrent[c] > 0 => Cardinality(leased[c]) < MaxConcurrent[c]

Served(r) == \E c \in Credential : r \in leased[c]

Grant(r, c) ==
    /\ ~Served(r)
    /\ c \notin used[r]
    /\ Room(c)
    /\ leased' = [leased EXCEPT ![c] = @ \cup {r}]
    /\ used' = [used EXCEPT ![r] = @ \cup {c}]

Return(r) ==
    /\ Served(r)
    /\ leased' = [c \in Credential |-> leased[c] \ {r}]
    /\ UNCHANGED used

Close(r) ==
    /\ ~Served(r)
    /\ used' = [used EXCEPT ![r] = {}]
    /\ UNCHANGED leased

Next ==
    \E r \in Request :
        \/ \E c \in Credential : Grant(r, c)
        \/ Return(r)
        \/ Close(r)

Spec == Init /\ [][Next]_vars
====================================================================================
