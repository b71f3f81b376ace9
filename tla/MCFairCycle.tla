------------------------------ MODULE MCFairCycle ------------------------------
(* Instances of FairCycleProps for TLC. *)
EXTENDS FairCycleProps, TLC

CONSTANTS c1, c2

\* Two credentials of one tier.
MCOneTier == (c1 :> 1) @@ (c2 :> 1)

\* Half of c1's limit is two requests, half of c2's rounds down to none.
MCLimit == [c \in Credential |-> IF c = c1 THEN 4 ELSE 1]
MCMaxConcurrent == [c \in Credential |-> IF c = c1 THEN 2 ELSE 1]

Symmetry == Permutations(Request)
====================================================================================
