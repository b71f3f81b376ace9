------------------------------ MODULE MCCredentialPool ------------------------------
(* Small instances of CredentialPool for TLC.                              *)
EXTENDS CredentialPoolProps, TLC

CONSTANTS r1, r2, r3, c1, c2

MCMaxConcurrent     == [c \in Credential |-> 1]
MCOptimalConcurrent == [c \in Credential |-> IF c = c1 THEN 1 ELSE -1]

Symmetry == Permutations(Request)
====================================================================================
