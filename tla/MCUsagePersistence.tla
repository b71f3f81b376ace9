----------------------------- MODULE MCUsagePersistence -----------------------------
(* Instances of UsagePersistenceProps for TLC. *)
EXTENDS UsagePersistenceProps
====================================================================================
