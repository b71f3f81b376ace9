------------------------------ MODULE MCStateWriter ------------------------------
(* Instances of StateWriterProps for TLC. *)
EXTENDS StateWriterProps
====================================================================================
