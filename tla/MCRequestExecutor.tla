--------------------------- MODULE MCRequestExecutor ---------------------------
(* Instances of RequestExecutorProps for TLC. *)
EXTENDS RequestExecutorProps
================================================================================
