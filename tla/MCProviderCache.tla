------------------------------ MODULE MCProviderCache ------------------------------
(* Instances of ProviderCacheProps for TLC. *)
EXTENDS ProviderCacheProps
====================================================================================
