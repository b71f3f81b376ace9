------------------------------- MODULE MCOAuthRefresh -------------------------------
(* Instances of OAuthRefreshProps for TLC. *)
EXTENDS OAuthRefreshProps
====================================================================================
