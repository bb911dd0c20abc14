----------------------------- MODULE MCProxyUnix -----------------------------
(* Instances of ProxyUnix for TLC. *)
EXTENDS ProxyUnix
=============================================================================
