--------------------------- MODULE MCProxyListener ---------------------------
(* Instances of ProxyListener for TLC. *)
EXTENDS ProxyListener
=============================================================================
