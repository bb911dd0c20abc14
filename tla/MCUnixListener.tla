--------------------------- MODULE MCUnixListener ---------------------------
(* Instances of UnixListener for TLC. *)
EXTENDS UnixListener
=============================================================================
