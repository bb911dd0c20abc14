--------------------------- MODULE MCMultiListener ---------------------------
(* Instances of MultiListener for TLC. *)
EXTENDS MultiListener
=============================================================================
