--------------------------- MODULE MCLiveStrategy --------------------------
(***************************************************************************)
(* Instances of LiveStrategy for TLC: a session in which requests fail.    *)
(***************************************************************************)
EXTENDS LiveStrategy

Errors == {"error"}
=============================================================================
