---------------------------- MODULE MCStartGates ---------------------------
(***************************************************************************)
(* An instance of StartGates for TLC: canary orders of two units, so that  *)
(* one may be executed in part, and a position of one unit that a person   *)
(* opens, which a cleanup may meet beside the canary's own.                *)
(***************************************************************************)
EXTENDS StartGates

OneUnit == {1}
=============================================================================
