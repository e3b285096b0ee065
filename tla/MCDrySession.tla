---------------------------- MODULE MCDrySession ---------------------------
(***************************************************************************)
(* Instances of DrySession for TLC: a run of a few units so that a chase   *)
(* may outlive the feed, and a chase that may outlive a book.              *)
(***************************************************************************)
EXTENDS DrySession

EveryMode == AllModes
=============================================================================
