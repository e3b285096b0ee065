--------------------------- MODULE MCMakerChaser ---------------------------
(***************************************************************************)
(* Instances of MakerChaser for TLC.  Two or three quantity steps are      *)
(* enough for nothing, part and all of an order to fill; two or three      *)
(* ticks for a first placement, an amendment or a second placement, and    *)
(* the end of the chase.                                                   *)
(***************************************************************************)
EXTENDS MakerChaser

AllFaults == AllDisturbances
DryRunFaults == {"would_take", "stale", "shutdown"}
PostOnlyFaults == {"would_take"}
NoFaults == {}
=============================================================================
