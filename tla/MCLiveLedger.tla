---------------------------- MODULE MCLiveLedger ----------------------------
(***************************************************************************)
(* Instances of LiveLedger for TLC.  An order of two steps can end after   *)
(* one of them, be replaced, and leave three held.                         *)
(***************************************************************************)
EXTENDS LiveLedger

Restarts == {"expire", "crash", "shutdown", "late_answer"}
=============================================================================
