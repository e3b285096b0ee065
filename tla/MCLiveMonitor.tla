---------------------------- MODULE MCLiveMonitor ---------------------------
(***************************************************************************)
(* The session with the monitor beside it.  Everything goes wrong, at one  *)
(* quantity step; what orders do in part is MCLiveLedger's.                *)
(***************************************************************************)
EXTENDS LiveMonitor

Everything == AllDisturbances
=============================================================================
