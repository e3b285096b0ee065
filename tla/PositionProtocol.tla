-------------------------- MODULE PositionProtocol -------------------------
(***************************************************************************)
(* What the live session promises about the one position it manages, with  *)
(* no orders and no exchange: a position is opened only when none is held  *)
(* and no stop is at work, what is believed is what is saved in the marker *)
(* file, and a restarted process believes only what was saved.             *)
(***************************************************************************)
EXTENDS Integers

VARIABLES
  alive,     \* a process manages the position
  belief,    \* the position it believes in: long > 0, short < 0, flat = 0
  saved,     \* the position the marker file describes, 0 when there is none
  leg,       \* "open": an entry is at work, "close": the close before an entry
  stopping   \* a stop is at work

protocolVars == <<alive, belief, saved, leg, stopping>>

\* The belief becomes one of S and is saved.
Believe(S) == belief' \in S /\ saved' = belief'

Init ==
  /\ alive = FALSE /\ belief = 0 /\ saved = 0
  /\ leg = "none" /\ stopping = FALSE

\* A process that starts takes up the saved position or none at all.
Start ==
  /\ ~alive
  /\ alive' = TRUE
  /\ Believe({saved, 0})
  /\ UNCHANGED <<leg, stopping>>

\* A process that ends, by itself or not, leaves the marker as it is.
End ==
  /\ alive
  /\ alive' = FALSE /\ belief' = 0 /\ saved' = saved
  /\ leg' = "none" /\ stopping' = FALSE

StartOpen ==
  /\ alive /\ leg = "none" /\ belief = 0 /\ ~stopping
  /\ leg' = "open"
  /\ UNCHANGED <<alive, belief, saved, stopping>>

Opened ==
  /\ alive /\ leg = "open"
  /\ leg' = "none"
  /\ Believe(Int \ {0})
  /\ UNCHANGED <<alive, stopping>>

StartClose ==
  /\ alive /\ leg = "none" /\ belief # 0
  /\ leg' = "close"
  /\ \/ stopping' = stopping
     \/ stopping' = TRUE  \* one price may trigger the reversal and the stop
  /\ UNCHANGED <<alive, belief, saved>>

\* The close is over: the entry follows only from flat and with no stop at work.
Closed ==
  /\ alive /\ leg = "close"
  /\ \/ leg' = "none" /\ Believe(Int)
     \/ leg' = "open" /\ Believe({0}) /\ ~stopping
  /\ UNCHANGED <<alive, stopping>>

Abandon ==
  /\ alive /\ leg # "none"
  /\ leg' = "none"
  /\ UNCHANGED <<alive, belief, saved, stopping>>

StartStop ==
  /\ alive /\ ~stopping /\ leg # "open" /\ belief # 0
  /\ stopping' = TRUE
  /\ UNCHANGED <<alive, belief, saved, leg>>

Stopped ==
  /\ alive /\ stopping
  /\ stopping' = FALSE
  /\ Believe({0}) \/ UNCHANGED <<belief, saved>>
  /\ UNCHANGED <<alive, leg>>

Next ==
  \/ Start \/ End
  \/ StartOpen \/ Opened \/ StartClose \/ Closed \/ Abandon
  \/ StartStop \/ Stopped

Spec == Init /\ [][Next]_protocolVars
-----------------------------------------------------------------------------
\* No entry is at work beside a stop, or while a position is believed in
\* (assert_can_start_entry).
EntryAlone == leg = "open" => belief = 0 /\ ~stopping

\* The marker file describes the position the process believes in.
MarkerIsBelief == alive => saved = belief
=============================================================================
