---------------------------- MODULE MCPineParity ---------------------------
(***************************************************************************)
(* Instances of PineParity for TLC.  A bar from 1 to 3 between bars at 2   *)
(* is a pivot on both sides, with triggers at 4 and 0: prices 0 to 4 are   *)
(* enough to touch each trigger alone and both with one range.             *)
(***************************************************************************)
EXTENDS PineParity

R(l, h) == [high |-> h, low |-> l]

Ranges1 == {R(2, 2), R(1, 3), R(1, 2), R(0, 0), R(4, 4), R(0, 4)}
Ranges2 == {R(2, 2), R(1, 3), R(0, 0), R(4, 4), R(0, 4)}
Prices == {R(1, 1), R(2, 2), R(3, 3)}
=============================================================================
