---------------------------- MODULE ChaseContract --------------------------
(***************************************************************************)
(* What the callers of MakerChaser take a chase for: run_live_entry,       *)
(* run_live_stop and run_live_reversal (src/bot/main.py:185-292), and with *)
(* them LiveStrategy, whose tasks know a chase only by its ending.         *)
(*                                                                         *)
(* While a chase is under way, orders of it may work and the position may  *)
(* move.  When it returns a result, that is over for good and the result   *)
(* says how much at least was traded; when it ends in any other way, an    *)
(* order may be left and trade later.                                      *)
(***************************************************************************)
EXTENDS Integers

CONSTANT Full \* the filled_qty of a chase that ends with a MARKET order

VARIABLES
  entering, \* the chase opens a position; else it closes one
  working,  \* an order of the chase rests, or may yet reach the exchange
  traded,   \* what the chase's limit orders executed
  held,     \* the position, on the side the chase works for
  told      \* how the chase ended ("none", "success", "failure", "silence")

contractVars == <<entering, working, traded, held, told>>

-----------------------------------------------------------------------------
Begins ==
  /\ ~working /\ traded = 0 /\ told = [how |-> "none", filled |-> 0]

\* The position moves only while an order works: in an entry by what its orders
\* execute, else towards flat, by a MARKET order as well.
Trades ==
  /\ working /\ working' \in BOOLEAN
  /\ traded' >= traded
  /\ IF entering THEN held' - held = traded' - traded ELSE held' <= held
  /\ UNCHANGED <<entering, told>>

\* Orders come and go.  The result has not been told, or never will be.
Orders ==
  /\ told.how \in {"none", "silence"}
  /\ working' \in BOOLEAN
  /\ UNCHANGED <<entering, traded, held, told>>

\* No order works any more.  A success tells of no more than was traded, or of
\* a position that was to be closed and is; a failure, of nothing.
Returns ==
  /\ told.how = "none" /\ ~working
  /\ \/ told' = [how |-> "failure", filled |-> 0]
     \/ /\ told'.how = "success"
        /\ \/ told'.filled \in 1..traded
           \/ ~entering /\ told'.filled = Full /\ held = 0
  /\ UNCHANGED <<entering, working, traded, held>>

\* An exception or a cancellation.
Breaks ==
  /\ told.how = "none"
  /\ told' = [how |-> "silence", filled |-> 0]
  /\ working' \in BOOLEAN
  /\ UNCHANGED <<entering, traded, held>>

ContractNext == Trades \/ Orders \/ Returns \/ Breaks

ContractSpec == Begins /\ [][ContractNext]_contractVars
=============================================================================
