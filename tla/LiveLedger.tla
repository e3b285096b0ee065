----------------------------- MODULE LiveLedger -----------------------------
(***************************************************************************)
(* What the live session knows of the position of its account.             *)
(*                                                                         *)
(* A chase reports what its last order executed.  An order that the        *)
(* exchange ends in part is replaced by one for the whole quantity         *)
(* (src/bot/execution_maker_chaser.py:194-207), or the chase dies of the   *)
(* refusal of its next amendment or cancel: nobody is told what it did.    *)
(* Two history variables keep the account of that beside LiveStrategy;     *)
(* they never restrain what the session does.                              *)
(***************************************************************************)
EXTENDS LiveStrategy

CONSTANT MaxUntold  \* bound: the exchange ends no more of the entries' orders than this

ASSUME LedgerAssumption == MaxUntold \in Nat

VARIABLES
  untold,  \* executed by orders of entries that ended, and told to nobody
  refused  \* a closing chase died of its order's end, and no stop followed

ledgerVars == <<vars, untold, refused>>
-----------------------------------------------------------------------------
\* An entry goes on with a new order, or dies: what its ended order did is lost.
\* One that returns tells of it.
EntryLoses ==
  entry.pc = "entering" /\ Ended("entry") /\ (Places("entry") \/ CancelRefused("entry"))

\* A stop, or the close of a reversal, dies with something left to close.
DiesOfEnd(t) == Ended(t) /\ Closable(chase[t].dir) > 0 /\ CancelRefused(t)

\* Nothing is at work and what is held is what is believed.
Settled == ~ActiveEntry /\ ~ActiveStop /\ net = position

Recorded ==
  /\ untold' = IF proc' = "down" \/ Settled' THEN 0
               ELSE IF EntryLoses THEN untold + chase["entry"].done
               ELSE untold
  /\ refused' = \/ DiesOfEnd("stop")
                \/ /\ refused \/ (entry.pc = "closing" /\ DiesOfEnd("entry"))
                   /\ proc' # "down" /\ ~Settled' /\ ~ActiveStop'

\* The bound on what the exchange ends.
WithinBound ==
  entry'.pc = "entering" /\ Ended("entry")' => untold + chase'["entry"].done <= MaxUntold

LedgerInit == Init /\ untold = 0 /\ refused = FALSE

LedgerNext == Next /\ Recorded /\ WithinBound

LedgerSpec == LedgerInit /\ [][LedgerNext]_ledgerVars

(***************************************************************************)
(* The event loop runs every task that can run, every request and every    *)
(* sleep of a chase ends, so each task goes on as long as it is there.     *)
(* The exchange may end the orders of a stop again and again, but the      *)
(* chase has a deadline: it does not go on for ever.  Nothing is assumed   *)
(* of prices, of fills or of the restart.                                  *)
(***************************************************************************)
FairLedgerSpec ==
  /\ LedgerSpec
  /\ WF_ledgerVars(EntryStep /\ Recorded)
  /\ WF_ledgerVars(StopStep /\ Recorded)
  /\ SF_ledgerVars(StopStep /\ StopEnds /\ Recorded)
-----------------------------------------------------------------------------
(***************************************************************************)
(* Properties.                                                             *)
(***************************************************************************)
Between(a, b) == a..b \cup b..a

\* The values of the history variables.
LedgerOK == untold \in Nat /\ refused \in BOOLEAN

\* An entry that is at work owns the position of the account, but for what orders
\* that ended executed and nobody was told: nothing else was held when it began
\* (docs/trading_rules.md:119 "No add-on entry while that symbol has an open
\* position.").
EntryOwnsPosition ==
  entry.pc = "entering" => Abs(net - entry.side * chase["entry"].done) <= untold

\* When no task is at work the account holds what the session believes in, or
\* nothing: a stop and a reversal that close the same position may leave a belief
\* behind (main.py:269), but never a position nobody knows of, beyond what was
\* never told.  Only after a close that died of its order's end is part of the
\* belief held.
NothingUnknownHeld ==
  proc = "running" /\ ~ActiveEntry /\ ~ActiveStop =>
    \E b \in IF refused THEN Between(0, position) ELSE {0, position} : Abs(net - b) <= untold

\* A stop that was set off ends with nothing held that the session knows of, unless
\* the process ends first or the exchange refused to cancel its ended order,
\* whatever reversal the same price set off beside it and however many of its
\* orders ended: a MARKET order takes what the chase could not (main.py:341-347,
\* execution_maker_chaser.py:263-292).
StopFlattens == ActiveStop ~> Abs(net) <= untold \/ proc # "running" \/ refused
=============================================================================
