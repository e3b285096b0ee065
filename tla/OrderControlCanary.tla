------------------------- MODULE OrderControlCanary -------------------------
(***************************************************************************)
(* scripts/live_canary_order_control.py: a script that places, amends and  *)
(* cancels one far-off order per side on the real account, closes what was *)
(* executed, and writes a report with a verdict; with the account at the   *)
(* exchange, whose market may fill what rests between any two requests.    *)
(*                                                                         *)
(* Prices and sizes are in ExchangeFilters (CanaryTarget and below); here  *)
(* an order is Qty units.  A position is kept per row: BOTH in one-way     *)
(* mode, LONG and SHORT in hedge mode.                                     *)
(***************************************************************************)
EXTENDS Integers, FiniteSets

CONSTANT Qty \* the quantity of a canary order, in units

ASSUME QtyAssumption == Qty \in Nat \ {0}

VARIABLES
  dual,    \* the account is in hedge mode
  held,    \* the position of the account, per row
  orders,  \* the last order of each side
  canary,  \* where the script is, and its locals
  result,  \* what run_side returned for each side
  closing, \* what the cleanup found to close
  payload, \* the report being made
  report   \* the verdict in the report file, with the position mode of a GO

account == <<dual, held, orders>>
script == <<canary, result, closing, payload, report>>
canaryVars == <<account, script>>
-----------------------------------------------------------------------------
Sides == {"BUY", "SELL"}
Rows == {"BOTH", "LONG", "SHORT"}
Dir(s) == IF s = "BUY" THEN 1 ELSE -1
Size(n) == IF n < 0 THEN -n ELSE n

Flat(h) == \A r \in Rows : h[r] = 0
FlatRows == [r \in Rows |-> 0]
Net(h) == h["BOTH"] + h["LONG"] + h["SHORT"]

\* hedge_position_side_for_order_side
RowOf(s, hedge) ==
  IF ~hedge THEN "BOTH" ELSE IF s = "BUY" THEN "LONG" ELSE "SHORT"

NoOrder == [at |-> "none", left |-> 0, done |-> 0]
NewOrder(at) == [at |-> at, left |-> Qty, done |-> 0]
Rests(s) == orders[s].at = "rests"
Over(s) == [orders EXCEPT ![s].at = "over", ![s].left = 0]
OpenOrders == Cardinality({s \in Sides : Rests(s)})

\* The exchange refuses a request whose timestamp is older than its window of
\* five seconds: none of an earlier process is left when another one begins.
NothingInFlight == \A s \in Sides : orders[s].at # "flight"

Unread == -1
NoPayload == [orders |-> Unread, mode |-> "unread", unexpected |-> FALSE,
              cleanupError |-> FALSE, go |-> FALSE]
Off == [pc |-> "off", side |-> "BUY", rescuing |-> FALSE,
        approved |-> FALSE, hedge |-> FALSE, count |-> Unread, filled |-> FALSE]
NothingDone == [s \in Sides |-> "none"]

At(p) == canary.pc = p
Goes(p) == canary' = [canary EXCEPT !.pc = p]

\* An answer that tells of an execution, now or before, in this side.
SeenFilled == canary.filled \/ orders[canary.side].done > 0
-----------------------------------------------------------------------------
(***************************************************************************)
(* The exchange.                                                           *)
(***************************************************************************)
OrderFills(s, n) ==
  /\ Rests(s) /\ n <= orders[s].left
  /\ orders' = [orders EXCEPT ![s].left = @ - n, ![s].done = @ + n,
                              ![s].at = IF n = orders[s].left THEN "over" ELSE @]
  /\ held' = [held EXCEPT ![RowOf(s, dual)] = @ + Dir(s) * n]
  /\ UNCHANGED <<dual, script>>

\* A placement that got no answer reaches the exchange after all, or never.
OrderArrives(s) ==
  /\ orders[s].at = "flight"
  /\ \/ orders' = [orders EXCEPT ![s].at = "rests"]
     \/ orders' = [orders EXCEPT ![s] = NoOrder]
  /\ UNCHANGED <<dual, held, script>>

ExchangeMoves == \E s \in Sides : OrderArrives(s) \/ \E n \in 1..Qty : OrderFills(s, n)
-----------------------------------------------------------------------------
(***************************************************************************)
(* How the parts of run_canary follow each other.                          *)
(***************************************************************************)
\* What comes after a side, or after the cleanup.
PartDone ==
  canary' = IF canary.rescuing \/ canary.side = "SELL"
            THEN [canary EXCEPT !.pc = "final_orders", !.filled = FALSE]
            ELSE [canary EXCEPT !.pc = "place", !.side = "SELL", !.filled = FALSE]

\* run_side returns: "ok" when every request was answered, the last one by a
\* cancellation, and no answer told of an execution.
SideEnds(r, filled) ==
  /\ result' = [result EXCEPT ![canary.side] = r]
  /\ payload' = [payload EXCEPT !.unexpected = @ \/ filled]
  /\ IF filled THEN Goes("clean_read") ELSE PartDone

\* An exception leaves run_side, the initial reads or the cleanup.  One that
\* comes from the rescue itself is only noted.
Raises ==
  /\ IF canary.rescuing
     THEN Goes("exit") /\ payload' = [payload EXCEPT !.cleanupError = TRUE]
     ELSE canary' = [canary EXCEPT !.pc = "clean_read", !.rescuing = TRUE] /\ UNCHANGED payload
  /\ UNCHANGED <<result, closing>>

\* A request fails without having done anything.
RequestFails ==
  /\ canary.pc \in {"account", "orders", "positions", "place", "clean_read", "clean_close",
                    "final_orders", "final_positions"}
  /\ Raises
  /\ UNCHANGED <<account, report>>
-----------------------------------------------------------------------------
(***************************************************************************)
(* Start, and the reads that decide whether the canary trades.             *)
(***************************************************************************)
Launches(approved) ==
  /\ At("off") /\ NothingInFlight
  /\ canary' = [Off EXCEPT !.pc = "account", !.approved = approved]
  /\ UNCHANGED <<account, result, closing, payload, report>>

\* The configuration or the address of the host is not the right one.
Refused ==
  /\ At("account")
  /\ Goes("exit")
  /\ UNCHANGED <<account, result, closing, payload, report>>

\* Mutant: the report is not told the position mode.
ReadsAccountModeUntold ==
  /\ At("account")
  /\ canary' = [canary EXCEPT !.pc = "orders", !.hedge = dual]
  /\ UNCHANGED <<account, result, closing, payload, report>>

\* The mode of the account.
ReadsAccount ==
  /\ At("account")
  /\ canary' = [canary EXCEPT !.pc = "orders", !.hedge = dual]
  /\ payload' = [payload EXCEPT !.mode = IF dual THEN "hedge" ELSE "one_way"]
  /\ UNCHANGED <<account, result, closing, report>>

ReadsOrders ==
  /\ At("orders")
  /\ canary' = [canary EXCEPT !.pc = "positions", !.count = OpenOrders]
  /\ UNCHANGED <<account, result, closing, payload, report>>

ReadsPositions ==
  /\ At("positions")
  /\ payload' = [payload EXCEPT !.orders = canary.count]
  /\ Goes(IF (canary.hedge => canary.approved) /\ canary.count = 0 /\ Flat(held)
          THEN "place" ELSE "exit")
  /\ UNCHANGED <<account, result, closing, report>>
-----------------------------------------------------------------------------
(***************************************************************************)
(* run_side.                                                               *)
(***************************************************************************)
Places ==
  /\ At("place")
  /\ \/ /\ orders' = [orders EXCEPT ![canary.side] = NewOrder("rests")]
        /\ Goes("query")
        /\ UNCHANGED <<result, payload>>
     \/ /\ \E o \in {NoOrder, NewOrder("flight")} : orders' = [orders EXCEPT ![canary.side] = o]
        /\ SideEnds("unanswered", FALSE)
  /\ UNCHANGED <<dual, held, closing, report>>

Queries ==
  /\ At("query")
  /\ canary' = [canary EXCEPT !.pc = "modify", !.filled = SeenFilled]
  /\ UNCHANGED <<account, result, closing, payload, report>>

Modifies ==
  /\ At("modify") /\ Rests(canary.side)
  /\ canary' = [canary EXCEPT !.pc = "cancel", !.filled = SeenFilled]
  /\ UNCHANGED <<account, result, closing, payload, report>>

\* A request of run_side fails; an order that is over can be neither amended
\* nor cancelled.  The order is then cancelled, or cancelled again.
SideBreaks ==
  /\ canary.pc \in {"query", "modify", "cancel"}
  /\ Goes("undo")
  /\ \/ UNCHANGED orders
     \/ At("cancel") /\ Rests(canary.side) /\ orders' = Over(canary.side)
  /\ UNCHANGED <<dual, held, result, closing, payload, report>>

\* Mutant: the executed quantity in the answer of the cancel is not looked at.
CancelsUnlooked ==
  /\ canary.pc \in {"cancel", "undo"} /\ Rests(canary.side)
  /\ orders' = Over(canary.side)
  /\ SideEnds(IF At("cancel") /\ ~canary.filled THEN "ok" ELSE "bad", canary.filled)
  /\ UNCHANGED <<dual, held, closing, report>>

\* The second query and the cancel, or the cancel after an exception.  What the
\* second query says of fills is not looked at.
Cancels ==
  /\ canary.pc \in {"cancel", "undo"} /\ Rests(canary.side)
  /\ orders' = Over(canary.side)
  /\ SideEnds(IF At("cancel") /\ ~SeenFilled THEN "ok" ELSE "bad", SeenFilled)
  /\ UNCHANGED <<dual, held, closing, report>>

\* The second cancel fails too, with or without an effect.
UndoFails ==
  /\ At("undo")
  /\ orders' \in {orders} \cup IF Rests(canary.side) THEN {Over(canary.side)} ELSE {}
  /\ SideEnds("bad", canary.filled)
  /\ UNCHANGED <<dual, held, closing, report>>

SideStep ==
  \/ Places \/ Queries \/ Modifies \/ Cancels \/ SideBreaks \/ UndoFails
-----------------------------------------------------------------------------
(***************************************************************************)
(* cleanup_if_needed.                                                      *)
(***************************************************************************)
\* What there is to close, by hedge_cleanup_order_for_row or from the net
\* position.
ToClose ==
  IF canary.hedge
  THEN [held EXCEPT !["BOTH"] = 0]
  ELSE [FlatRows EXCEPT !["BOTH"] = Net(held)]

CleanupReads ==
  /\ At("clean_read")
  /\ IF Flat(ToClose)
     THEN PartDone /\ UNCHANGED closing
     ELSE Goes("clean_close") /\ closing' = ToClose
  /\ UNCHANGED <<account, result, payload, report>>

\* Mutant: the MARKET order of the one-way cleanup is not reduceOnly.
ClosesWithoutReduceOnly(r) ==
  IF (r = "BOTH") = dual \/ (r # "BOTH" /\ Size(closing[r]) > Size(held[r])) THEN 0 ELSE closing[r]

\* How much the MARKET order for row r takes off that row, 0 when it is refused:
\* a reduceOnly one closes what is there, and one with a positionSide does not go
\* beyond it; each is for its own position mode.
Closes(r) ==
  IF (r = "BOTH") = dual \/ held[r] * closing[r] <= 0 THEN 0
  ELSE IF Size(closing[r]) <= Size(held[r]) THEN closing[r]
  ELSE IF r = "BOTH" THEN held[r] ELSE 0

\* One MARKET order; after the last one the positions are read once more, only to
\* be reported.  A request may fail after it did what it was for.
CleanupCloses(r) ==
  /\ At("clean_close") /\ closing[r] # 0
  /\ held' = [held EXCEPT ![r] = @ - Closes(r)]
  /\ \/ /\ Closes(r) # 0
        /\ closing' = [closing EXCEPT ![r] = 0]
        /\ IF Flat(closing') THEN PartDone ELSE UNCHANGED canary
        /\ UNCHANGED <<result, payload>>
     \/ Raises
  /\ UNCHANGED <<dual, orders, report>>

CleanupStep == CleanupReads \/ \E r \in Rows : CleanupCloses(r)
-----------------------------------------------------------------------------
(***************************************************************************)
(* The end of run_canary and main.                                         *)
(***************************************************************************)
ReadsFinalOrders ==
  /\ At("final_orders")
  /\ canary' = [canary EXCEPT !.pc = "final_positions", !.count = OpenOrders]
  /\ UNCHANGED <<account, result, closing, payload, report>>

\* Mutant: after an exception the count of open orders is not taken again.
ReadsFinalPositionsOnly ==
  /\ At("final_positions")
  /\ payload' =
       [payload EXCEPT
         !.orders = IF canary.rescuing THEN @ ELSE canary.count,
         !.go = ~canary.rescuing /\ (\A s \in Sides : result[s] = "ok") /\ canary.count = 0
                /\ Flat(held) /\ ~payload.unexpected /\ (canary.hedge => canary.approved)]
  /\ Goes("exit")
  /\ UNCHANGED <<account, result, closing, report>>

ReadsFinalPositions ==
  /\ At("final_positions")
  /\ payload' =
       [payload EXCEPT
         !.orders = canary.count,
         !.go = ~canary.rescuing /\ (\A s \in Sides : result[s] = "ok") /\ canary.count = 0
                /\ Flat(held) /\ ~payload.unexpected /\ (canary.hedge => canary.approved)]
  /\ Goes("exit")
  /\ UNCHANGED <<account, result, closing, report>>

\* The process is gone, and of its orders those stay that may still be executed.
Gone(left) ==
  /\ canary' = Off /\ result' = NothingDone /\ closing' = FlatRows /\ payload' = NoPayload
  /\ orders' = [s \in Sides |-> IF left[s].at \in {"rests", "flight"} THEN left[s] ELSE NoOrder]
  /\ UNCHANGED <<dual, held>>

Writes ==
  /\ At("exit")
  /\ report' = IF payload.go THEN payload.mode ELSE "no_go"
  /\ Gone(orders)

\* A SIGTERM or the machine ends the script (the unit is a oneshot, which
\* RuntimeMaxSec does not limit): no report, and a placement may be under way.
Killed ==
  /\ ~At("off")
  /\ \/ Gone(orders)
     \/ At("place") /\ Gone([orders EXCEPT ![canary.side] = NewOrder("flight")])
  /\ UNCHANGED report

CanaryStep ==
  \/ Refused \/ ReadsAccount \/ ReadsOrders \/ ReadsPositions
  \/ SideStep \/ CleanupStep
  \/ ReadsFinalOrders \/ ReadsFinalPositions \/ Writes
  \/ RequestFails

CanaryInit ==
  /\ orders = [s \in Sides |-> NoOrder]
  /\ canary = Off /\ result = NothingDone /\ closing = FlatRows /\ payload = NoPayload
  /\ report = "no_go"
-----------------------------------------------------------------------------
(***************************************************************************)
(* Properties.                                                             *)
(***************************************************************************)
Untouched == \A s \in Sides : orders[s].at = "over" /\ orders[s].done = 0

\* A canary that says GO has left no order and executed nothing on either side,
\* even where two executions cancel out, and the account is flat when the report
\* is made (live_canary_order_control.py:383, 526-536).
GoMeansUntouched == At("exit") /\ payload.go => Untouched /\ Flat(held)

\* A report that says that no order is open, and that its last reads went well,
\* leaves none but one whose placement got no answer and that came late
\* (live_canary_order_control.py:469, 523, 545).
CountTellsResting ==
  At("exit") /\ payload.orders = 0 /\ ~payload.cleanupError =>
    \A s \in Sides : Rests(s) => result[s] = "unanswered"

\* A MARKET order of the cleanup only ever takes a row nearer to flat and opens
\* nothing, whatever rests and fills beside it (live_canary_order_control.py:275-300).
CleanupOnlyCloses ==
  [][ At("clean_close") /\ orders' = orders /\ held' # held =>
        \A r \in Rows : Size(held'[r]) <= Size(held[r]) /\ held'[r] * held[r] >= 0 ]_canaryVars
=============================================================================
