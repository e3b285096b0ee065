---------------------------- MODULE MakerChaser ----------------------------
(***************************************************************************)
(* One run of MakerChaser._chase (src/bot/execution_maker_chaser.py): the  *)
(* coroutine keeps one LIMIT GTX order near the top of the book until the  *)
(* order is filled, enough of it is filled, or the time is over; a stop    *)
(* chase then sends the rest as a MARKET reduce-only order.                *)
(*                                                                         *)
(* The coroutine moves from await to await (pc names the await it is in).  *)
(* The exchange is a process of its own: it takes requests off the wire,   *)
(* answers them, and fills or expires resting orders whenever it likes.    *)
(* Prices, logging and alerts carry no control and are left out.           *)
(***************************************************************************)
EXTENDS Integers, Sequences, FiniteSets, Functions

CONSTANTS
  Kinds,         \* the chases explored: a subset of ChaseKinds
  Venue,         \* "binance" (BinanceClient) or "dry_run" (DryRunExchange)
  Qty,           \* requested_qty, in quantity steps
  AcceptQty,     \* least executed quantity with fill_ratio >= partial_accept_ratio
  MaxTicks,      \* max_seconds, in units of interval_seconds
  StartHeld,     \* sizes the position closed by a reduce-only chase may have
  Disturbances   \* what may go wrong: a subset of AllDisturbances

ChaseKinds == {"ENTRY", "STOP", "CLOSE"}
AllDisturbances == {"would_take", "expire", "timeout", "error", "stale", "shutdown"}

ASSUME ChaseAssumption ==
  /\ Kinds \subseteq ChaseKinds
  /\ Venue \in {"binance", "dry_run"}
  /\ Qty \in Nat \ {0}
  /\ AcceptQty \in Nat
  /\ MaxTicks \in Nat
  /\ StartHeld \subseteq Nat
  /\ Disturbances \subseteq AllDisturbances

VARIABLES
  kind,      \* chase_type of this run
  pc,        \* the await the coroutine is suspended in
  order,     \* the local variable `order`: the snapshot last received
  elapsed,   \* self.clock() - start
  wire,      \* the request of the current await, while the exchange has not served it
  rsp,       \* the response of the current await, once the exchange has served it
  stray,     \* requests whose await was abandoned and that may still arrive
  orders,    \* the chase's limit orders at the exchange, oldest first
  held,      \* the position at the exchange, measured on the side the chase works for
  result     \* how the coroutine ended

local == <<kind, order, elapsed>>
vars == <<kind, pc, order, elapsed, wire, rsp, stray, orders, held, result>>
-----------------------------------------------------------------------------
LiveStatus == {"NEW", "PARTIALLY_FILLED"}
DeadStatus == {"CANCELED", "EXPIRED", "REJECTED"}
Status == LiveStatus \cup DeadStatus \cup {"FILLED"}

NoOrder == [id |-> 0, status |-> "NONE", executed |-> 0]
NoRequest == [op |-> "none", id |-> 0, qty |-> 0]
NoResponse == [outcome |-> "none", snap |-> NoOrder]
Pending == [kind |-> "none", filled |-> 0, reason |-> "none"]

\* success and failure: a ChaseResult was returned with that `success`.
ResultKinds == {"none", "success", "failure", "raised", "cancelled"}

Ops == {"place", "modify", "query", "cancel", "market"}
Outcomes == {"ok", "would_take", "refused"}
\* ChaseResult.reason, what was raised, or the await a cancellation struck.
Reasons == {"none", "book_ticker_unavailable", "filled", "partial_fill_accepted",
            "market_reduce_only_fallback", "partial_after_timeout", "timeout_no_fill",
            "would_take", "refused", "timeout", "book_ticker",
            "in_loop", "in_handler", "outside_loop"}

CallPcs == {"place", "modify", "query", "accept", "close", "market", "abort"}
Pcs == CallPcs \cup {"first_ticker", "loop", "ticker", "sleep", "done"}
\* The awaits inside the try block whose handler cancels the order (lines 176-256).
TryPcs == {"ticker", "place", "modify", "query", "accept", "sleep"}

Live(i) == orders[i].status \in LiveStatus
LiveOrders == {i \in DOMAIN orders : Live(i)}
ReduceOnly == kind # "ENTRY"
MarketFallback == kind = "STOP"
\* chase_stop and chase_reduce_only pass partial_accept_ratio=1.
Accept == IF kind = "ENTRY" THEN AcceptQty ELSE Qty

\* What the exchange executed of the chase's limit orders together.
Executed == SumFunction([i \in DOMAIN orders |-> orders[i].executed])
-----------------------------------------------------------------------------
(***************************************************************************)
(* The exchange, as the chaser uses it.  A fill of a reduce-only order     *)
(* shrinks the position and never turns it round.                          *)
(***************************************************************************)

WithOrder(i, s, e) == [orders EXCEPT ![i] = [status |-> s, executed |-> e]]

\* DryRunExchange lets an order make progress only when it is queried.
MayFill == Venue = "binance" \/ wire.op = "query"

ExchangeFill(i, q) ==
  /\ MayFill
  /\ i \in LiveOrders
  /\ q \in 1..(Qty - orders[i].executed)
  /\ ReduceOnly => q <= held
  /\ LET e == orders[i].executed + q IN
       orders' = WithOrder(i, IF e = Qty THEN "FILLED" ELSE "PARTIALLY_FILLED", e)
  /\ held' = IF ReduceOnly THEN held - q ELSE held + q
  /\ UNCHANGED <<local, pc, wire, rsp, stray, result>>

\* The exchange ends an order by itself: an amended GTX order that would take,
\* a cancel by hand, a reduce-only order whose position is gone.
ExchangeExpires(i) ==
  /\ "expire" \in Disturbances \/ (ReduceOnly /\ held = 0)
  /\ i \in LiveOrders
  /\ \E s \in {"EXPIRED", "CANCELED"} : orders' = WithOrder(i, s, orders[i].executed)
  /\ UNCHANGED <<local, pc, wire, rsp, stray, held, result>>

\* RateLimit, TimestampDrift and the other refusals that have no effect.
RefusedAnyway(o) == o = "refused" /\ "error" \in Disturbances /\ UNCHANGED <<orders, held>>
WouldTake(o) == o = "would_take" /\ "would_take" \in Disturbances /\ UNCHANGED <<orders, held>>

PlaceEffect(o) ==
  \/ /\ o = "ok"
     /\ ReduceOnly => held > 0
     /\ orders' = Append(orders, [status |-> "NEW", executed |-> 0])
     /\ UNCHANGED held
  \/ /\ o = "refused" /\ ReduceOnly /\ held = 0
     /\ UNCHANGED <<orders, held>>
  \/ WouldTake(o)

\* The amended order keeps its quantity; only the price, left out here, moves.
ModifyEffect(i, o) ==
  \/ /\ o = (IF Live(i) THEN "ok" ELSE "refused")
     /\ UNCHANGED <<orders, held>>
  \/ WouldTake(o)

QueryEffect(o) == o = "ok" /\ UNCHANGED <<orders, held>>

\* BinanceClient raises when the order is already over; DryRunExchange does not.
CancelEffect(i, o) ==
  /\ o = (IF Live(i) \/ Venue = "dry_run" THEN "ok" ELSE "refused")
  /\ orders' = IF Live(i) THEN WithOrder(i, "CANCELED", orders[i].executed) ELSE orders
  /\ UNCHANGED held

\* The book is deep enough for a MARKET order; the position bounds what it does.
MarketEffect(q, o) ==
  /\ o = (IF held > 0 THEN "ok" ELSE "refused")
  /\ held' = IF q <= held THEN held - q ELSE 0
  /\ UNCHANGED orders

Effect(r, o) ==
  \/ r.op = "place"  /\ PlaceEffect(o)
  \/ r.op = "modify" /\ ModifyEffect(r.id, o)
  \/ r.op = "query"  /\ QueryEffect(o)
  \/ r.op = "cancel" /\ CancelEffect(r.id, o)
  \/ r.op = "market" /\ MarketEffect(r.qty, o)
  \/ r.op # "none"   /\ RefusedAnyway(o)

\* The order the answer to r describes: a place is answered with the new order.
Described(r) == IF r.op = "place" THEN Len(orders') ELSE r.id

Answer(r, o) ==
  [outcome |-> o,
   snap |-> IF o = "ok" /\ r.op # "market"
            THEN [id |-> Described(r), status |-> orders'[Described(r)].status,
                  executed |-> orders'[Described(r)].executed]
            ELSE NoOrder]

Serve(o) ==
  /\ Effect(wire, o)
  /\ wire' = NoRequest
  /\ rsp' = Answer(wire, o)
  /\ UNCHANGED <<local, pc, stray, result>>

\* A request whose caller is gone still takes effect; nobody reads the answer.
ServeStray(r, o) ==
  /\ r \in stray
  /\ Effect(r, o)
  /\ stray' = stray \ {r}
  /\ UNCHANGED <<local, pc, wire, rsp, result>>
-----------------------------------------------------------------------------
(***************************************************************************)
(* The coroutine.                                                          *)
(***************************************************************************)
Send(next, op, i, q) ==
  /\ pc' = next
  /\ wire' = [op |-> op, id |-> i, qty |-> q]
  /\ UNCHANGED <<stray, result>>

Return(outcome, filled, reason) ==
  /\ pc' = "done"
  /\ result' = [kind |-> outcome, filled |-> filled, reason |-> reason]
  /\ UNCHANGED <<wire, stray>>

Raise(cause) ==
  /\ pc' = "done"
  /\ result' = [kind |-> "raised", filled |-> 0, reason |-> cause]

Exchange == <<orders, held>>

FirstTicker ==
  /\ pc = "first_ticker"
  /\ \/ pc' = "loop" /\ UNCHANGED <<wire, stray, result>>
     \/ "stale" \in Disturbances /\ Return("failure", 0, "book_ticker_unavailable")
     \/ "error" \in Disturbances /\ Raise("book_ticker") /\ UNCHANGED <<wire, stray>>
  /\ UNCHANGED <<local, rsp, Exchange>>

\* Mutant: an order that is partly filled is not amended but placed again.
PlaceAgainUnlessNew ==
  IF order = NoOrder \/ order.status # "NEW"
  THEN Send("place", "place", 0, Qty)
  ELSE Send("modify", "modify", order.id, Qty)

\* Lines 194-211: a fresh order when there is none or the last one is over,
\* else an amendment of the live one; always for the whole requested quantity.
PlaceOrModify ==
  IF order = NoOrder \/ order.status \in DeadStatus
  THEN Send("place", "place", 0, Qty)
  ELSE Send("modify", "modify", order.id, Qty)

\* Mutant: the two quantities of the remainder swapped.
ConcludeSwapped ==
  IF MarketFallback /\ order.executed < Qty
  THEN Send("market", "market", 0, order.executed - Qty)
  ELSE Return("success", order.executed, "partial_after_timeout")

\* Mutant: a partly filled stop counts as done.
ConcludePartialIsDone ==
  IF MarketFallback /\ order.executed = 0
  THEN Send("market", "market", 0, Qty)
  ELSE Return("success", order.executed, "partial_after_timeout")

\* Lines 270-312: what follows once no order of the chase can still rest.
Conclude ==
  IF MarketFallback /\ order.executed < Qty
  THEN Send("market", "market", 0, Qty - order.executed)
  ELSE IF order.executed > 0
  THEN Return("success", order.executed, "partial_after_timeout")
  ELSE Return("failure", 0, "timeout_no_fill")

\* Mutant: only an untouched order is cancelled at the end.
LeaveLoopCancelNewOnly ==
  IF order # NoOrder /\ order.status = "NEW"
  THEN Send("close", "cancel", order.id, 0)
  ELSE Conclude

LeaveLoop ==
  IF order # NoOrder /\ order.status \notin {"FILLED", "CANCELED"}
  THEN Send("close", "cancel", order.id, 0)
  ELSE Conclude

\* Mutant: the chase does not give up on an order that is still NEW.
LoopTestNeverGivesUp ==
  /\ pc = "loop"
  /\ IF elapsed >= MaxTicks /\ order.status # "NEW"
     THEN LeaveLoop
     ELSE IF order = NoOrder
     THEN PlaceOrModify
     ELSE pc' = "ticker" /\ UNCHANGED <<wire, stray, result>>
  /\ UNCHANGED <<local, rsp, Exchange>>

LoopTest ==
  /\ pc = "loop"
  /\ IF elapsed >= MaxTicks
     THEN LeaveLoop
     ELSE IF order = NoOrder
     THEN PlaceOrModify \/ ("error" \in Disturbances /\ Raise("book_ticker") /\ UNCHANGED <<wire, stray>>)
     ELSE pc' = "ticker" /\ UNCHANGED <<wire, stray, result>>
  /\ UNCHANGED <<local, rsp, Exchange>>

\* A stale feed leaves the loop; a failed REST read or a crossed book raises.
Ticker ==
  /\ pc = "ticker"
  /\ \/ PlaceOrModify
     \/ "stale" \in Disturbances /\ LeaveLoop
     \/ "error" \in Disturbances /\ Raise("book_ticker") /\ UNCHANGED <<wire, stray>>
  /\ UNCHANGED <<local, rsp, Exchange>>

Answered(p) == pc = p /\ rsp # NoResponse /\ rsp' = NoResponse
AnsweredOk(p) == Answered(p) /\ rsp.outcome = "ok"

AfterPlace ==
  /\ AnsweredOk("place")
  /\ order' = rsp.snap
  /\ Send("query", "query", rsp.snap.id, 0)
  /\ UNCHANGED <<kind, elapsed, Exchange>>

AfterModify ==
  /\ AnsweredOk("modify")
  /\ Send("query", "query", order.id, 0)
  /\ UNCHANGED <<local, Exchange>>

\* Mutant: `continue` without the sleep before it.
AfterPostOnlyRefusalNoSleep ==
  /\ \E p \in {"place", "modify"} : Answered(p)
  /\ rsp.outcome = "would_take"
  /\ pc' = "loop"
  /\ UNCHANGED <<local, wire, stray, result, Exchange>>

\* PostOnlyWouldTake: DryRunExchange raises it, BinanceClient never does and
\* reports the same refusal as an error that the chase does not handle.
AfterPostOnlyRefusal ==
  /\ \E p \in {"place", "modify"} : Answered(p)
  /\ rsp.outcome = "would_take"
  /\ IF Venue = "dry_run"
     THEN pc' = "sleep" /\ UNCHANGED <<wire, stray, result>>
     ELSE Raise("would_take") /\ UNCHANGED <<wire, stray>>
  /\ UNCHANGED <<local, Exchange>>

EnoughFilled(o) == o.status = "PARTIALLY_FILLED" /\ ~MarketFallback /\ o.executed >= Accept

\* Mutant: the queried state is looked at but not kept.
AfterQueryNotKept ==
  /\ AnsweredOk("query")
  /\ IF rsp.snap.status = "FILLED"
     THEN Return("success", rsp.snap.executed, "filled")
     ELSE pc' = "sleep" /\ UNCHANGED <<wire, stray, result>>
  /\ UNCHANGED <<local, Exchange>>

AfterQuery ==
  /\ AnsweredOk("query")
  /\ order' = rsp.snap
  /\ IF rsp.snap.status = "FILLED"
     THEN Return("success", rsp.snap.executed, "filled")
     ELSE IF EnoughFilled(rsp.snap)
     THEN Send("accept", "cancel", rsp.snap.id, 0)
     ELSE pc' = "sleep" /\ UNCHANGED <<wire, stray, result>>
  /\ UNCHANGED <<kind, elapsed, Exchange>>

\* Mutant: an accepted partial fill is reported as a full one.
AfterAcceptReportsRequest ==
  /\ AnsweredOk("accept")
  /\ Return("success", Qty, "partial_fill_accepted")
  /\ UNCHANGED <<local, Exchange>>

AfterAccept ==
  /\ AnsweredOk("accept")
  /\ Return("success", order.executed, "partial_fill_accepted")
  /\ UNCHANGED <<local, Exchange>>

AfterClose ==
  /\ AnsweredOk("close")
  /\ Conclude
  /\ UNCHANGED <<local, Exchange>>

AfterMarket ==
  /\ AnsweredOk("market")
  /\ Return("success", Qty, "market_reduce_only_fallback")
  /\ UNCHANGED <<local, Exchange>>

\* CancelledError leaves the coroutine; where tells which await it struck.
Cancelled(where) ==
  /\ pc' = "done"
  /\ result' = [kind |-> "cancelled", filled |-> 0, reason |-> where]

\* The handler re-raises CancelledError once its cancel is answered.
AfterAbort ==
  /\ AnsweredOk("abort")
  /\ Cancelled("in_loop")
  /\ UNCHANGED <<local, wire, stray, Exchange>>

\* Every other exchange error leaves the coroutine uncaught.
AfterRefusal ==
  /\ \E p \in CallPcs : Answered(p)
  /\ rsp.outcome = "refused"
  /\ Raise("refused")
  /\ UNCHANGED <<local, wire, stray, Exchange>>

WakeUp ==
  /\ pc = "sleep"
  /\ pc' = "loop"
  /\ elapsed' = IF elapsed < MaxTicks THEN elapsed + 1 ELSE elapsed
  /\ UNCHANGED <<kind, order, wire, rsp, stray, result, Exchange>>

\* The current await is given up; its request, if not yet served, stays out there.
Abandon ==
  /\ stray' = IF wire = NoRequest THEN stray ELSE stray \cup {wire}
  /\ rsp' = NoResponse

\* httpx gives up on a request: NetworkTimeout, whatever became of the request.
CallTimesOut ==
  /\ "timeout" \in Disturbances
  /\ pc \in CallPcs
  /\ Abandon
  /\ wire' = NoRequest
  /\ Raise("timeout")
  /\ UNCHANGED <<local, Exchange>>

\* Mutant: the handler forgets partly filled orders.
TaskCancelledNewOnly ==
  /\ "shutdown" \in Disturbances
  /\ pc \in TryPcs
  /\ Abandon
  /\ IF order.status = "NEW"
     THEN /\ pc' = "abort"
          /\ wire' = [op |-> "cancel", id |-> order.id, qty |-> 0]
          /\ UNCHANGED result
     ELSE Cancelled("in_loop") /\ wire' = NoRequest
  /\ UNCHANGED <<local, Exchange>>

\* Where the handler of lines 257-261 stands to a cancellation at the current await.
Struck == IF pc \in TryPcs THEN "in_loop" ELSE IF pc = "abort" THEN "in_handler" ELSE "outside_loop"

\* Shutdown cancels the task: CancelledError at the current await.  It may strike
\* again while the handler awaits its own cancel (main.py:362-367 cancels the task
\* and waits for it; asyncio.run cancels whatever is left): that await is given up.
TaskCancelled ==
  /\ "shutdown" \in Disturbances
  /\ pc \in CallPcs \cup {"first_ticker", "ticker", "sleep"}
  /\ Abandon
  /\ IF pc \in TryPcs /\ order # NoOrder /\ order.status \notin {"FILLED", "CANCELED"}
     THEN /\ pc' = "abort"
          /\ wire' = [op |-> "cancel", id |-> order.id, qty |-> 0]
          /\ UNCHANGED result
     ELSE Cancelled(Struck) /\ wire' = NoRequest
  /\ UNCHANGED <<local, Exchange>>

\* Time also passes while the exchange takes its time to answer.
CallIsSlow ==
  /\ pc \in CallPcs
  /\ elapsed < MaxTicks
  /\ elapsed' = elapsed + 1
  /\ UNCHANGED <<kind, pc, order, wire, rsp, stray, result, Exchange>>
-----------------------------------------------------------------------------
Init ==
  /\ kind \in Kinds
  /\ pc = "first_ticker"
  /\ order = NoOrder
  /\ elapsed = 0
  /\ wire = NoRequest
  /\ rsp = NoResponse
  /\ stray = {}
  /\ orders = <<>>
  /\ held \in IF kind = "ENTRY" THEN {0} ELSE StartHeld
  /\ result = Pending

Resume ==
  \/ FirstTicker \/ LoopTest \/ Ticker
  \/ AfterPlace \/ AfterModify \/ AfterPostOnlyRefusal \/ AfterQuery
  \/ AfterAccept \/ AfterClose \/ AfterMarket \/ AfterAbort \/ AfterRefusal
  \/ WakeUp

Interrupt == CallTimesOut \/ TaskCancelled \/ CallIsSlow

ExchangeStep ==
  \/ \E o \in Outcomes : Serve(o)
  \/ \E r \in stray, o \in Outcomes : ServeStray(r, o)
  \/ \E i \in DOMAIN orders, q \in 1..Qty : ExchangeFill(i, q)
  \/ \E i \in DOMAIN orders : ExchangeExpires(i)

Finished == pc = "done" /\ UNCHANGED vars

Next == Resume \/ Interrupt \/ ExchangeStep \/ Finished

Spec == Init /\ [][Next]_vars

(***************************************************************************)
(* The event loop resumes a coroutine whose await is over, and httpx gives *)
(* every request a bounded time (timeout=10): it is answered or it raises. *)
(***************************************************************************)
Fairness == WF_vars(Resume) /\ WF_vars((\E o \in Outcomes : Serve(o)) \/ CallTimesOut)
FairSpec == Spec /\ Fairness
-----------------------------------------------------------------------------
(***************************************************************************)
(* Properties.                                                             *)
(***************************************************************************)
Returned == result.kind \in {"success", "failure"}

OrderRec == [status : Status, executed : Nat]
SnapRec == [id : Nat, status : Status \cup {"NONE"}, executed : Nat]
RequestRec == [op : Ops, id : Nat, qty : Nat]
ResultRec == [kind : ResultKinds, filled : Nat, reason : Reasons]
ResponseRec == [outcome : Outcomes, snap : SnapRec]

\* The values the state may have.
TypeOK ==
  /\ kind \in Kinds
  /\ pc \in Pcs
  /\ order \in SnapRec
  /\ elapsed \in Nat /\ elapsed <= MaxTicks
  /\ wire \in RequestRec \cup {NoRequest}
  /\ rsp \in ResponseRec \cup {NoResponse}
  /\ \A r \in stray : r \in RequestRec
  /\ orders \in Seq(OrderRec)
  /\ held \in Nat
  /\ result \in ResultRec

\* A chase never has two orders working at once, although it decides to place
\* a new one from the status it last saw (line 194) and a request may be served
\* after its caller gave up.
AtMostOneLiveOrder == \A i, j \in LiveOrders : i = j

\* When _chase returns a ChaseResult - whatever its reason - no order of the
\* chase is working and none is on its way to the exchange.
NothingWorkingAfterReturn ==
  Returned =>
    LiveOrders = {} /\ \A r \in stray \cup {wire} : r.op # "place"

\* The quantity a maker-only chase reports (lines 226-254, 295) was executed.
ReportedWithinExecuted ==
  Returned /\ result.reason # "market_reduce_only_fallback" =>
    result.filled <= Executed

\* The chase is over because it was cancelled inside the try block: there was
\* nothing to cancel, or its handler has ended, in whatever way.
EndsByCancellation ==
  /\ pc # "done" /\ pc' = "done"
  /\ pc = "abort" \/ (pc \in TryPcs /\ result'.kind = "cancelled")

\* A chase cancelled inside the loop (lines 257-261) leaves no order that it knew
\* about working, even if the handler's cancel timed out or was itself cancelled:
\* unless the exchange refused that cancel, the order is over or its cancel is
\* still on its way.  An await outside the try block gives no such promise.
CancelledLeavesNoKnownOrder ==
  [][EndsByCancellation =>
       \/ order.id \notin LiveOrders'
       \/ pc = "abort" /\ rsp.outcome = "refused"
       \/ \E r \in stray' : r.op = "cancel" /\ r.id = order.id]_vars

\* The MARKET order of a stop goes out only when no limit order of the chase
\* can fill beside it (lines 263-273).
MarketOnlyAfterCancel == wire.op = "market" => LiveOrders = {}

\* A stop reported as successful has closed the position it was started for:
\* run_live_stop marks the position flat on success.
StopSuccessFlattens == kind = "STOP" /\ result.kind = "success" => held = 0

\* With DryRunExchange, which moves an order only when it is queried, the
\* reported quantity is exactly the change of the position (a stop starts from
\* a position of Qty there).
ReportIsExact ==
  Returned =>
    result.filled = IF ReduceOnly THEN Qty - held ELSE held

\* Every chase ends, whatever the exchange answers and however long it takes.
ChaseEnds == <>(pc = "done")

Works == LiveOrders # {} \/ \E r \in stray \cup {wire} : r.op \in {"place", "market"}

Told ==
  [how |-> IF result.kind \in {"raised", "cancelled"} THEN "silence"
           ELSE result.kind,
   filled |-> result.filled]

Contract == INSTANCE ChaseContract WITH
  Full <- Qty, entering <- kind = "ENTRY", working <- Works, traded <- Executed, told <- Told

\* A chase keeps to what its callers take it for (ChaseContract): the position
\* moves only while an order of it works, a returned result is the end of every
\* order, and it tells of no more than was done (main.py:197-228, 249-268).
ImplementsContract == Contract!ContractSpec

\* docs/trading_rules.md:111 and README.md:69 say that the market stop takes
\* the remaining position and no more.
MarketStopWithinPosition == wire.op = "market" => wire.qty <= held

\* docs/operations_runbook.md:194 "Post-only would take: retry maker-only path.".
PostOnlyRefusalIsRetried == ~(result.kind = "raised" /\ result.reason = "would_take")

\* docs/trading_rules.md:119 "No add-on entry while that symbol has an open
\* position": an entry never buys more than the quantity it was sized for.
EntryWithinRequest == kind = "ENTRY" => Executed <= Qty
=============================================================================
