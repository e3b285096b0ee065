# Binance pivot bot: specifications and proofs

The repository is a single-process asyncio trading bot for one Binance USD-M
futures symbol. It watches closed candles for pivots, keeps a local stop
trigger per side, and turns a touched trigger into a maker-only entry order; it
closes positions with reduce-only orders. All paths below are relative to the
repository root; the Python package is `src/bot`.

## 1. Inventory

| Component | State it keeps | Operations | Talks to |
| --- | --- | --- | --- |
| Maker chase (`execution_maker_chaser.py`) | locals of one coroutine: last order snapshot, start time | `chase_entry`, `chase_stop`, `chase_reduce_only` | exchange adapter, ticker source |
| Exchange adapter (`binance_client.py`) | none (HTTP client) | place, modify, query, cancel, market reduce-only, account, position, open orders | Binance REST |
| Dry-run exchange (`dry_run_exchange.py`) | simulated orders, scripted query results | the same calls | dry-run session, tests |
| Pivot strategy (`strategy_pivot.py`) | candle window, `hprice/lprice`, `le/se`, two pending triggers | `on_candle`, `mark_triggered`, `invalidate_opposite_trigger` | trigger monitor, sessions |
| Trigger monitor (`trigger_monitor.py`) | none of its own | `on_live_price_update` | pivot strategy |
| Live session (`main.py:105-377`, `live_strategy_runner.py`) | local position, fill count, entry task, stop task | startup gates, ticker callback, candle loop, entry, stop, reversal, shutdown | everything above, the marker |
| Managed-position marker (`live_position_state.py`) | one JSON file | write, clear, load, match | live session across restarts |
| Dry-run session (`main.py:395-767`) | summary, entry task | candle and ticker observation, simulated chases, cleanup | strategy, dry-run exchange |
| Risk manager (`risk_manager.py`) | thresholds | entry and signal guards, stop test, reduce-only clamp | live session |
| Filters and sizing (`exchange_filters.py`, `position_sizing.py`) | filter constants | quantise, maker price, size by equity | chase, runner |
| Book ticker feed (`book_ticker_stream.py`, `book_ticker_provider.py`) | latest snapshot, counters | connect/reconnect loop, publish, freshness test | sessions, chase |
| Kline feed (`market_data.py`) | none | reconnecting stream of closed candles | sessions |
| Configuration (`config.py`, `safety.py`) | settings | validations | sessions |
| Reconciliation, state store (`reconciliation.py`, `state_store.py`) | SQLite tables | compare, record | startup of the dry run |
| Preflight (`scripts/preflight_live_readonly.py`) | a report | reads position and open orders, verdict GO or NO_GO | Binance REST |
| Order-control canary (`scripts/live_canary_order_control.py`) | two real orders, a report | place, query, amend, cancel per side, cleanup, rescue | Binance REST |
| Gates (`scripts/live_readiness_gate_report.py`, `final_live_start_gate.py`, `start_final_live_strategy_user_service.sh`) | a summary file | sum up the reports, decide, start the service | systemd |
| Live monitor (`scripts/live_monitor_status.py`) | the last report | a check every 15 minutes, OK or ALERT | Binance REST, marker, event log, systemd |

Components run in one event loop: a coroutine is interrupted only at an
`await`. Two tasks may be at work for the account at once (the entry or
reversal task and the stop task), and the exchange acts on its own in between.
Processes are restarted by systemd (`Restart=on-failure`); only the marker file
and the exchange survive.

What is hard, and what each component must get right:

* **Maker chase.** Every decision is taken on the order snapshot of the last
  query while fills, expiries, timeouts and cancellation happen at the other
  side. It must never have two orders working, never return with one working,
  never report what was not executed, and always end.
* **Live session.** Local position, marker and exchange can drift apart when a
  chase fails, when two tasks interleave or when the process dies. It must not
  add to a position, must not run an entry beside a stop, and must resume
  after a restart only what it knew.
* **Strategy and monitor.** The local triggers must follow the Pine reference
  of `docs/trading_rules.md`, fire at most once per pivot and never both sides
  together.
* **Filters.** Prices must stay maker, quantities must be multiples of the
  step and within the minimums.
* **Dry-run session.** The session, the ticker feed and an entry chase end in
  any order, by a timeout, an exception in any of them or Ctrl-C. No simulated
  order may be left to itself, none may rest at an old price, and every bounded
  run ends.
* **Canary and gates.** The canary trades on the real account and may be cut off
  at any request; its verdict must mean that nothing was executed and nothing
  is left. A start must rest on the verdicts that hold now, and the service
  must not run on an account that a script or a person left in disorder.
* **Live monitor.** Its readings are of several moments of a session that goes
  on; an OK must have been true, and no event may fall between two checks.

## 2. Plan

The order puts first what can lose money silently: the order protocol, then
the session that owns the position, then the signals, then numbers and gates.

| Step | Modules | What for | State |
| --- | --- | --- | --- |
| 1 | `MakerChaser`, `MCMakerChaser`, `MakerChaserProofs`, `SumLemmas` | one order at a time against a live exchange | done |
| 2 | `PivotStrategy`, `PineReference`, `PineParity`, `MCPineParity`, `PineParityProofs` | signals equal the Pine script | done; parity proved |
| 3 | `PositionProtocol`, `LiveStrategy`, `LiveLedger`, `MCLiveStrategy`, `MCLiveLedger`, `LiveStrategyProofs` | the session implements the position protocol across failures and restarts; what it knows of its position | done |
| 4 | `ExchangeFilters`, `ExchangeFiltersProofs` | rounding, maker price, sizing and the canary's price and quantity as functions; theorems for all integers | done |
| 5 | `DrySession`, `MCDrySession`, `DrySessionProofs` | the bounded dry run with the ticker feed it starts: task control, a feed that drops or dies, cleanup, Ctrl-C | done |
| 6 | `ChaseContract` | what the callers take a chase for; `MakerChaser` implements it | done; the refinement proved |
| 7 | `OrderControlCanary`, `StartGates`, `MCStartGates`, `StartGatesProofs` | the rehearsal on the real account and the decisions that lead to a running service | done |
| 8 | `LiveMonitor`, `MCLiveMonitor`, `LiveMonitorProofs` | the monitor beside the live session | done |
| 9 | proofs | every invariant and action property that a passing run checks, as a theorem for all values of the constants (section 10) | done; liveness stays with TLC |

Composition: `PineParity` extends `PivotStrategy` and instantiates `PineReference` beside
it; `LiveStrategy` instantiates `PositionProtocol` through a refinement mapping and keeps of
a chase only the steps its caller can tell apart; `ChaseContract` states what it takes a
chase for, and `MakerChaser` is shown to implement that; `LiveLedger` adds to the steps of
`LiveStrategy` what of them nobody is told; `StartGates` extends `OrderControlCanary`;
`LiveMonitor` extends `LiveStrategy` and adds to its steps what they log.

## 3. The maker chase

`MakerChaser` is the coroutine `MakerChaser._chase` and the exchange it talks to.

* `pc` says at which `await` the coroutine is; `order` is the snapshot the code
  keeps, `wire` and `rsp` the request under way and its answer, `stray` the
  requests whose caller gave up and that may still arrive, `orders` the orders
  at the exchange, `result` what is returned or raised.
* `Resume` continues the coroutine from one await to the next, with the early
  returns and exceptions of the code; `Serve` is the exchange acting on a request
  under an outcome (answered, refused, cut off before or after its effect);
  `ExchangeStep` fills and expires orders in between; `Interrupt` is a timeout
  or a cancellation of the task.
* Prices are left out: which price an order has does not decide what happens to
  it in this model, and a fill may come at any moment.
* Bounds: the quantity is two or three steps so that partial fills occur, the time limit a
  few rounds so that there is at least one placement, one amendment and a timeout.

| Run | Shows |
| --- | --- |
| `chaser_live` | `ChaseContract` is implemented; entry, stop and close against the live exchange under every disturbance: no two orders work at once, a returned result leaves nothing working, no more is reported than was executed, a task cancelled in its loop leaves no order it knew of without a cancel on its way, the MARKET fallback never runs beside a resting order, a reported stop is flat, every chase ends |
| `chaser_dry` | against `DryRunExchange` the reported quantity is exact, an entry buys no more than it was asked to, every chase ends |
| `chaser_stop_excess`, `chaser_post_only` | two statements of the docs that the code does not keep (section 11) |

A task may be cancelled twice: `main.py:362-367` cancels it and waits, and `asyncio.run`
cancels whatever is left, which may strike while the handler of the first cancellation
awaits its own `cancel_order` (`execution_maker_chaser.py:257-261`). `TaskCancelled` is
enabled there too, and that cancel may then arrive later or never (`stray`).
`CancelledLeavesNoKnownOrder` is a property of the step that ends such a chase, in
whatever way it ends: the order it knew of is over, or its cancel is still on its way,
unless the exchange answered that cancel with a refusal. What becomes of a cancel on its
way is the exchange's (and the network's) affair: no chase looks at it any more.

`EntryWithinRequest` is not checked on the live exchange: an entry order that
ends partly filled is replaced for the whole requested quantity
(`execution_maker_chaser.py:194-207`), so the bound is lost there. What the session
still knows of its position after that is the subject of `LiveLedger` (section 5).

`ChaseContract` has five variables and four steps: while an order works the
position may move; orders come and go; the chase returns (then nothing works any
more, and a success tells of no more than was traded, or of a position that was to
be closed and is) or breaks off (then an order may be left, and nothing was told).
The mapping counts a placement under way or given up, which may still reach the
exchange, as an order that works. `Fill`, `Returns`, `Dies` and `Orphaning` of
`LiveStrategy` are these steps as its tasks see them.

Fairness: the coroutine goes on when it can, and a request is answered or times
out. asyncio and the HTTP client's timeout (`binance_client.py`) give both;
nothing is assumed of fills.

## 4. Strategy, monitor and the Pine script

`PivotStrategy` holds `strategy_pivot.py` and `trigger_monitor.py`. The long and
the short half of the code mirror each other, so the state is a function of the
side: `level` is `hprice`/`lprice`, `armed` is `le`/`se`, `trigger` the pending
stop trigger, `candles` the deque. `OnCandle` is `on_candle` with its calls of
`_sync_pending_*`; `LivePrice` is `on_live_price_update` with `mark_triggered` and
`invalidate_opposite_trigger`; `ClosedKline` is a closed candle in one of the two
wirings: the dry run shows it to the monitor first, the live session does not.

`PineReference` is the script printed in `docs/trading_rules.md:9-28`, with "no
level yet" where the script starts at 0.0 (its flags are false then, so no order
depends on it). `PineParity` runs both on one market. Two history variables
record which sides fired on their present pivot (`spent`) and since the last
candle (`firedInBar`).

| Run | Shows |
| --- | --- |
| `pine_live` | levels, flags and triggers are the script's, no trigger is forgotten, one side fires per bar |
| `pine_gaps` | the dry-run wiring on a feed with gaps: one pivot starts at most one entry, a missed trigger is reported only if the monitor held the hit back |
| `pine_closed` | a statement of the docs that the live wiring does not keep (section 11) |

Bounds: prices 0 to 4 and one tick. A bar from 1 to 3 between bars at 2 is a pivot on both
sides with triggers at 4 and 0, so a range can touch neither, one or both, with and without
crossing the level. Windows of three and four bars, one with a longer right side, exercise
the index arithmetic of `_confirmed_pivot` and the deque's drop; wider windows add states
and no new comparison. The parity properties are checked on a feed that loses nothing: a
candle lost in a reconnect (`market_data.py:93-102`) is never fetched, and the levels then
differ from the script's for good. No liveness: prices are free never to come.

## 5. The live session

`LiveStrategy` is `run_live_strategy` with the runner's three chases and the
marker file.

* `proc` is down, at one of the startup gates, running, or in the `finally` block;
  `position`, `fills` and `marker` are the code's; `entry` is `entry_task` (its
  side and the await it is at), `stop` is `stop_task`, `chase` the order of each;
  `net` is the exchange's position, `orphans` the orders no task knows of.
* Positions are signed. A tick is reduced to what it sets off (a breakout, a stop,
  or both with one price), since `PivotStrategy` says when a breakout comes and the
  stop price is a comparison. What the monitor refuses is in `BreakoutAccepted`.
* `EntryStarts`, `AccountRead`, `Returns`/`EntryResult` are `run_live_entry` between
  its awaits; `ReversalStarts`, `PositionAnswered`, `GoesOn` are
  `run_live_reversal`; `StopStarts`, `StopResult` are `run_live_stop`;
  `OpenOrdersGate`, `PositionGate`, `AccountGate` the startup; `Shutdown`, `Unwinds`,
  `Stopped` the `finally` block, in which the feed is still alive and a stop can
  still be set off; `Crash` is a kill at any point, `Start` the restart by systemd.
* `Disturbances` names what may go wrong in a run: a fill after the last query, a failing
  request, a kill, a shutdown, a `get_position` answer that is old when it arrives,
  an order that the exchange ends by itself, in part or not executed at all.
* `OrderEnds` is that end: an amendment that would take, a cancel by hand, a reduce-only
  order with nothing left to close. The chase that sees it places another order for its
  whole quantity and forgets what the ended one executed (`Places`), concludes
  (`MayConclude`), or dies of the refusal of its next amendment or cancel
  (`CancelRefused`), as `_chase` does.
* External: the matching engine, and a person who cleans up while the service is down.

`PositionProtocol` is what the session promises: a position is opened only from
flat and beside no stop, what is believed is what is saved, and a restart believes
only what was saved. The mapping takes `Leg` from `entry.pc` and ignores the
exchange.

`LiveLedger` adds two history variables. `untold` is what orders of entries executed
that the exchange ended and that no report tells of, since the entry went on with a new
order or died; it is forgotten when nothing is at work and what is held is what is
believed. `refused` says that a close died of its order's end, and that no stop has
followed. Neither restrains a step of the session.

| Run | Shows |
| --- | --- |
| `live_session` | with every disturbance and the monitor beside it (section 6): the position protocol is implemented, the fill limit holds, a session starts in agreement with the account; OK reports were true and no event in the log is missed |
| `live_ledger` | killed or shut down at any step, with reversals, stops, late position answers and orders that the exchange ends in part, but no failing request and no late fill: up to `untold`, an entry owns the position, an idle session holds what it believes in or nothing, and a stop ends flat unless the exchange refused its cancel |
| `live_unknown` | a statement of the docs that the code does not keep (section 11) |

Bounds: `MaxNet` is the largest position the exchange grants, `MaxOrphans` the orders left
behind at one time. `live_ledger` has orders of two steps, so that one can end after a
step, be replaced and leave three held (`MaxNet` 3), two orders left behind, and one
step that nobody was told of (`MaxUntold`): a second one would be the same again.
`live_session` has everything that can go wrong and the monitor, at one step, one order
left behind, and two entry fills, so that the limit is met by an entry, by a reversal
and by a resumed position; part-filled orders are `live_ledger`'s.

Fairness (`live_ledger` only): `WF` of the steps of either task, `SF` of the end of a stop.
The event loop runs what is ready, requests time out and sleeps end; the exchange may end
a stop's orders again and again, but every chase has a deadline. No fairness of prices,
fills or restarts.

`StopFlattens` has two exceptions that the code makes. A stop closes what is believed,
so what was never told stays. And a stop whose last query showed its order EXPIRED as
its time was over cancels it all the same (`execution_maker_chaser.py:264`): the
refusal is raised out of the chase and no MARKET order is sent (`refused`).

`NothingUnknownHeld` allows one drift on purpose: the stop and a reversal may work on
the same position, and when the reversal's `get_position` answer is older than
the stop's end, or the stop's chase dies because nothing is left to close, the
session goes on believing in a position the account no longer has. No text in
the repository promises otherwise, so this is recorded as a hazard and not as a
finding; the next restart's gates correct it. A position nobody
knows of arises from an ended order of an entry (`untold` bounds it exactly), and from late
fills and failing requests, which `live_ledger` therefore leaves out; `live_session`,
which has them, claims only the protocol.

## 6. The live monitor

`LiveMonitor` extends the session with `scripts/live_monitor_status.py`. `check` is
where a check is and what it has found: the service's state and the beginning of the
check (`CheckStarts`), open orders, position, marker, log, report, each a step of its
own between which the session goes on. `log` says which abnormal
events the file holds: when they were logged, relative to the beginnings of the last report
and of this check, and whether a report under way has counted them.

The log is a rotating file (`logging_config.py:56-61`) of which the monitor reads the
present one, and of that the last 20000 lines (`live_monitor_status.py:99-104`).
`FallsOut` is either limit: at any moment any of the events may be gone for the monitor.

Which steps of the session log an event of `ABNORMAL_EVENTS` is read off
`main.py:183-234, 301-347` (`EntryLogs`, `StopLogs`, `TickLogs`, `BlockedTrigger`).
Where it depends on detail the session model leaves out (the events of a placement
are logged with its answer, which may come after everything the monitor reads; an
exception may log `api_error`), the model logs nothing, and what a written report has
counted is not counted again. Both only make more reports OK, so `OKWasTrue` is
claimed of more reports than the script writes. The closing legs of a reversal and the
limit order of a stop log names that are not in the list (`close_*`, `stop_order_*`),
which is why a check in the midst of one can be silent.

`OKWasTrue`: with every disturbance, a report that says OK had a moment in its check at
which the marker described the position. Two exceptions are stated in it. A log that is
rotated within the check may take along the event that would have made the report an ALERT
(`rolled`). And a reversal that holds an old answer of `get_position` may write down what is
no longer there, and an earlier reading of the position then agrees with a later marker.
That no order rested at that same moment is not claimed: an order may be placed after the
orders were read. `NoEventMissed`: the cutoff of a report is the beginning of the last one
written, so an event that the log still holds is counted however long checks take and
however many fail. What was rotated out before it was read is lost, and nothing is claimed
of it.

Left out: the heartbeat and the unit's settings (more ALERTs). Assumed: the previous
report can be read (one that was cut off while it was written makes the next check
start 20 minutes back, `:96, :164`). Bounds and constants are those of section 5.

## 7. The dry-run session

`DrySession` is `run_public_market_dry_run` with `BookTickerStream.run`, the websocket
provider and one entry chase on `DryRunExchange`, which fills nothing there.

* `mode` is the configuration (websocket only or not, bounded or not, order mode),
  `pc` the await of the session, `feed` its `book_task` with `feedLeft` of its run, `book`
  the age of the latest snapshot, `chase` the entry task with its order, `end` how the session
  ended.
* Time goes in units of the chase interval. `ClockTicks` waits for nobody except that a
  wait that is over is acted on within its unit (`Due`): the loop's own delays are
  short against the interval. `Interrupted` is Ctrl-C at any await.
* `FeedDrops` and `FeedBreaks` are the ways a connection ends; the second, a refused
  handshake or an error in the callback, ends the task, and nobody looks before the
  `finally` block.
* A crossed book is no state of the model: `BookTickerSnapshot` rejects it (`models.py:103-104`), the
  feed drops that message and goes on (`book_ticker_stream.py:116-127`), and a book with bid
  below ask is not crossed by rounding (`ExchangeFiltersProofs!PublishedBookQuotes`), so
  the maker price is never refused here.

| Run | Shows |
| --- | --- |
| `dry_session` | all eight configurations: no order rests at a price older than `Stale + 1`; a run that ends by itself writes its summary exactly when its feed did not die, whatever it died of and whatever was waited for meanwhile; every session ends |

Bounds: a run of four units, the wait for the first book
two, a chase of four and a book stale after two, so that a chase can outlive the
book and the observation, and the feed can end before, with and after it.

Fairness: timers elapse, and a task whose await is over goes on; a connection attempt,
a close and a request are bounded by `websockets` and `httpx`. Nothing is assumed of
what the feeds carry.

## 8. Canary, gates and the start of the service

`OrderControlCanary` is `run_canary` with `run_side` and `cleanup_if_needed`, one step
per request, each of which may fail before or after its effect; its two orders at
the exchange, which may fill between any two requests; the report; and the kill by
a stop of its unit, a SIGTERM or a reboot (the unit is a oneshot: its `RuntimeMaxSec` limits
nothing). `held` is a position per row (`BOTH`, or `LONG` and `SHORT` in hedge
mode). `StartGates` adds the preflight (two readings and a verdict), the readiness report, the
final gate in the start script, and the service through its startup gates, with reboots and a
person who trades, cleans up or switches the position mode by hand.

| Run | Shows |
| --- | --- |
| `start_gates` | a canary's GO means nothing was executed and the account is flat as the report is made; a count of zero orders is true but for a placement without an answer; a cleanup only closes, even when it meets what a person holds; the service is started by the script only on the verdicts the reports hold now; and, however it was started (by a boot as well), it runs only in one-way mode on a flat account where nothing rests |

Bounds: canary orders of two units (partial execution), one unit opened by hand, no
bound on the number of runs and restarts. No liveness: scripts may fail for ever.

Assumptions: one person runs one script at a time and with the service off (nothing in
the code enforces it); a request is refused when it is older than its `recvWindow` of
five seconds, so nothing of one process arrives during the next; there is no managed
position (a resumed one is section 5's).

## 9. Prices and quantities

`ExchangeFilters` has the functions of `exchange_filters.py`, `position_sizing.py`, the
clamp and the canary's price and quantity, on integers: a price counts units of which the
tick is a multiple. It has no run: what is said of it are theorems, which hold for all
integers, and no other module uses it.

## 10. Proofs

TLAPS proves every invariant and every action property of the passing runs, and both
refinements, for every value of the constants; what is left to TLC is named below.
The hypotheses in the second column are explained under the table.

| Theorem | Hypothesis | Statement and argument |
| --- | --- | --- |
| `MakerChaserProofs!TypeCorrect`, `OneLiveOrder`, `ReturnIsClean`, `MarketAfterCancel`, `CancelIsClean` | | the type invariant and four safety properties. `IInv`: an order that is over stays over, so an old snapshot that says "over" is right; only the youngest order can work; the coroutine waits for one thing at a time; the request of a handler that is given up is that order's cancel, and `stray` keeps it |
| `MakerChaserProofs!ReportIsBacked` | | no more is reported than was executed. `QuantityInv`: what an order executed never shrinks, so a snapshot, however old, tells of no more; the sum over the orders is that of `SumLemmas` |
| `MakerChaserProofs!StopFlattens` | `SizedToPosition` | a stop reported as a success is flat. `HeldInv`: what is held and what was executed stay within the quantity asked for, so the MARKET order takes all that is left |
| `MakerChaserProofs!KeepsContract` | `SizedToPosition` | the refinement `Spec => Contract!ContractSpec`: each step of the coroutine, of the exchange and of an interrupt is one step of the contract or none, by the three invariants above |
| `MakerChaserProofs!DryReportIsExact`, `DryEntryWithinRequest` | `InDryRun` | `DryInv`: there is one order unless nothing is left to close, and outside a query the coroutine knows what it executed |
| `LiveStrategyProofs!Implements` | | the refinement `Spec => Protocol!Spec`. `LiveInv`: belief equals marker past the gates, nothing is believed before them, an entry at work means flat and no stop |
| `LiveStrategyProofs!EntryIsAlone`, `FillLimitHolds`, `StartAgrees` | | the protocol's invariants, the fill limit, agreement at the start. The limit is tested before a task starts and one task counts at most once (`LimitInv`); behind the first gate no order rests and no task runs (`GateInv`) |
| `LiveStrategyProofs!TypeCorrect` | | types. `QuantityInv`: an order that was placed is executed or rests, to its size exactly; with `CancelledInv` for the unwinding of a cancelled stop |
| `LiveStrategyProofs!CleanInvariance`, `EntryOwns`, `HeldIsKnown` | `Undisturbed` | over `LedgerSpec`: up to `untold`, an entry owns what is held, and an idle session holds what it believes in, or nothing, or a part of it after a refused cancel. `CleanInv`: everything is said give or take `untold` (`Near`, `Within`): what is held is part of what is believed, an order against it never goes beyond flat (`PartOf`, `Closes`), an accepted breakout was accepted from flat, and whoever leaves a part of a position is still at work or has been `refused`; `untold` grows by exactly what an entry's ended order executed |
| `LiveMonitorProofs!WatchedSession` | | the session's theorems hold beside the monitor, which only reads |
| `LiveMonitorProofs!OKIsTrue`, `NothingMissed` | | `WatchInv`: while no event is logged or falls out of the log, the marker is the position that was read only if they agreed at some moment. A write of the marker on the return of a task comes with an event, which makes the report an ALERT; every other write is of what the exchange just confirmed, or of the answer a reversal holds |
| `PineParityProofs!ParityTypeCorrect`, `PivotFiresOnce`, `BarFiresOnce` | | types, one entry per pivot, one side per bar, gaps included. `SpentInv`: a fired side is disarmed until its next pivot; `BarInv`: after a fire nothing is pending until the next candle |
| `PineParityProofs!LevelsFollow`, `FlagsFollow`, `TriggersFollow`, `NoneForgotten` | `~LoseBars` | `PineInv`: the script's window of bars is, bar by bar, the end of the bot's deque (`Tracks`), through its growth and its dropping of old candles, so both find the same pivot (`SamePivot`) |
| `PineParityProofs!MissedIsHeldBack` | `OfferClosed`, `OnGrid` | `StopInv`: a pending trigger is one tick beyond a level that was a price, so a candle that crosses the level reaches the trigger |
| `DrySessionProofs!TypeCorrect`, `ExitsCleanly`, `RestingPricesAreRecent` | | `IInv`: the feed follows the session's phases, so a feed that died is met where it is waited for, and a close of the client follows only an end that is no death; for the ages `PriceRecent`: a live order's chase is asleep, one unit at most, from a book that was not stale |
| `StartGatesProofs!TypeCorrect`, `GoIsUntouched`, `CountIsTrue` | | `CanaryInv`: the sides are worked through in order, a side that is reported well rested and was taken back untouched, and the report grows only by readings; an order without an answer is the only one that may appear later |
| `StartGatesProofs!CleanupIsReduceOnly` | | sign arithmetic of one row: a close of the size that was read, on the side that is held, cannot turn the row around |
| `StartGatesProofs!StartIsOnLatest`, `RunIsClean` | | `GatesInv`: one script at a time, each gate's answer still true when the next one is asked, the sum as fresh as the report it was made of |
| `ExchangeFiltersProofs!MakerPriceRests` | | a maker price is on the grid and on its own side of a book that is not crossed on the grid: bounds of `%` on the two sides of the tick |
| `ExchangeFiltersProofs!PublishedBookQuotes` | | a book with bid below ask is not crossed by rounding to the tick: floor and ceiling only widen it |
| `ExchangeFiltersProofs!SizedWithinTarget`, `SizedPassesFilters` | | a size costs no more than its share, is the largest such, and passes the order's check: the same bounds, for the step |
| `ExchangeFiltersProofs!CanaryPricesRest`, `CanaryQuantityPasses` | | the canary rests 100 ticks off and its quantity passes the filters; the code's last correction of it never happens: the distance is at least 100 ticks before rounding, and rounding up keeps the notional |

The invariants are needed because the properties are not inductive alone: `EntryAlone`, for
example, says nothing of the side an entry task carries or of tasks before the gates, and
`OKWasTrue` nothing of what the readings of a check under way have to do with each other.
TLC confirms every one of them on the instance of its run. Some parts were added because a
proof step failed without them: `FlatInv`, for example, in `CleanInv`, since an accepted
breakout may wait while a stop ends.

Hypotheses, each a value or a set of values that a run gives to the constants:

* `SizedToPosition`: a reduce-only chase is started for the whole position or for
  more. `run_live_stop` and `run_live_reversal` take the size from what is believed
  or was just read (`live_strategy_runner.py`). If the session believes in less than is
  held (section 11), a "flat" stop leaves the difference.
* `InDryRun`: the venue is `DryRunExchange`, which expires no order, and a
  chase is started for the position there is. On the live exchange both statements
  are false: an expired order is replaced at full size.
* `Undisturbed`: no request of the session fails and no fill comes after the last
  query; kills, shutdowns, old position answers and all interleavings remain, and orders that the exchange ends. The statements are false without it (section 5).
* `~LoseBars`: no closed candle is lost in a reconnect; with one the levels differ
  from the script's until their next pivots.
* `OfferClosed` and `OnGrid`: the wiring of the bounded dry run, and prices
  that are multiples of the tick, as the exchange's are. Without `OfferClosed` the
  statement is false (run `pine_closed`).

Assumptions on constants: `ChaseAssumption`, `PivotAssumption`, `LoseAssumption`,
`LiveAssumption`, `LedgerAssumption`, `DryAssumption`, `QtyAssumption`, `ByHandAssumption`:
types and ranges, each evaluated by TLC in the runs of its module; the filter theorems state
theirs.

`SumLemmas` says what the sum over a finite set of the community modules computes. The
library's induction theorems are out of reach (they take an operator as a parameter), so
each induction there is by the smallest subset that would violate the formula.

Model-checked only: the liveness properties `ChaseEnds` (both venues), `StopFlattens` of
`LiveLedger` and `SessionEnds`, since liveness under fairness and `ENABLED` are beyond the
prover, and the violations of section 11. No module uses RECURSIVE operators.

## 11. Findings

| Run | Statement | What the code does |
| --- | --- | --- |
| `chaser_stop_excess` | `docs/trading_rules.md:111` market stop within the position | the remainder is computed before the cancel is answered |
| `chaser_post_only` | `docs/operations_runbook.md:194` post-only refusals are retried | the live adapter never raises `PostOnlyWouldTake` |
| `pine_closed` | `docs/trading_rules.md:71` closed klines first go to the monitor | the live session does not offer them |
| `live_unknown` | `docs/operations_runbook.md:198` reconcile after an unknown outcome | the next breakout places an order |

The same models show more that is worth attention, each a hazard in `PROJECT.json`:

* An entry order that the exchange ended partly filled is replaced at full size, and only
  the last order is reported: the session then holds more than it believes in, and its stop
  leaves that difference (`untold`). `docs/trading_rules.md:119` wants no add-on.
* A fill that the chase did not see leaves the session believing it is flat, so that a
  later entry adds to the position.
* A stop whose order was EXPIRED as its time ran out is refused its cancel and sends
  no MARKET order, where `docs/trading_rules.md:107-110` and `docs/risk_rules.md:48` have the
  fallback follow the limit phase (`refused`).

And
`docs/architecture.md:13` lists reversals among what `RiskManager` blocks, while
`assert_signal_allowed` passes them and `run_live_reversal` carries them out
(`docs/risk_rules.md:40` describes that).

Differences between text and code that were met on the way and that no run shows:

* `docs/risk_rules.md:82` requires signed REST validation at a live start; the function
  that tests it, `assert_live_ready_or_raise` (`safety.py:46`), is called by no session.
* `docs/architecture.md:29` describes a reconciliation in live mode; the live session
  has gates of its own and never calls `reconcile` (`main.py:71-79`).
* The canary's report says that a cleanup in hedge mode needs an explicit approval
  (`live_canary_order_control.py:563`); its rescue after an exception does not ask for it
  (`:538-542`), and closes whatever it finds.
* The preflight reads position and orders one after the other and adds up the rows of a
  hedge account (`preflight_live_readonly.py:87-95, 283`), so its GO can be wrong about
  a flat account; `RunsOnCleanAccount` shows that the service's gates catch that.
* The dry run's summary says `completed` also when the observation failed (`main.py:646`).

## 12. Not modelled

| What | Why |
| --- | --- |
| `config.py`, `safety.py` | comparisons of single settings with constants; no state |
| `reconciliation.py` | three values compared; `src/` calls it only in the dry run, where it answers ok at once |
| `state_store.py` | an SQLite log; no running session reads trading state from it |
| `market_log_control.py`, `alerts.py`, `logging_config.py` but for the rotation of the event log | throttled logging, no influence on trading |
| request signing, payload parsing, `exchangeInfo` | pure conversion of what the models take as given |
| `RestBookTickerProvider` | nothing creates it |
| `live_strategy_capability_audit.py`, `replay_forced_original_pivot_trigger.py`, `diagnose_binance_connectivity.py`, `tools/f2_migration_checker` | one-shot reports about code, synthetic data or the network |
| packaging, secret scan, dry-run service installers | no state trading depends on |
