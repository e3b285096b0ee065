--------------------------- MODULE PivotStrategy ---------------------------
(***************************************************************************)
(* PivotReversalStrategy (src/bot/strategy_pivot.py) and the TriggerMonitor*)
(* (src/bot/trigger_monitor.py) in front of it.                            *)
(*                                                                         *)
(* The long and the short half of the code mirror each other, so the state *)
(* is a function of the side: level is hprice or lprice, armed is le or se.*)
(* A candle and a live price update are both a range of prices: of an      *)
(* update the long side looks at the highest price it carries (high, latest*)
(* or best ask) and the short side at the lowest.  Signal ids and the log  *)
(* are left out.                                                           *)
(***************************************************************************)
EXTENDS Integers, Sequences, FiniteSets

CONSTANTS
  LeftBars, RightBars,  \* bars a pivot is compared with, before and after it
  Tick,                 \* tick_size
  MaxCandles,           \* length of the deque of candles
  Ranges,               \* the candles and price updates explored
  OfferClosed,          \* closed klines are offered to the monitor first
  NoPrice               \* None

ASSUME PivotAssumption ==
  /\ LeftBars \in Nat \ {0} /\ RightBars \in Nat \ {0}
  /\ Tick \in Nat \ {0}
  /\ MaxCandles \in Nat /\ MaxCandles >= LeftBars + RightBars + 1
  /\ Ranges \subseteq {r \in [high : Int, low : Int] : r.low <= r.high}
  /\ OfferClosed \in BOOLEAN
  /\ NoPrice \notin Int

VARIABLES
  candles,  \* the closed candles kept, oldest first
  level,    \* level[s]: the price of the last confirmed pivot of side s
  armed,    \* armed[s]: le, se
  trigger,  \* trigger[s]: the pending stop trigger of side s
  emitted   \* the events of the last call that bear on an entry

vars == <<candles, level, armed, trigger, emitted>>

Sides == {"LONG", "SHORT"}
TriggerStates == {"none", "active", "triggered", "invalidated"}
NoTrigger == [state |-> "none", pivot |-> NoPrice, price |-> NoPrice]

Extreme(s, r) == IF s = "LONG" THEN r.high ELSE r.low
Beyond(s, x, y) == IF s = "LONG" THEN x > y ELSE x < y
StopPrice(s, p) == IF s = "LONG" THEN p + Tick ELSE p - Tick
-----------------------------------------------------------------------------
(***************************************************************************)
(* TriggerMonitor.on_live_price_update.  chase and open are the caller's   *)
(* active_entry_chase and open_position_side ("NONE" when flat); no caller *)
(* in src/ passes has_open_position=True, whose branch is left out.        *)
(***************************************************************************)

\* Mutant: a trigger price that is only touched does not count.
ReachedStrictly(s, x, p) == Beyond(s, x, p)

Reached(s, x, p) == x = p \/ Beyond(s, x, p)

Hits(u) == {s \in Sides : trigger[s].state = "active" /\ Reached(s, Extreme(s, u), trigger[s].price)}

\* The side whose trigger this update fires, if any.
Fired(u, chase, open) == IF chase \/ Hits(u) = Sides THEN {} ELSE Hits(u) \ {open}

MonitorEvents(u, chase, open) ==
  IF Hits(u) = Sides
  THEN {<<"ambiguous", s>> : s \in Sides}
  ELSE {<<IF s \in Fired(u, chase, open) THEN "fired" ELSE "blocked", s>> : s \in Hits(u)}

\* Mutant: the trigger of the other side stays active.
TriggerAfterAlone(fired) ==
  [s \in Sides |-> IF s \in fired THEN [trigger[s] EXCEPT !.state = "triggered"] ELSE trigger[s]]

\* mark_triggered, then invalidate_opposite_trigger.
TriggerAfter(fired) ==
  [s \in Sides |->
     IF s \in fired
     THEN [trigger[s] EXCEPT !.state = "triggered"]
     ELSE IF fired # {} /\ trigger[s].state = "active"
     THEN [trigger[s] EXCEPT !.state = "invalidated"]
     ELSE trigger[s]]

\* Mutant: mark_triggered leaves le and se alone.
ArmedAfterKept(fired) == armed

ArmedAfter(fired) == [s \in Sides |-> armed[s] /\ s \notin fired]

\* A bookTicker or an unclosed kline.
LivePrice(u, chase, open) ==
  /\ trigger' = TriggerAfter(Fired(u, chase, open))
  /\ armed' = ArmedAfter(Fired(u, chase, open))
  /\ emitted' = MonitorEvents(u, chase, open)
  /\ UNCHANGED <<candles, level>>
-----------------------------------------------------------------------------
(***************************************************************************)
(* PivotReversalStrategy.on_candle.                                        *)
(***************************************************************************)

\* Mutant: the deque has no maxlen.
KeptAll(c) == Append(candles, c)

Kept(c) == IF Len(candles) < MaxCandles THEN Append(candles, c) ELSE Append(Tail(candles), c)

Window(k) == (k - LeftBars)..(k + RightBars)

\* Mutant: the newest candle is not looked at, so a pivot is confirmed early.
PivotEarly(s, cs) ==
  LET k == Len(cs) - RightBars IN
  /\ Len(cs) >= LeftBars + RightBars + 1
  /\ \A j \in Window(k) \ {k, Len(cs)} : Beyond(s, Extreme(s, cs[k]), Extreme(s, cs[j]))

\* _confirmed_pivot: the candle RightBars back stands out from all its neighbours.
Pivot(s, cs) ==
  LET k == Len(cs) - RightBars IN
  /\ Len(cs) >= LeftBars + RightBars + 1
  /\ \A j \in Window(k) \ {k} : Beyond(s, Extreme(s, cs[k]), Extreme(s, cs[j]))

PivotPrice(s, cs) == Extreme(s, cs[Len(cs) - RightBars])

Crossed(s, c) == level[s] # NoPrice /\ Beyond(s, Extreme(s, c), level[s])

\* Mutant: the level just crossed disarms even when a new pivot is confirmed.
StillArmedCrossedFirst(s, cs, c, ar) == (Pivot(s, cs) \/ ar[s]) /\ ~Crossed(s, c)

StillArmed(s, cs, c, ar) == Pivot(s, cs) \/ (ar[s] /\ ~Crossed(s, c))

Missed(s, cs, c, ar, tr) ==
  /\ ~Pivot(s, cs) /\ ar[s] /\ Crossed(s, c)
  /\ tr[s].state # "triggered"

\* Mutant: an active trigger keeps the price it was created with.
SyncedOnce(s, t) ==
  IF armed'[s] /\ level'[s] # NoPrice
  THEN IF t.state = "active"
       THEN t
       ELSE [state |-> "active", pivot |-> level'[s], price |-> StopPrice(s, level'[s])]
  ELSE IF t.state = "active" THEN [t EXCEPT !.state = "invalidated"] ELSE t

\* Mutant: a trigger that is over is not replaced.
SyncedFirst(s, t) ==
  IF armed'[s] /\ level'[s] # NoPrice
  THEN IF t.state \in {"none", "active"}
       THEN [state |-> "active", pivot |-> level'[s], price |-> StopPrice(s, level'[s])]
       ELSE t
  ELSE IF t.state = "active" THEN [t EXCEPT !.state = "invalidated"] ELSE t

\* _sync_pending_long and _sync_pending_short: create, move or invalidate.
Synced(s, t) ==
  IF armed'[s] /\ level'[s] # NoPrice
  THEN [state |-> "active", pivot |-> level'[s], price |-> StopPrice(s, level'[s])]
  ELSE IF t.state = "active" THEN [t EXCEPT !.state = "invalidated"] ELSE t

\* on_candle, on the flags ar and triggers tr that the monitor left behind.
OnCandle(c, ar, tr) ==
  /\ candles' = Kept(c)
  /\ level' = [s \in Sides |-> IF Pivot(s, candles') THEN PivotPrice(s, candles') ELSE level[s]]
  /\ armed' = [s \in Sides |-> StillArmed(s, candles', c, ar)]
  /\ trigger' = [s \in Sides |-> Synced(s, tr[s])]

MissedEvents(c, ar, tr) == {<<"missed", s>> : s \in {s \in Sides : Missed(s, Kept(c), c, ar, tr)}}

\* The bounded dry run shows a closed kline to the monitor before the strategy
\* (observe_klines_for_phase3b); run_live_strategy does not.
ClosedKline(c, chase, open) ==
  IF OfferClosed
  THEN LET fired == Fired(c, chase, open) IN
       /\ OnCandle(c, ArmedAfter(fired), TriggerAfter(fired))
       /\ emitted' = MonitorEvents(c, chase, open)
                     \cup MissedEvents(c, ArmedAfter(fired), TriggerAfter(fired))
  ELSE /\ OnCandle(c, armed, trigger)
       /\ emitted' = MissedEvents(c, armed, trigger)
-----------------------------------------------------------------------------
Init ==
  /\ candles = <<>>
  /\ level = [s \in Sides |-> NoPrice]
  /\ armed = [s \in Sides |-> FALSE]
  /\ trigger = [s \in Sides |-> NoTrigger]
  /\ emitted = {}

Next ==
  \E r \in Ranges, chase \in BOOLEAN, open \in Sides \cup {"NONE"} :
    LivePrice(r, chase, open) \/ ClosedKline(r, chase, open)

Spec == Init /\ [][Next]_vars
-----------------------------------------------------------------------------
TriggerRec == [state : TriggerStates \ {"none"}, pivot : Int, price : Int]

\* The values the state may have.
TypeOK ==
  /\ candles \in Seq([high : Int, low : Int]) /\ Len(candles) <= MaxCandles
  /\ level \in [Sides -> Int \cup {NoPrice}]
  /\ armed \in [Sides -> BOOLEAN]
  /\ trigger \in [Sides -> TriggerRec \cup {NoTrigger}]
  /\ emitted \subseteq {"fired", "blocked", "ambiguous", "missed"} \X Sides

\* docs/trading_rules.md:71: a closed kline is first offered to the trigger
\* monitor.  So a candle whose range crosses a pending trigger is reported as
\* missed (strategy_pivot.py:55-65, 77-87) only when the monitor saw the hit
\* and had to hold it back, or when no trigger was pending for that level.
MissedOnlyIfHeldBack ==
  [][ \A s \in Sides :
        <<"missed", s>> \in emitted' /\ trigger[s].state = "active"
          => \E e \in {"blocked", "ambiguous"} : <<e, s>> \in emitted' ]_vars
=============================================================================
