--------------------------- MODULE ExchangeFilters --------------------------
(***************************************************************************)
(* The arithmetic of an order's price and quantity: exchange_filters.py,   *)
(* position_sizing.py, the clamp of risk_manager.py and the canary's       *)
(* prices and quantities (scripts/live_canary_order_control.py).           *)
(*                                                                         *)
(* Decimals become integers: a price counts units of which the tick is a   *)
(* multiple of 10000 (so that 0.0005 of a price is exact), a quantity      *)
(* counts units of which the step is a multiple, and a notional counts     *)
(* units of price times units of quantity.  An operator is meaningful only *)
(* where the code does not raise; where it raises is an operator too.      *)
(***************************************************************************)
EXTENDS Integers

Lesser(a, b) == IF a <= b THEN a ELSE b
Greater(a, b) == IF a >= b THEN a ELSE b

FloorTo(v, s) == v - (v % s)
CeilTo(v, s) == -FloorTo(-v, s)
CeilDiv(a, b) == -((-a) \div b)

QuantizePrice(v, tick, side) == IF side = "BUY" THEN FloorTo(v, tick) ELSE CeilTo(v, tick)

\* A market order has a step of its own when the exchange names one.
QuantizeQuantity(v, f, market) ==
  FloorTo(v, IF market /\ f.marketStep # 0 THEN f.marketStep ELSE f.step)

\* assert_order_filters does not raise.
FiltersOK(qty, price, f) ==
  /\ QuantizeQuantity(qty, f, FALSE) = qty
  /\ qty >= f.minQty
  /\ qty * price >= f.minNotional
-----------------------------------------------------------------------------
\* maker_price raises on a book that is crossed or locked on the tick grid.
Crossed(bid, ask, tick) == CeilTo(ask, tick) <= FloorTo(bid, tick)

\* One tick inside the spread, or at the touch when there is no room.
BuyPrice(bid, ask, tick) ==
  IF ask - bid <= tick THEN bid ELSE Lesser(bid + tick, ask - tick)

SellPrice(bid, ask, tick) ==
  IF ask - bid <= tick THEN ask ELSE Greater(ask - tick, bid + tick)

MakerPrice(side, bid, ask, tick) ==
  LET b == FloorTo(bid, tick)
      a == CeilTo(ask, tick)
  IN QuantizePrice(IF side = "BUY" THEN BuyPrice(b, a, tick) ELSE SellPrice(b, a, tick), tick, side)

\* The two tests after the price is made ("would cross best ask", "best bid").
WouldCross(side, bid, ask, tick) ==
  IF side = "BUY"
  THEN MakerPrice(side, bid, ask, tick) >= CeilTo(ask, tick)
  ELSE MakerPrice(side, bid, ask, tick) <= FloorTo(bid, tick)
-----------------------------------------------------------------------------
\* account_equity_pct_size: equity counts hundredths of a notional, so that the
\* target is the product.
TargetNotional(equity, pct) == equity * pct

SizedQuantity(target, price, f) == FloorTo(target \div price, f.step)

Sizeable(equity, pct, price, f) ==
  LET qty == SizedQuantity(TargetNotional(equity, pct), price, f) IN
  /\ equity > 0
  /\ pct > 0 /\ pct <= 200
  /\ price > 0
  /\ qty > 0 /\ qty >= f.minQty
  /\ qty * price >= f.minNotional

\* clamp_reduce_only_quantity.
ClampReduceOnly(requested, held) ==
  IF requested <= 0 \/ held <= 0 THEN 0 ELSE Lesser(requested, held)
-----------------------------------------------------------------------------
\* side_safe_price: 100 ticks or 0.2 % away from the touch, the amendment 20
\* ticks or 0.05 % further.
Distance(touch, tick, modify) ==
  Greater(100 * tick, touch \div 500)
  + (IF modify THEN Greater(20 * tick, touch \div 2000) ELSE 0)

SafePrice(side, bid, ask, tick, modify) ==
  IF side = "BUY"
  THEN FloorTo(bid - Distance(bid, tick, modify), tick)
  ELSE CeilTo(ask + Distance(ask, tick, modify), tick)

\* canary_quantity: 1.05 times minNotional at least, rounded up to the step.
CanaryTarget(configured, f) == Greater(configured, CeilDiv(21 * f.minNotional, 20))

AtLeastMinQty(qty, f) == IF qty < f.minQty THEN f.minQty ELSE qty

CanaryQuantity(price, f, configured) ==
  LET qty == AtLeastMinQty(CeilTo(CeilDiv(CanaryTarget(configured, f), price), f.step), f)
  IN IF qty * price < f.minNotional
     THEN CeilTo(CeilDiv(f.minNotional, price), f.step)
     ELSE qty
=============================================================================
