------------------------ MODULE ExchangeFiltersProofs -----------------------
(***************************************************************************)
(* What the arithmetic of ExchangeFilters promises to those who send the   *)
(* orders, for every tick, step, price, quantity and notional.             *)
(***************************************************************************)
EXTENDS ExchangeFilters, TLAPS

OnGrid(v, s) == \E k \in Int : v = k * s

\* The filters of a symbol, as far as quantities go.
Filters ==
  [step : Nat \ {0}, marketStep : Nat, minQty : Nat, minNotional : Nat]

LEMMA FloorBounds ==
  ASSUME NEW v \in Int, NEW s \in Nat \ {0}
  PROVE  /\ FloorTo(v, s) \in Int
         /\ FloorTo(v, s) <= v
         /\ v < FloorTo(v, s) + s
         /\ OnGrid(FloorTo(v, s), s)
<1>1. v % s \in 0..(s - 1) OBVIOUS
<1>2. v = s * (v \div s) + (v % s) OBVIOUS
<1>3. v \div s \in Int OBVIOUS
<1>4. FloorTo(v, s) = (v \div s) * s BY <1>2, <1>1, <1>3 DEF FloorTo
<1>5. OnGrid(FloorTo(v, s), s) BY <1>3, <1>4 DEF OnGrid
<1>6. QED BY <1>1, <1>5 DEF FloorTo

LEMMA CeilBounds ==
  ASSUME NEW v \in Int, NEW s \in Nat \ {0}
  PROVE  /\ CeilTo(v, s) \in Int
         /\ v <= CeilTo(v, s)
         /\ CeilTo(v, s) < v + s
         /\ OnGrid(CeilTo(v, s), s)
<1>1. /\ FloorTo(-v, s) \in Int
      /\ FloorTo(-v, s) <= -v
      /\ -v < FloorTo(-v, s) + s
      /\ OnGrid(FloorTo(-v, s), s)
  BY FloorBounds
<1>2. OnGrid(-FloorTo(-v, s), s)
  <2>1. PICK k \in Int : FloorTo(-v, s) = k * s BY <1>1 DEF OnGrid
  <2>2. -FloorTo(-v, s) = (-k) * s BY <2>1
  <2>3. -k \in Int OBVIOUS
  <2>4. QED BY <2>2, <2>3 DEF OnGrid
<1>3. QED BY <1>1, <1>2 DEF CeilTo

LEMMA GridIsFixed ==
  ASSUME NEW v \in Int, NEW s \in Nat \ {0}, OnGrid(v, s)
  PROVE  FloorTo(v, s) = v /\ CeilTo(v, s) = v
<1>1. PICK k \in Int : v = k * s BY DEF OnGrid
<1>2. (k * s) % s = 0 OBVIOUS
<1>3. ((-k) * s) % s = 0 OBVIOUS
<1>4. -v = (-k) * s BY <1>1
<1>5. QED BY <1>1, <1>2, <1>3, <1>4 DEF FloorTo, CeilTo

LEMMA GridSteps ==
  ASSUME NEW v \in Int, NEW s \in Nat \ {0}, OnGrid(v, s)
  PROVE  OnGrid(v + s, s) /\ OnGrid(v - s, s)
<1>1. PICK k \in Int : v = k * s BY DEF OnGrid
<1>2. v + s = (k + 1) * s /\ v - s = (k - 1) * s BY <1>1
<1>3. QED BY <1>2 DEF OnGrid

LEMMA GridGap ==
  ASSUME NEW a \in Int, NEW b \in Int, NEW s \in Nat \ {0},
         OnGrid(a, s), OnGrid(b, s), a < b
  PROVE  a + s <= b
<1>1. PICK k \in Int : a = k * s BY DEF OnGrid
<1>2. PICK l \in Int : b = l * s BY DEF OnGrid
<1>3. k < l BY <1>1, <1>2
<1>4. k + 1 <= l BY <1>3
<1>5. (k + 1) * s <= l * s BY <1>4
<1>6. QED BY <1>1, <1>2, <1>5

\* A maker price rests: it is on the tick grid, no worse than the touch, and on
\* its own side of the book as the exchange sees it, whether or not that book is
\* on the grid (exchange_filters.py:168-193).  So the "would cross" errors are
\* never raised.
THEOREM MakerPriceRests ==
  ASSUME NEW bid \in Int, NEW ask \in Int, NEW tick \in Nat \ {0},
         ~Crossed(bid, ask, tick)
  PROVE  /\ OnGrid(MakerPrice("BUY", bid, ask, tick), tick)
         /\ MakerPrice("BUY", bid, ask, tick) < ask
         /\ MakerPrice("BUY", bid, ask, tick) >= FloorTo(bid, tick)
         /\ OnGrid(MakerPrice("SELL", bid, ask, tick), tick)
         /\ MakerPrice("SELL", bid, ask, tick) > bid
         /\ MakerPrice("SELL", bid, ask, tick) <= CeilTo(ask, tick)
         /\ ~WouldCross("BUY", bid, ask, tick)
         /\ ~WouldCross("SELL", bid, ask, tick)
<1> DEFINE b == FloorTo(bid, tick)
           a == CeilTo(ask, tick)
           buy == BuyPrice(b, a, tick)
           sell == SellPrice(b, a, tick)
<1>1. b \in Int /\ b <= bid /\ bid < b + tick /\ OnGrid(b, tick) BY FloorBounds
<1>2. a \in Int /\ ask <= a /\ a < ask + tick /\ OnGrid(a, tick) BY CeilBounds
<1>3. b < a BY <1>1, <1>2 DEF Crossed
<1>4. b + tick <= a BY <1>1, <1>2, <1>3, GridGap
<1>5. OnGrid(b + tick, tick) /\ OnGrid(a - tick, tick) BY <1>1, <1>2, GridSteps
<1>6. buy \in Int /\ b <= buy /\ buy + tick <= a /\ OnGrid(buy, tick)
  BY <1>1, <1>2, <1>4, <1>5 DEF BuyPrice, Lesser
<1>7. sell \in Int /\ sell <= a /\ b + tick <= sell /\ OnGrid(sell, tick)
  BY <1>1, <1>2, <1>4, <1>5 DEF SellPrice, Greater
<1>8. MakerPrice("BUY", bid, ask, tick) = buy
  BY <1>6, GridIsFixed DEF MakerPrice, QuantizePrice
<1>9. MakerPrice("SELL", bid, ask, tick) = sell
  BY <1>7, GridIsFixed DEF MakerPrice, QuantizePrice
<1>10. buy < ask BY <1>2, <1>6
<1>11. sell > bid BY <1>1, <1>7
<1>12. ~(buy >= a) BY <1>2, <1>6
<1>13. ~(sell <= b) BY <1>1, <1>7
<1> HIDE DEF b, a, buy, sell
<1>14. QED
  BY <1>6, <1>7, <1>8, <1>9, <1>10, <1>11, <1>12, <1>13 DEF WouldCross, b, a

\* The book that the feed publishes has bid < ask (models.py:103-104), and the
\* outward rounding keeps it so: "invalid or crossed book" is not raised on it
\* either (exchange_filters.py:170-173), however near its sides are.
THEOREM PublishedBookQuotes ==
  ASSUME NEW bid \in Int, NEW ask \in Int, NEW tick \in Nat \ {0},
         bid < ask
  PROVE  ~Crossed(bid, ask, tick)
<1>1. FloorTo(bid, tick) \in Int /\ FloorTo(bid, tick) <= bid BY FloorBounds
<1>2. CeilTo(ask, tick) \in Int /\ ask <= CeilTo(ask, tick) BY CeilBounds
<1>3. QED BY <1>1, <1>2 DEF Crossed

LEMMA DivBounds ==
  ASSUME NEW t \in Int, NEW p \in Nat \ {0}
  PROVE  /\ t \div p \in Int
         /\ (t \div p) * p <= t
         /\ t < (t \div p + 1) * p
<1>1. t % p \in 0..(p - 1) OBVIOUS
<1>2. t = p * (t \div p) + (t % p) OBVIOUS
<1>3. t \div p \in Int OBVIOUS
<1>4. QED BY <1>1, <1>2, <1>3

LEMMA CeilDivBounds ==
  ASSUME NEW t \in Int, NEW p \in Nat \ {0}
  PROVE  CeilDiv(t, p) \in Int /\ t <= CeilDiv(t, p) * p
<1>1. (-t) \div p \in Int /\ ((-t) \div p) * p <= -t BY DivBounds
<1>2. QED BY <1>1 DEF CeilDiv

\* The size of an entry never costs more than its share of the equity, and one
\* step more would (position_sizing.py:39-42).
THEOREM SizedWithinTarget ==
  ASSUME NEW target \in Nat, NEW price \in Nat \ {0}, NEW f \in Filters
  PROVE  /\ OnGrid(SizedQuantity(target, price, f), f.step)
         /\ SizedQuantity(target, price, f) * price <= target
         /\ target < (SizedQuantity(target, price, f) + f.step) * price
<1> DEFINE raw == target \div price
           qty == SizedQuantity(target, price, f)
<1>1. f.step \in Nat \ {0} BY DEF Filters
<1>2. raw \in Int /\ raw * price <= target /\ target < (raw + 1) * price BY DivBounds
<1>3. qty \in Int /\ qty <= raw /\ raw < qty + f.step /\ OnGrid(qty, f.step)
  BY <1>1, <1>2, FloorBounds DEF SizedQuantity
<1>4. qty * price <= raw * price BY <1>2, <1>3
<1>5. (raw + 1) * price <= (qty + f.step) * price BY <1>1, <1>2, <1>3
<1> HIDE DEF raw, qty
<1>6. qty * price \in Int /\ raw * price \in Int /\ (raw + 1) * price \in Int
      /\ (qty + f.step) * price \in Int
  BY <1>1, <1>2, <1>3
<1>7. QED BY <1>2, <1>3, <1>4, <1>5, <1>6 DEF qty

\* What is sized with the code's refusals passes the check of the order
\* (position_sizing.py:44-47 against exchange_filters.py:196-204).
THEOREM SizedPassesFilters ==
  ASSUME NEW equity \in Int, NEW pct \in Int, NEW price \in Int, NEW f \in Filters,
         Sizeable(equity, pct, price, f)
  PROVE  FiltersOK(SizedQuantity(TargetNotional(equity, pct), price, f), price, f)
<1> DEFINE t == TargetNotional(equity, pct)
           qty == SizedQuantity(t, price, f)
<1>1. f.step \in Nat \ {0} BY DEF Filters
<1>2. t \in Int /\ price \in Nat \ {0} BY DEF TargetNotional, Sizeable
<1>3. t \div price \in Int BY <1>2, DivBounds
<1>4. qty \in Int /\ OnGrid(qty, f.step) BY <1>1, <1>3, FloorBounds DEF SizedQuantity
<1>5. FloorTo(qty, f.step) = qty BY <1>1, <1>4, GridIsFixed
<1>6. QED BY <1>5 DEF FiltersOK, QuantizeQuantity, Sizeable

\* The canary's orders rest at least 100 ticks away from the touch, and the
\* amendment moves the order further away (live_canary_order_control.py:96-107).
THEOREM CanaryPricesRest ==
  ASSUME NEW bid \in Nat \ {0}, NEW ask \in Nat \ {0}, NEW tick \in Nat \ {0}, bid < ask
  PROVE  /\ SafePrice("BUY", bid, ask, tick, FALSE) <= bid - 100 * tick
         /\ SafePrice("BUY", bid, ask, tick, TRUE) < SafePrice("BUY", bid, ask, tick, FALSE)
         /\ SafePrice("SELL", bid, ask, tick, FALSE) >= ask + 100 * tick
         /\ SafePrice("SELL", bid, ask, tick, TRUE) > SafePrice("SELL", bid, ask, tick, FALSE)
<1>1. \A r \in Nat : r \div 500 \in Int /\ r \div 2000 \in Int OBVIOUS
<1>2. \A r \in Nat :
        /\ Distance(r, tick, FALSE) \in Int /\ Distance(r, tick, TRUE) \in Int
        /\ Distance(r, tick, FALSE) >= 100 * tick
        /\ Distance(r, tick, TRUE) >= Distance(r, tick, FALSE) + 20 * tick
  BY <1>1 DEF Distance, Greater
<1> DEFINE d(r) == Distance(r, tick, FALSE)
           e(r) == Distance(r, tick, TRUE)
<1>3. /\ d(bid) \in Int /\ e(bid) \in Int /\ d(ask) \in Int /\ e(ask) \in Int
      /\ d(bid) >= 100 * tick /\ d(ask) >= 100 * tick
      /\ e(bid) >= d(bid) + 20 * tick /\ e(ask) >= d(ask) + 20 * tick
  BY <1>2
<1> HIDE DEF d, e
<1> DEFINE bd == bid - d(bid)
           be == bid - e(bid)
           ad == ask + d(ask)
           ae == ask + e(ask)
<1>4. bd \in Int /\ be \in Int /\ ad \in Int /\ ae \in Int BY <1>3
<1> HIDE DEF bd, be, ad, ae
<1>5. /\ FloorTo(bd, tick) \in Int /\ FloorTo(bd, tick) <= bd /\ bd < FloorTo(bd, tick) + tick
      /\ FloorTo(be, tick) \in Int /\ FloorTo(be, tick) <= be
  BY <1>4, FloorBounds
<1>6. /\ CeilTo(ad, tick) \in Int /\ CeilTo(ad, tick) >= ad /\ CeilTo(ad, tick) < ad + tick
      /\ CeilTo(ae, tick) \in Int /\ CeilTo(ae, tick) >= ae
  BY <1>4, CeilBounds
<1>7. /\ FloorTo(bd, tick) <= bid - 100 * tick
      /\ FloorTo(be, tick) < FloorTo(bd, tick)
  BY <1>3, <1>5 DEF bd, be
<1>8. /\ CeilTo(ad, tick) >= ask + 100 * tick
      /\ CeilTo(ae, tick) > CeilTo(ad, tick)
  BY <1>3, <1>6 DEF ad, ae
<1>9. QED BY <1>7, <1>8 DEF SafePrice, bd, be, ad, ae, d, e

\* The canary's quantity passes the exchange's filters at the price it was made
\* for; its last branch (live_canary_order_control.py:116-117) is never taken.
THEOREM CanaryQuantityPasses ==
  ASSUME NEW price \in Nat \ {0}, NEW f \in Filters, NEW configured \in Nat,
         OnGrid(f.minQty, f.step)
  PROVE  FiltersOK(CanaryQuantity(price, f, configured), price, f)
<1> DEFINE target == CanaryTarget(configured, f)
           raw == CeilDiv(target, price)
           up == CeilTo(raw, f.step)
           qty == AtLeastMinQty(up, f)
<1>1. f.step \in Nat \ {0} /\ f.minQty \in Nat /\ f.minNotional \in Nat BY DEF Filters
<1>2. CeilDiv(21 * f.minNotional, 20) \in Int
      /\ 21 * f.minNotional <= CeilDiv(21 * f.minNotional, 20) * 20
  BY <1>1, CeilDivBounds
<1>3. target \in Int /\ target >= f.minNotional
  BY <1>1, <1>2 DEF CanaryTarget, Greater
<1>4. raw \in Int /\ target <= raw * price BY <1>3, CeilDivBounds
<1>5. up \in Int /\ raw <= up /\ OnGrid(up, f.step) BY <1>1, <1>4, CeilBounds
<1>6. qty \in Int /\ raw <= qty /\ qty >= f.minQty /\ OnGrid(qty, f.step)
  BY <1>1, <1>4, <1>5 DEF AtLeastMinQty
<1>7. raw * price <= qty * price BY <1>4, <1>6
<1> HIDE DEF target, raw, up, qty
<1>8. raw * price \in Int /\ qty * price \in Int BY <1>4, <1>6
<1>9. f.minNotional <= qty * price BY <1>1, <1>3, <1>4, <1>7, <1>8
<1>10. CanaryQuantity(price, f, configured) = qty
  BY <1>1, <1>8, <1>9 DEF CanaryQuantity, qty, up, raw, target
<1>11. FloorTo(qty, f.step) = qty BY <1>1, <1>6, GridIsFixed
<1>12. QED BY <1>6, <1>9, <1>10, <1>11 DEF FiltersOK, QuantizeQuantity
=============================================================================
