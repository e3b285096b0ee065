--------------------------- MODULE PineReference ---------------------------
(***************************************************************************)
(* The TradingView script "Pivot Reversal Strategy" that the bot promises  *)
(* to follow (docs/trading_rules.md:9-34): on every bar of the market the  *)
(* level and the flag of each side, and the stop order they stand for.     *)
(***************************************************************************)
EXTENDS Integers, Sequences, FiniteSets

CONSTANTS LeftBars, RightBars, Tick, NoPrice

VARIABLES
  bars,   \* the last LeftBars + RightBars + 1 bars of the market
  price,  \* hprice and lprice
  entry   \* le and se

pineVars == <<bars, price, entry>>

Sides == {"LONG", "SHORT"}
Span == LeftBars + RightBars + 1

\* The price of bar b that side s follows, turned so that higher is further out.
Reach(s, b) == IF s = "LONG" THEN b.high ELSE -b.low

\* ta.pivothigh, ta.pivotlow: in a whole window the bar RightBars back stands out.
Swing(s, w) ==
  /\ Len(w) = Span
  /\ \A i \in (1..Span) \ {LeftBars + 1} : Reach(s, w[i]) < Reach(s, w[LeftBars + 1])

Latest(w, n) == SubSeq(w, IF Len(w) > n THEN Len(w) - n + 1 ELSE 1, Len(w))

Bar(c) ==
  /\ bars' = Latest(Append(bars, c), Span)
  /\ price' = [s \in Sides |->
       IF ~Swing(s, bars') THEN price[s]
       ELSE IF s = "LONG" THEN bars'[LeftBars + 1].high ELSE bars'[LeftBars + 1].low]
  /\ entry' = [s \in Sides |->
       \/ Swing(s, bars')
       \/ entry[s] /\ ~(IF s = "LONG" THEN c.high > price'[s] ELSE c.low < price'[s])]

\* stop=hprice + syminfo.mintick, stop=lprice - syminfo.mintick
Stop(s) == IF s = "LONG" THEN price[s] + Tick ELSE price[s] - Tick

Init ==
  /\ bars = <<>>
  /\ price = [s \in Sides |-> NoPrice]
  /\ entry = [s \in Sides |-> FALSE]
=============================================================================
