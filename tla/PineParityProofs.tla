-------------------------- MODULE PineParityProofs -------------------------
(***************************************************************************)
(* Proofs about PineParity for every pivot width, tick, set of candles and *)
(* prices, wiring of the monitor, and feed, gaps included.                 *)
(*                                                                         *)
(* That a pivot starts one entry and a bar fires one side follows from two *)
(* facts: a fired side is disarmed until its next pivot, and after a fire  *)
(* nothing is pending until the next candle.                               *)
(***************************************************************************)
EXTENDS PineParity, TLAPS

\* A side that fired on its pivot is disarmed and has nothing pending.
SpentInv == spent \subseteq Sides /\ \A s \in spent : ~armed[s] /\ trigger[s].state # "active"

\* After a fire nothing is pending until a candle closes.
BarInv == firedInBar # {} => \A s \in Sides : trigger[s].state # "active"

ParityInv == TypeOK /\ SpentInv /\ BarInv

Triggers == [Sides -> TriggerRec \cup {NoTrigger}]
-----------------------------------------------------------------------------
LEMMA TriggerAfterFacts ==
  ASSUME trigger \in Triggers, NEW fired \in SUBSET Sides,
         \A s \in fired : trigger[s].state = "active"
  PROVE  /\ TriggerAfter(fired) \in Triggers
         /\ \A s \in Sides : TriggerAfter(fired)[s].state = "active" =>
              fired = {} /\ trigger[s].state = "active"
<1>1. ASSUME NEW s \in fired
      PROVE  /\ TriggerAfter(fired)[s] \in TriggerRec
             /\ TriggerAfter(fired)[s].state = "triggered"
  <2>1. trigger[s] \in TriggerRec
    BY DEF Triggers, NoTrigger
  <2>2. TriggerAfter(fired)[s] = [trigger[s] EXCEPT !.state = "triggered"]
    BY DEF TriggerAfter
  <2> QED BY <2>1, <2>2 DEF TriggerRec, TriggerStates
<1>2. ASSUME NEW s \in Sides \ fired
      PROVE  /\ TriggerAfter(fired)[s] \in TriggerRec \cup {NoTrigger}
             /\ TriggerAfter(fired)[s].state = "active" =>
                  fired = {} /\ trigger[s].state = "active"
  <2>1. trigger[s] \in TriggerRec \cup {NoTrigger}
    BY DEF Triggers
  <2>2. CASE fired # {} /\ trigger[s].state = "active"
    <3>1. TriggerAfter(fired)[s] = [trigger[s] EXCEPT !.state = "invalidated"]
      BY <2>2 DEF TriggerAfter
    <3>2. trigger[s] \in TriggerRec
      BY <2>1, <2>2 DEF NoTrigger
    <3> QED BY <3>1, <3>2 DEF TriggerRec, TriggerStates
  <2>3. CASE ~(fired # {} /\ trigger[s].state = "active")
    <3>1. TriggerAfter(fired)[s] = trigger[s]
      BY <2>3 DEF TriggerAfter
    <3> QED BY <2>1, <2>3, <3>1
  <2> QED BY <2>2, <2>3
<1>3. TriggerAfter(fired) = [s \in Sides |-> TriggerAfter(fired)[s]]
  BY DEF TriggerAfter
<1> QED BY <1>1, <1>2, <1>3 DEF Triggers

LEMMA FiredFacts ==
  ASSUME NEW u, NEW chase, NEW open
  PROVE  /\ Fired(u, chase, open) \in SUBSET Sides
         /\ \A s \in Fired(u, chase, open) : trigger[s].state = "active"
         /\ \A s : <<"fired", s>> \in MonitorEvents(u, chase, open) => s \in Fired(u, chase, open)
         /\ MonitorEvents(u, chase, open) \subseteq {"fired", "blocked", "ambiguous", "missed"} \X Sides
BY DEF Fired, Hits, MonitorEvents

LEMMA KeptType ==
  ASSUME candles \in Seq([high : Int, low : Int]), Len(candles) <= MaxCandles,
         NEW c \in [high : Int, low : Int]
  PROVE  Kept(c) \in Seq([high : Int, low : Int]) /\ Len(Kept(c)) <= MaxCandles
<1>1. CASE Len(candles) < MaxCandles
  BY <1>1, PivotAssumption DEF Kept
<1>2. CASE ~(Len(candles) < MaxCandles)
  <2>1. candles # <<>>
    BY <1>2, PivotAssumption
  <2>2. Tail(candles) \in Seq([high : Int, low : Int]) /\ Len(Tail(candles)) = Len(candles) - 1
    BY <2>1
  <2> QED BY <1>2, <2>2, PivotAssumption DEF Kept
<1> QED BY <1>1, <1>2

LEMMA ElementOf ==
  ASSUME NEW S, NEW q \in Seq(S), NEW i \in 1..Len(q)
  PROVE  q[i] \in S
OBVIOUS

LEMMA PivotPriceType ==
  ASSUME NEW cs \in Seq([high : Int, low : Int]), NEW s \in Sides, Pivot(s, cs)
  PROVE  PivotPrice(s, cs) \in Int
<1>1. Len(cs) - RightBars \in 1..Len(cs)
  BY PivotAssumption DEF Pivot
<1>2. cs[Len(cs) - RightBars] \in [high : Int, low : Int]
  BY <1>1, ElementOf
<1> QED BY <1>2 DEF PivotPrice, Extreme

\* on_candle from well-typed triggers and flags: only an armed side is pending.
LEMMA OnCandleFacts ==
  ASSUME TypeOK, NEW c \in Ranges, NEW ar \in [Sides -> BOOLEAN], NEW tr \in Triggers,
         OnCandle(c, ar, tr)
  PROVE  /\ candles' \in Seq([high : Int, low : Int]) /\ Len(candles') <= MaxCandles
         /\ level' \in [Sides -> Int \cup {NoPrice}]
         /\ armed' \in [Sides -> BOOLEAN]
         /\ trigger' \in Triggers
         /\ \A s \in Sides : armed'[s] => Pivot(s, candles') \/ ar[s]
         /\ \A s \in Sides : trigger'[s].state = "active" => armed'[s]
<1>1. c \in [high : Int, low : Int]
  BY PivotAssumption
<1>2. candles' \in Seq([high : Int, low : Int]) /\ Len(candles') <= MaxCandles
  BY <1>1, KeptType DEF OnCandle, TypeOK
<1>3. level' \in [Sides -> Int \cup {NoPrice}]
  BY <1>2, PivotPriceType DEF OnCandle, TypeOK
<1>4. armed' = [s \in Sides |-> StillArmed(s, candles', c, ar)]
  BY DEF OnCandle
<1>5. armed' \in [Sides -> BOOLEAN]
  BY <1>4 DEF StillArmed, Pivot, Crossed
<1>6. \A s \in Sides : armed'[s] => Pivot(s, candles') \/ ar[s]
  BY <1>4 DEF StillArmed
<1>7. ASSUME NEW s \in Sides
      PROVE  /\ Synced(s, tr[s]) \in TriggerRec \cup {NoTrigger}
             /\ Synced(s, tr[s]).state = "active" => armed'[s]
  <2>1. CASE armed'[s] /\ level'[s] # NoPrice
    <3>1. level'[s] \in Int /\ StopPrice(s, level'[s]) \in Int
      BY <1>3, <2>1, PivotAssumption DEF StopPrice
    <3> QED BY <2>1, <3>1 DEF Synced, TriggerRec, TriggerStates
  <2>2. CASE ~(armed'[s] /\ level'[s] # NoPrice)
    BY <2>2 DEF Synced, TriggerRec, TriggerStates, NoTrigger, Triggers
  <2> QED BY <2>1, <2>2
<1>8. trigger' \in Triggers /\ \A s \in Sides : trigger'[s].state = "active" => armed'[s]
  BY <1>7 DEF OnCandle, Triggers
<1> QED BY <1>2, <1>3, <1>5, <1>6, <1>8

LEMMA MissedEventsType ==
  ASSUME NEW c, NEW ar, NEW tr
  PROVE  /\ MissedEvents(c, ar, tr) \subseteq {"fired", "blocked", "ambiguous", "missed"} \X Sides
         /\ \A s : <<"fired", s>> \notin MissedEvents(c, ar, tr)
BY DEF MissedEvents
-----------------------------------------------------------------------------
LEMMA UpdateKeeps ==
  ASSUME ParityInv, NEW r \in Ranges, NEW chase, NEW open, Update(r, chase, open)
  PROVE  /\ ParityInv'
         /\ \A s \in Sides : <<"fired", s>> \in emitted' => s \notin spent /\ firedInBar = {}
<1> DEFINE fired == Fired(r, chase, open)
<1> USE FiredFacts DEF ParityInv
<1>1. trigger \in Triggers
  BY DEF TypeOK, Triggers
<1>2. /\ fired \in SUBSET Sides
      /\ \A s \in fired : trigger[s].state = "active"
      /\ FiredNow \subseteq fired
      /\ emitted' \subseteq {"fired", "blocked", "ambiguous", "missed"} \X Sides
  BY DEF Update, LivePrice, FiredNow
<1>3. /\ trigger' \in Triggers
      /\ \A s \in Sides : trigger'[s].state = "active" =>
           fired = {} /\ trigger[s].state = "active"
  BY <1>1, <1>2, TriggerAfterFacts DEF Update, LivePrice
<1>4. armed' = [s \in Sides |-> armed[s] /\ s \notin fired]
  BY DEF Update, LivePrice, ArmedAfter
<1> HIDE DEF fired
<1>5. TypeOK'
  BY <1>2, <1>3, <1>4 DEF TypeOK, Triggers, Update, LivePrice
<1> QED BY <1>2, <1>3, <1>4, <1>5 DEF SpentInv, BarInv, Update, FiredNow
\* What a closed candle does, with the flags and the fired sides the monitor left.
LEMMA ClosedKlineFacts ==
  ASSUME ParityInv, NEW c \in Ranges, NEW chase, NEW open, ClosedKline(c, chase, open)
  PROVE  \E ar \in [Sides -> BOOLEAN], tr \in Triggers :
           /\ OnCandle(c, ar, tr)
           /\ FiredNow \subseteq Hits(c)
           /\ \A s \in Sides : ar[s] => armed[s] /\ s \notin FiredNow
           /\ emitted' \subseteq {"fired", "blocked", "ambiguous", "missed"} \X Sides
<1>1. trigger \in Triggers /\ armed \in [Sides -> BOOLEAN]
  BY DEF ParityInv, TypeOK, Triggers
<1>2. CASE OfferClosed
  <2> DEFINE fired == Fired(c, chase, open)
             ar == ArmedAfter(fired)
             tr == TriggerAfter(fired)
  <2>1. /\ fired \in SUBSET Sides
        /\ \A s \in fired : trigger[s].state = "active"
        /\ fired \subseteq Hits(c)
    BY FiredFacts DEF Fired
  <2>2. OnCandle(c, ar, tr) /\ emitted' = MonitorEvents(c, chase, open) \cup MissedEvents(c, ar, tr)
    BY <1>2 DEF ClosedKline
  <2>3. FiredNow \subseteq fired
    BY <2>2, FiredFacts, MissedEventsType DEF FiredNow
  <2>4. emitted' \subseteq {"fired", "blocked", "ambiguous", "missed"} \X Sides
    BY <2>2, FiredFacts, MissedEventsType
  <2>5. ar \in [Sides -> BOOLEAN] /\ \A s \in Sides : ar[s] => armed[s] /\ s \notin FiredNow
    BY <1>1, <2>1, <2>3 DEF ArmedAfter
  <2>6. tr \in Triggers
    BY <1>1, <2>1, TriggerAfterFacts
  <2> HIDE DEF fired, ar, tr
  <2> QED BY <2>1, <2>2, <2>3, <2>4, <2>5, <2>6
<1>3. CASE ~OfferClosed
  <2>1. OnCandle(c, armed, trigger) /\ emitted' = MissedEvents(c, armed, trigger)
    BY <1>3 DEF ClosedKline
  <2>2. FiredNow = {} /\ emitted' \subseteq {"fired", "blocked", "ambiguous", "missed"} \X Sides
    BY <2>1, MissedEventsType DEF FiredNow
  <2> QED BY <1>1, <2>1, <2>2
<1> QED BY <1>2, <1>3

LEMMA CloseKeeps ==
  ASSUME ParityInv, NEW c \in Ranges, NEW chase, NEW open, Close(c, chase, open)
  PROVE  /\ ParityInv'
         /\ \A s \in Sides : <<"fired", s>> \in emitted' => s \notin spent /\ firedInBar = {}
<1>1. PICK ar \in [Sides -> BOOLEAN], tr \in Triggers :
           /\ OnCandle(c, ar, tr)
           /\ FiredNow \subseteq Hits(c)
           /\ \A s \in Sides : ar[s] => armed[s] /\ s \notin FiredNow
           /\ emitted' \subseteq {"fired", "blocked", "ambiguous", "missed"} \X Sides
  BY ClosedKlineFacts DEF Close
<1>2. TypeOK
  BY DEF ParityInv
<1>3. /\ candles' \in Seq([high : Int, low : Int]) /\ Len(candles') <= MaxCandles
      /\ level' \in [Sides -> Int \cup {NoPrice}]
      /\ armed' \in [Sides -> BOOLEAN]
      /\ trigger' \in Triggers
      /\ \A s \in Sides : armed'[s] => Pivot(s, candles') \/ ar[s]
      /\ \A s \in Sides : trigger'[s].state = "active" => armed'[s]
  BY <1>1, <1>2, OnCandleFacts
<1>4. TypeOK'
  BY <1>1, <1>3 DEF TypeOK, Triggers
<1>5. spent' = {s \in spent \cup FiredNow : ~Pivot(s, candles')} /\ firedInBar' = {}
  BY DEF Close
<1>6. SpentInv'
  BY <1>1, <1>3, <1>5 DEF ParityInv, SpentInv, FiredNow
<1>7. \A s \in Hits(c) : trigger[s].state = "active"
  BY DEF Hits
<1>8. \A s \in Sides : <<"fired", s>> \in emitted' => s \notin spent /\ firedInBar = {}
  BY <1>1, <1>7 DEF FiredNow, ParityInv, SpentInv, BarInv
<1> QED BY <1>4, <1>5, <1>6, <1>8 DEF ParityInv, BarInv

LEMMA LostCloseKeeps ==
  ASSUME ParityInv, NEW c \in Ranges, LostClose(c)
  PROVE  ParityInv' /\ emitted' = {}
BY DEF LostClose, ParityInv, TypeOK, SpentInv, BarInv

LEMMA ParityStep ==
  ASSUME ParityInv, [ParityNext]_parityVars
  PROVE  /\ ParityInv'
         /\ [\A s \in Sides : <<"fired", s>> \in emitted' => s \notin spent]_parityVars
         /\ [\A s \in Sides : <<"fired", s>> \in emitted' => firedInBar = {}]_parityVars
<1>1. CASE ParityNext
  BY <1>1, UpdateKeeps, CloseKeeps, LostCloseKeeps DEF ParityNext
<1>2. CASE UNCHANGED parityVars
  BY <1>2 DEF parityVars, vars, ParityInv, TypeOK, SpentInv, BarInv
<1> QED BY <1>1, <1>2

LEMMA ParityStart == ParityInit => ParityInv
BY PivotAssumption
DEF ParityInit, Init, ParityInv, TypeOK, SpentInv, BarInv, NoTrigger
-----------------------------------------------------------------------------
\* The strategy and its monitor are well typed; the deque keeps its bound.
THEOREM ParityTypeCorrect == ParitySpec => []TypeOK
<1>1. ParityInv /\ [ParityNext]_parityVars => ParityInv'
  BY ParityStep
<1>2. ParityInv => TypeOK
  BY DEF ParityInv
<1> QED BY ParityStart, <1>1, <1>2, PTL DEF ParitySpec

\* One pivot starts at most one entry, whatever prices, candles, gaps and holds
\* come in between (mark_triggered, _sync_pending_long, _sync_pending_short).
THEOREM PivotFiresOnce == ParitySpec => OncePerPivot
<1>1. ParityInv /\ [ParityNext]_parityVars => ParityInv'
  BY ParityStep
<1>2. ParityInv /\ [ParityNext]_parityVars =>
        [\A s \in Sides : <<"fired", s>> \in emitted' => s \notin spent]_parityVars
  BY ParityStep
<1> QED BY ParityStart, <1>1, <1>2, PTL DEF ParitySpec, OncePerPivot

\* Between two closed candles at most one side fires (invalidate_opposite_trigger).
THEOREM BarFiresOnce == ParitySpec => OneFirePerBar
<1>1. ParityInv /\ [ParityNext]_parityVars => ParityInv'
  BY ParityStep
<1>2. ParityInv /\ [ParityNext]_parityVars =>
        [\A s \in Sides : <<"fired", s>> \in emitted' => firedInBar = {}]_parityVars
  BY ParityStep
<1> QED BY ParityStart, <1>1, <1>2, PTL DEF ParitySpec, OneFirePerBar
-----------------------------------------------------------------------------
(***************************************************************************)
(* The bot and the script on a feed that loses no candle.                  *)
(*                                                                         *)
(* The two keep the market differently, a bounded deque and a window of    *)
(* bars.  The window is the end of the deque, so both see the same pivots, *)
(* and then the same levels, flags and triggers.                           *)
(***************************************************************************)
RangeRec == [high : Int, low : Int]
Span == LeftBars + RightBars + 1

\* w is the end of q, as far as the window goes.
Tracks(w, q) ==
  /\ Len(w) = IF Len(q) < Span THEN Len(q) ELSE Span
  /\ \A i \in 1..Len(w) : w[i] = q[Len(q) - Len(w) + i]

WindowInv == bars \in Seq(RangeRec) /\ Tracks(bars, candles)

\* A flag stands for a level that there is.
FlagInv ==
  /\ price \in [Sides -> Int \cup {NoPrice}] /\ entry \in [Sides -> BOOLEAN]
  /\ \A s \in Sides : entry[s] => price[s] # NoPrice

PineInv ==
  /\ WindowInv /\ FlagInv
  /\ LevelsArePine /\ FlagsArePine /\ TriggersArePine /\ NoTriggerForgotten
-----------------------------------------------------------------------------
LEMMA SpanFacts ==
  /\ Span \in Nat /\ Span >= 3 /\ Span <= MaxCandles /\ MaxCandles \in Nat
  /\ LeftBars \in Nat /\ RightBars \in Nat /\ LeftBars + 1 \in 1..Span
BY PivotAssumption DEF Span

\* One more bar on both sides, and the window is the end of the deque again: of the deque
\* that grows,
LEMMA WindowGrows ==
  ASSUME NEW w \in Seq(RangeRec), NEW q \in Seq(RangeRec), NEW c \in RangeRec, Tracks(w, q)
  PROVE  /\ Pine!Latest(Append(w, c), Span) \in Seq(RangeRec)
         /\ Tracks(Pine!Latest(Append(w, c), Span), Append(q, c))
<1> DEFINE x == Append(w, c)
           y == Append(q, c)
<1>1. /\ x \in Seq(RangeRec) /\ Len(x) = Len(w) + 1 /\ y \in Seq(RangeRec) /\ Len(y) = Len(q) + 1
      /\ Len(w) \in Nat /\ Len(q) \in Nat
  OBVIOUS
<1>2. \A i \in 1..Len(x) : x[i] = y[Len(y) - Len(x) + i]
  <2>1. TAKE i \in 1..Len(x)
  <2>2. CASE i = Len(x)
    BY <1>1, <2>2
  <2>3. CASE i # Len(x)
    <3>1. i \in 1..Len(w) /\ Len(q) - Len(w) + i \in 1..Len(q)
      BY <1>1, <2>3, SpanFacts DEF Tracks
    <3>2. x[i] = w[i] /\ y[Len(q) - Len(w) + i] = q[Len(q) - Len(w) + i]
      BY <3>1
    <3>3. Len(y) - Len(x) + i = Len(q) - Len(w) + i
      BY <1>1
    <3> QED BY <3>1, <3>2, <3>3 DEF Tracks
  <2> QED BY <2>2, <2>3
<1> HIDE DEF x, y
<1>3. CASE Len(x) > Span
  <2>1. Len(x) = Span + 1 /\ Len(y) > Span
    BY <1>1, <1>3, SpanFacts DEF Tracks
  <2>2. Pine!Latest(x, Span) = SubSeq(x, 2, Span + 1)
    BY <2>1, SpanFacts DEF Pine!Latest
  <2>3. /\ SubSeq(x, 2, Span + 1) \in Seq(RangeRec) /\ Len(SubSeq(x, 2, Span + 1)) = Span
        /\ \A i \in 1..Span : SubSeq(x, 2, Span + 1)[i] = x[i + 1]
    BY <1>1, <2>1, SpanFacts
  <2>4. \A i \in 1..Span : i + 1 \in 1..Len(x) /\ Len(y) - Len(x) + (i + 1) = Len(y) - Span + i
    BY <1>1, <2>1, SpanFacts
  <2>5. \A i \in 1..Span : SubSeq(x, 2, Span + 1)[i] = y[Len(y) - Span + i]
    BY <1>2, <2>3, <2>4
  <2>6. Tracks(SubSeq(x, 2, Span + 1), y)
    <3>1. ~(Len(y) < Span)
      BY <1>1, <2>1, SpanFacts
    <3> QED BY <2>3, <2>5, <3>1 DEF Tracks
  <2> QED BY <2>2, <2>3, <2>6 DEF x, y
<1>4. CASE ~(Len(x) > Span)
  <2>1. Pine!Latest(x, Span) = x
    BY <1>1, <1>4 DEF Pine!Latest
  <2>2. Len(x) = IF Len(y) < Span THEN Len(y) ELSE Span
    BY <1>1, <1>4, SpanFacts DEF Tracks
  <2> QED BY <1>1, <1>2, <2>1, <2>2 DEF Tracks, x, y
<1> QED BY <1>3, <1>4

\* and of the deque that is full and drops its oldest candle.
LEMMA WindowSlides ==
  ASSUME NEW w \in Seq(RangeRec), NEW q \in Seq(RangeRec), Tracks(w, q), Len(q) > Span
  PROVE  Tracks(w, Tail(q))
<1>1. Tail(q) \in Seq(RangeRec) /\ Len(Tail(q)) = Len(q) - 1 /\ Len(q) \in Nat
      /\ \A i \in 1..(Len(q) - 1) : Tail(q)[i] = q[i + 1]
  BY SpanFacts
<1>2. Len(w) = Span /\ \A i \in 1..Len(w) : w[i] = q[Len(q) - Len(w) + i]
  <2>1. ~(Len(q) < Span)
    BY <1>1, SpanFacts
  <2> QED BY <2>1 DEF Tracks
<1>3. \A i \in 1..Span : /\ Len(q) - 1 - Span + i \in 1..(Len(q) - 1)
                         /\ (Len(q) - 1 - Span + i) + 1 = Len(q) - Span + i
  BY <1>1, SpanFacts
<1>4. ~(Len(Tail(q)) < Span)
  BY <1>1, SpanFacts
<1>5. \A i \in 1..Span : w[i] = Tail(q)[Len(Tail(q)) - Span + i]
  <2>1. TAKE i \in 1..Span
  <2>2. w[i] = q[Len(q) - Span + i]
    BY <1>2
  <2>3. Tail(q)[Len(q) - 1 - Span + i] = q[Len(q) - Span + i]
    BY <1>1, <1>3
  <2> QED BY <1>1, <2>2, <2>3
<1> QED BY <1>2, <1>4, <1>5 DEF Tracks

LEMMA SameElements ==
  ASSUME NEW S, NEW p \in Seq(S), NEW q \in Seq(S), Len(p) = Len(q), \A i \in 1..Len(p) : p[i] = q[i]
  PROVE  p = q
OBVIOUS

LEMMA WindowKeeps ==
  ASSUME candles \in Seq(RangeRec), Len(candles) <= MaxCandles, WindowInv, NEW c \in RangeRec
  PROVE  /\ Kept(c) \in Seq(RangeRec)
         /\ Pine!Latest(Append(bars, c), Span) \in Seq(RangeRec)
         /\ Tracks(Pine!Latest(Append(bars, c), Span), Kept(c))
<1> DEFINE w == Pine!Latest(Append(bars, c), Span)
<1>1. w \in Seq(RangeRec) /\ Tracks(w, Append(candles, c)) /\ Append(candles, c) \in Seq(RangeRec)
  BY WindowGrows DEF WindowInv
<1> HIDE DEF w
<1>2. CASE Len(candles) < MaxCandles
  BY <1>1, <1>2 DEF Kept, w
<1>3. CASE ~(Len(candles) < MaxCandles)
  <2>1. Len(candles) = MaxCandles /\ Len(Append(candles, c)) > Span /\ candles # <<>>
    BY <1>3, SpanFacts
  <2>2. Append(Tail(candles), c) = Tail(Append(candles, c)) /\ Append(Tail(candles), c) \in Seq(RangeRec)
    <3>1. Tail(candles) \in Seq(RangeRec)
      BY <2>1
    <3>2. Append(Tail(candles), c) \in Seq(RangeRec) /\ Tail(Append(candles, c)) \in Seq(RangeRec)
      BY <1>1, <2>1, <3>1, SpanFacts
    <3>3. /\ Len(Append(Tail(candles), c)) = Len(candles) /\ Len(Tail(Append(candles, c))) = Len(candles)
          /\ \A i \in 1..Len(candles) : Append(Tail(candles), c)[i] = Tail(Append(candles, c))[i]
      BY <2>1, SpanFacts
    <3> DEFINE a == Append(Tail(candles), c)
               b == Tail(Append(candles, c))
    <3> HIDE DEF a, b
    <3>4. a = b
      BY <3>2, <3>3, SameElements DEF a, b
    <3> QED BY <3>2, <3>4 DEF a, b
  <2>3. Tracks(w, Tail(Append(candles, c)))
    BY <1>1, <2>1, WindowSlides
  <2> QED BY <1>1, <1>3, <2>2, <2>3 DEF Kept, w
<1> QED BY <1>2, <1>3

\* The bot's pivot, found at the end of its deque, is the script's, found in its window.
LEMMA SamePivot ==
  ASSUME NEW w \in Seq(RangeRec), NEW q \in Seq(RangeRec), Tracks(w, q), NEW s \in Sides
  PROVE  /\ Pine!Swing(s, w) <=> Pivot(s, q)
         /\ Pivot(s, q) =>
              PivotPrice(s, q) = IF s = "LONG" THEN w[LeftBars + 1].high ELSE w[LeftBars + 1].low
<1> DEFINE n == Len(q) - Span
           k == Len(q) - RightBars
<1>1. Len(w) \in Nat /\ Len(q) \in Nat
  OBVIOUS
<1>2. CASE Len(q) < Span
  BY <1>1, <1>2, SpanFacts DEF Tracks, Pivot, Pine!Swing, Pine!Span, Span
<1>3. CASE ~(Len(q) < Span)
  <2>1. Len(w) = Span /\ n \in Nat /\ \A i \in 1..Span : w[i] = q[n + i]
    BY <1>1, <1>3, SpanFacts DEF Tracks
  <2>2. k = n + (LeftBars + 1) /\ w[LeftBars + 1] = q[k]
    <3>1. k = n + (LeftBars + 1)
      BY <1>1, SpanFacts DEF Span
    <3>2. w[LeftBars + 1] = q[n + (LeftBars + 1)]
      BY <2>1, SpanFacts
    <3> QED BY <3>1, <3>2, Zenon
  <2>3. \A i \in 1..Span : w[i] \in RangeRec /\ q[n + i] \in RangeRec
    BY <2>1
  <2>4. ASSUME NEW i \in 1..Span, NEW m \in 1..Span
        PROVE  Pine!Reach(s, w[i]) < Pine!Reach(s, w[m]) <=> Beyond(s, Extreme(s, q[n + m]), Extreme(s, q[n + i]))
    <3>1. w[i] = q[n + i] /\ w[m] = q[n + m]
      BY <2>1
    <3>2. w[i].high \in Int /\ w[i].low \in Int /\ w[m].high \in Int /\ w[m].low \in Int
      BY <2>3 DEF RangeRec
    <3> QED BY <3>1, <3>2 DEF Pine!Reach, Beyond, Extreme
  <2>5. ASSUME NEW j \in Window(k) \ {k}
        PROVE  j - n \in (1..Span) \ {LeftBars + 1} /\ j = n + (j - n)
    BY <2>1, <2>2, SpanFacts DEF Window, Span
  <2>6. ASSUME NEW i \in (1..Span) \ {LeftBars + 1}
        PROVE  n + i \in Window(k) \ {k}
    <3> HIDE DEF n, k
    <3>1. k \in Int /\ k - LeftBars = n + 1 /\ k + RightBars = n + Span
      BY <2>1, <2>2, SpanFacts DEF Span
    <3>2. n + i >= n + 1 /\ n + i <= n + Span /\ n + i # k /\ n + i \in Int
      BY <2>1, <2>2, SpanFacts
    <3> QED BY <3>1, <3>2 DEF Window
  <2> HIDE DEF n
  <2>7. Pine!Swing(s, w) <=> \A i \in (1..Span) \ {LeftBars + 1} :
                               Pine!Reach(s, w[i]) < Pine!Reach(s, w[LeftBars + 1])
    BY <2>1 DEF Pine!Swing, Pine!Span, Span
  <2>8. Pivot(s, q) <=> \A j \in Window(k) \ {k} : Beyond(s, Extreme(s, q[k]), Extreme(s, q[j]))
    <3>1. Len(q) >= LeftBars + RightBars + 1
      BY <1>1, <1>3, SpanFacts DEF Span
    <3> QED BY <3>1 DEF Pivot
  <2>9. PivotPrice(s, q) = Extreme(s, w[LeftBars + 1])
    BY <2>2 DEF PivotPrice
  <2> HIDE DEF k
  <2> QED BY <2>2, <2>4, <2>5, <2>6, <2>7, <2>8, <2>9, SpanFacts DEF Extreme
<1> QED BY <1>2, <1>3
-----------------------------------------------------------------------------
LEMMA ParityTypes ==
  ASSUME ParityInv, PineInv
  PROVE  /\ candles \in Seq(RangeRec) /\ Len(candles) <= MaxCandles
         /\ level \in [Sides -> Int \cup {NoPrice}] /\ armed \in [Sides -> BOOLEAN]
         /\ trigger \in Triggers /\ entry \in [Sides -> BOOLEAN] /\ level = price
         /\ \A s \in Sides : armed[s] <=> entry[s] /\ s \notin spent
         /\ \A s \in Sides : entry[s] => level[s] # NoPrice
BY DEF ParityInv, TypeOK, Triggers, RangeRec, PineInv, FlagInv, LevelsArePine, FlagsArePine

\* The monitor says of every side it fires that it fired.
LEMMA FiredIsSaid ==
  ASSUME NEW u, NEW chase, NEW open
  PROVE  {s \in Sides : <<"fired", s>> \in MonitorEvents(u, chase, open)} = Fired(u, chase, open)
<1>1. Fired(u, chase, open) \subseteq Hits(u) /\ Hits(u) \subseteq Sides
  BY DEF Fired, Hits
<1>2. CASE Hits(u) = Sides
  BY <1>2 DEF Fired, MonitorEvents
<1>3. CASE Hits(u) # Sides
  <2>1. MonitorEvents(u, chase, open) =
          {<<IF s \in Fired(u, chase, open) THEN "fired" ELSE "blocked", s>> : s \in Hits(u)}
    BY <1>3 DEF MonitorEvents
  <2>2. \A s \in Fired(u, chase, open) : <<"fired", s>> \in MonitorEvents(u, chase, open)
    BY <1>1, <2>1
  <2>3. \A s \in Sides : <<"fired", s>> \in MonitorEvents(u, chase, open) => s \in Fired(u, chase, open)
    BY FiredFacts
  <2> QED BY <1>1, <2>2, <2>3
<1> QED BY <1>2, <1>3

\* A price between two candles disarms the side it fires in the bot alone, and this is
\* what spent remembers.
LEMMA UpdatePine ==
  ASSUME ParityInv, PineInv, NEW r \in Ranges, NEW chase, NEW open, Update(r, chase, open)
  PROVE  PineInv'
<1> DEFINE fired == Fired(r, chase, open)
<1>1. /\ trigger' = TriggerAfter(fired) /\ armed' = ArmedAfter(fired)
      /\ UNCHANGED <<candles, level, bars, price, entry>>
      /\ spent' = spent \cup fired /\ firedInBar' = firedInBar \cup fired
  BY FiredIsSaid DEF Update, LivePrice, FiredNow
<1>2. /\ fired \in SUBSET Sides /\ \A s \in fired : trigger[s].state = "active"
  BY FiredFacts
<1>3. \A s \in Sides : trigger'[s].state = "active" => fired = {} /\ trigger[s].state = "active"
  BY <1>1, <1>2, TriggerAfterFacts, ParityTypes
<1> HIDE DEF fired
<1>4. fired = {} => \A s \in Sides : trigger'[s] = trigger[s]
  BY <1>1 DEF TriggerAfter
<1>5. WindowInv' /\ FlagInv' /\ LevelsArePine'
  BY <1>1 DEF PineInv, WindowInv, FlagInv, LevelsArePine, Tracks
<1>6. FlagsArePine'
  BY <1>1, ParityTypes DEF FlagsArePine, ArmedAfter
<1>7. TriggersArePine'
  BY <1>1, <1>3, <1>4 DEF PineInv, TriggersArePine, Pine!Stop
<1>8. NoTriggerForgotten'
  BY <1>1, <1>4 DEF PineInv, NoTriggerForgotten
<1> QED BY <1>5, <1>6, <1>7, <1>8 DEF PineInv

\* A closed candle finds the flags as the monitor left them.
LEMMA ClosedKlineFlags ==
  ASSUME ParityInv, PineInv, NEW c \in Ranges, NEW chase, NEW open, ClosedKline(c, chase, open)
  PROVE  \E ar \in [Sides -> BOOLEAN], tr \in Triggers :
           OnCandle(c, ar, tr) /\ \A s \in Sides : ar[s] <=> armed[s] /\ s \notin FiredNow
<1>1. CASE OfferClosed
  <2> DEFINE fired == Fired(c, chase, open)
             ar == ArmedAfter(fired)
             tr == TriggerAfter(fired)
  <2>1. OnCandle(c, ar, tr) /\ emitted' = MonitorEvents(c, chase, open) \cup MissedEvents(c, ar, tr)
    BY <1>1 DEF ClosedKline
  <2>2. FiredNow = fired
    BY <2>1, FiredIsSaid, MissedEventsType DEF FiredNow
  <2>3. ar \in [Sides -> BOOLEAN] /\ \A s \in Sides : ar[s] <=> armed[s] /\ s \notin fired
    BY ParityTypes DEF ArmedAfter
  <2>4. tr \in Triggers
    BY FiredFacts, TriggerAfterFacts, ParityTypes
  <2> HIDE DEF fired, ar, tr
  <2> QED BY <2>1, <2>2, <2>3, <2>4
<1>2. CASE ~OfferClosed
  <2>1. OnCandle(c, armed, trigger) /\ FiredNow = {}
    BY <1>2, MissedEventsType DEF ClosedKline, FiredNow
  <2> QED BY <2>1, ParityTypes
<1> QED BY <1>1, <1>2

LEMMA ClosePine ==
  ASSUME ParityInv, PineInv, NEW c \in Ranges, NEW chase, NEW open, Close(c, chase, open)
  PROVE  PineInv'
<1>1. PICK ar \in [Sides -> BOOLEAN], tr \in Triggers :
        OnCandle(c, ar, tr) /\ \A s \in Sides : ar[s] <=> armed[s] /\ s \notin FiredNow
  BY ClosedKlineFlags DEF Close
<1>2. c \in RangeRec /\ c.high \in Int /\ c.low \in Int
  BY PivotAssumption DEF RangeRec
<1>3. /\ candles' = Kept(c) /\ bars' = Pine!Latest(Append(bars, c), Span)
      /\ spent' = {s \in spent \cup FiredNow : ~Pivot(s, candles')}
  BY <1>1 DEF OnCandle, Close, Pine!Bar, Pine!Span, Span
<1>4. /\ candles' \in Seq(RangeRec) /\ bars' \in Seq(RangeRec) /\ Tracks(bars', candles')
  BY <1>2, <1>3, WindowKeeps, ParityTypes DEF PineInv
<1>5. \A s \in Sides :
        /\ Pine!Swing(s, bars') <=> Pivot(s, candles')
        /\ Pivot(s, candles') =>
             /\ PivotPrice(s, candles') = IF s = "LONG" THEN bars'[LeftBars + 1].high ELSE bars'[LeftBars + 1].low
             /\ PivotPrice(s, candles') \in Int
  BY <1>4, SamePivot, PivotPriceType DEF RangeRec
<1>6. /\ level' = [s \in Sides |-> IF Pivot(s, candles') THEN PivotPrice(s, candles') ELSE level[s]]
      /\ armed' = [s \in Sides |-> StillArmed(s, candles', c, ar)]
      /\ trigger' = [s \in Sides |-> Synced(s, tr[s])]
  BY <1>1 DEF OnCandle
<1>7. /\ price' = [s \in Sides |->
             IF ~Pine!Swing(s, bars') THEN price[s]
             ELSE IF s = "LONG" THEN bars'[LeftBars + 1].high ELSE bars'[LeftBars + 1].low]
      /\ entry' = [s \in Sides |->
             \/ Pine!Swing(s, bars')
             \/ entry[s] /\ ~(IF s = "LONG" THEN c.high > price'[s] ELSE c.low < price'[s])]
  BY DEF Close, Pine!Bar, Sides, Pine!Sides
<1>8. level' = price'
  BY <1>5, <1>6, <1>7, ParityTypes
<1>9. ASSUME NEW s \in Sides
      PROVE  /\ entry'[s] <=> Pivot(s, candles') \/ (entry[s] /\ ~Crossed(s, c))
             /\ armed'[s] <=> Pivot(s, candles') \/ (ar[s] /\ ~Crossed(s, c))
             /\ entry'[s] => level'[s] # NoPrice
  <2>1. entry'[s] <=> \/ Pine!Swing(s, bars')
                      \/ entry[s] /\ ~(IF s = "LONG" THEN c.high > price'[s] ELSE c.low < price'[s])
    BY <1>7
  <2>2. armed'[s] <=> Pivot(s, candles') \/ (ar[s] /\ ~Crossed(s, c))
    BY <1>6 DEF StillArmed
  <2>3. CASE Pivot(s, candles')
    <3>1. level'[s] \in Int /\ NoPrice \notin Int
      BY <1>5, <1>6, <2>3, PivotAssumption
    <3>2. level'[s] # NoPrice
      BY <3>1
    <3>3. Pine!Swing(s, bars')
      BY <1>5, <2>3
    <3> QED BY <2>1, <2>2, <2>3, <3>2, <3>3
  <2>4. CASE ~Pivot(s, candles')
    <3>1. price'[s] = level[s] /\ level'[s] = level[s] /\ ~Pine!Swing(s, bars')
      BY <1>5, <1>6, <1>8, <2>4
    <3>2. entry[s] => (Crossed(s, c) <=> IF s = "LONG" THEN c.high > level[s] ELSE c.low < level[s])
      BY ParityTypes DEF Crossed, Beyond, Extreme
    <3> QED BY <2>1, <2>2, <2>4, <3>1, <3>2, ParityTypes
  <2> QED BY <2>3, <2>4
<1>10. price' \in [Sides -> Int \cup {NoPrice}]
  <2>1. \A s \in Sides : level'[s] \in Int \cup {NoPrice}
    BY <1>5, <1>6, ParityTypes
  <2> QED BY <1>6, <1>8, <2>1
<1>11. entry' \in [Sides -> BOOLEAN]
  BY <1>7 DEF Pine!Swing
<1>12. WindowInv' /\ FlagInv' /\ LevelsArePine'
  BY <1>4, <1>8, <1>9, <1>10, <1>11 DEF WindowInv, FlagInv, LevelsArePine
<1>13. FlagsArePine'
  BY <1>1, <1>3, <1>9, ParityTypes DEF FlagsArePine
<1>14. ASSUME NEW s \in Sides
       PROVE  IF armed'[s] THEN /\ trigger'[s].state = "active" /\ trigger'[s].price = StopPrice(s, level'[s])
                           ELSE trigger'[s].state # "active"
  <2>1. trigger'[s] = Synced(s, tr[s]) /\ (armed'[s] => level'[s] # NoPrice)
    BY <1>6, <1>9, <1>13 DEF FlagsArePine
  <2>2. CASE armed'[s]
    BY <2>1, <2>2 DEF Synced
  <2>3. CASE ~armed'[s] /\ tr[s].state = "active"
    <3>1. trigger'[s] = [tr[s] EXCEPT !.state = "invalidated"]
      BY <2>1, <2>3 DEF Synced
    <3> QED BY <2>3, <3>1
  <2>4. CASE ~armed'[s] /\ tr[s].state # "active"
    BY <2>1, <2>4 DEF Synced
  <2> QED BY <2>2, <2>3, <2>4
<1>15. TriggersArePine'
  BY <1>8, <1>13, <1>14 DEF TriggersArePine, FlagsArePine, StopPrice, Pine!Stop
<1>16. NoTriggerForgotten'
  BY <1>13, <1>14 DEF NoTriggerForgotten, FlagsArePine
<1> QED BY <1>12, <1>13, <1>15, <1>16 DEF PineInv

LEMMA PineStep == ~LoseBars /\ ParityInv /\ PineInv /\ [ParityNext]_parityVars => PineInv'
<1> SUFFICES ASSUME ~LoseBars, ParityInv, PineInv, [ParityNext]_parityVars PROVE PineInv'
  OBVIOUS
<1>1. CASE UNCHANGED parityVars
  BY <1>1
  DEF parityVars, vars, PineInv, WindowInv, FlagInv, LevelsArePine, FlagsArePine, TriggersArePine,
      NoTriggerForgotten, Tracks, Pine!Stop
<1>2. CASE ParityNext
  BY <1>2, UpdatePine, ClosePine DEF ParityNext, LostClose
<1> QED BY <1>1, <1>2

LEMMA PineStart == ParityInit => PineInv
<1>1. Tracks(<<>>, <<>>)
  BY SpanFacts DEF Tracks
<1>2. <<>> \in Seq(RangeRec)
  OBVIOUS
<1> QED
  BY <1>1, <1>2
  DEF ParityInit, Init, Pine!Init, PineInv, WindowInv, FlagInv, LevelsArePine, FlagsArePine,
      TriggersArePine, NoTriggerForgotten, NoTrigger, Sides, Pine!Sides
-----------------------------------------------------------------------------
\* On a feed that loses no candle, the strategy follows the script for every pivot width,
\* tick and market: its window of candles is the end of the bot's deque.
THEOREM PineInvariance == ASSUME ~LoseBars PROVE ParitySpec => []PineInv
<1>1. ParityInv /\ [ParityNext]_parityVars => ParityInv'
  BY ParityStep
<1>2. ParityInv /\ PineInv /\ [ParityNext]_parityVars => PineInv'
  BY PineStep
<1> QED BY ParityStart, PineStart, <1>1, <1>2, PTL DEF ParitySpec

\* hprice and lprice are the script's, never from an early pivot (strategy_pivot.py:91-117).
THEOREM LevelsFollow == ASSUME ~LoseBars PROVE ParitySpec => []LevelsArePine
<1>1. PineInv => LevelsArePine
  BY DEF PineInv
<1> QED BY <1>1, PineInvariance, PTL

\* le and se are the script's but for a side that fired on its present pivot (mark_triggered).
THEOREM FlagsFollow == ASSUME ~LoseBars PROVE ParitySpec => []FlagsArePine
<1>1. PineInv => FlagsArePine
  BY DEF PineInv
<1> QED BY <1>1, PineInvariance, PTL

\* A pending trigger is the stop order the script has out, at its price
\* (_sync_pending_long, _sync_pending_short).
THEOREM TriggersFollow == ASSUME ~LoseBars PROVE ParitySpec => []TriggersArePine
<1>1. PineInv => TriggersArePine
  BY DEF PineInv
<1> QED BY <1>1, PineInvariance, PTL

\* No stop order of the script that can still fire is without its trigger.
THEOREM NoneForgotten == ASSUME ~LoseBars PROVE ParitySpec => []NoTriggerForgotten
<1>1. PineInv => NoTriggerForgotten
  BY DEF PineInv
<1> QED BY <1>1, PineInvariance, PTL
-----------------------------------------------------------------------------
(***************************************************************************)
(* Missed candles, when a closed kline is first offered to the monitor.    *)
(***************************************************************************)

\* Prices are multiples of the tick: of two different ones, one is a tick further out.
OnGrid ==
  \A r, q \in Ranges : /\ r.high > q.high => r.high >= q.high + Tick
                       /\ r.low < q.low => r.low <= q.low - Tick

\* A level is a price of the market, and a pending trigger stands for the level.
StopInv ==
  /\ candles \in Seq(Ranges)
  /\ \A s \in Sides :
       /\ level[s] # NoPrice => \E r \in Ranges : level[s] = Extreme(s, r)
       /\ trigger[s].state = "active" => level[s] # NoPrice /\ trigger[s].price = StopPrice(s, level[s])

\* A candle that crosses a level reaches the trigger that stands for it.
LEMMA CrossingHits ==
  ASSUME OnGrid, ParityInv, StopInv, NEW c \in Ranges, NEW s \in Sides,
         trigger[s].state = "active", Crossed(s, c)
  PROVE  s \in Hits(c)
<1>1. PICK r \in Ranges : level[s] = Extreme(s, r)
  BY DEF StopInv
<1>2. c.high \in Int /\ c.low \in Int /\ r.high \in Int /\ r.low \in Int /\ Tick \in Int
  BY PivotAssumption
<1>3. trigger[s].price = StopPrice(s, Extreme(s, r)) /\ Beyond(s, Extreme(s, c), Extreme(s, r))
  BY <1>1 DEF StopInv, Crossed
<1>4. CASE s = "LONG"
  <2>1. c.high > r.high /\ trigger[s].price = r.high + Tick
    BY <1>3, <1>4 DEF Beyond, Extreme, StopPrice
  <2>2. c.high >= r.high + Tick
    BY <2>1 DEF OnGrid
  <2> QED BY <1>2, <1>4, <2>1, <2>2 DEF Hits, Reached, Beyond, Extreme
<1>5. CASE s = "SHORT"
  <2>1. c.low < r.low /\ trigger[s].price = r.low - Tick /\ s # "LONG"
    BY <1>3, <1>5 DEF Beyond, Extreme, StopPrice
  <2>2. c.low <= r.low - Tick
    BY <2>1 DEF OnGrid
  <2> QED BY <1>2, <2>1, <2>2 DEF Hits, Reached, Beyond, Extreme
<1> QED BY <1>4, <1>5 DEF Sides

LEMMA KeptOfMarket ==
  ASSUME candles \in Seq(Ranges), NEW c \in Ranges PROVE Kept(c) \in Seq(Ranges)
<1>1. CASE Len(candles) < MaxCandles
  BY <1>1 DEF Kept
<1>2. CASE ~(Len(candles) < MaxCandles)
  <2>1. candles # <<>>
    BY <1>2, PivotAssumption
  <2>2. Tail(candles) \in Seq(Ranges)
    BY <2>1
  <2> QED BY <1>2, <2>2 DEF Kept
<1> QED BY <1>1, <1>2

LEMMA OnCandleStop ==
  ASSUME ParityInv, StopInv, NEW c \in Ranges, NEW ar, NEW tr, OnCandle(c, ar, tr)
  PROVE  StopInv'
<1>1. candles' \in Seq(Ranges)
  BY KeptOfMarket DEF OnCandle, StopInv
<1>2. ASSUME NEW s \in Sides, level'[s] # NoPrice
      PROVE  \E r \in Ranges : level'[s] = Extreme(s, r)
  <2>1. CASE Pivot(s, candles')
    <3>1. Len(candles') - RightBars \in 1..Len(candles')
      BY <1>1, <2>1, PivotAssumption DEF Pivot
    <3>2. candles'[Len(candles') - RightBars] \in Ranges
      BY <1>1, <3>1, ElementOf
    <3>3. level'[s] = Extreme(s, candles'[Len(candles') - RightBars])
      BY <2>1 DEF OnCandle, PivotPrice
    <3> QED BY <3>2, <3>3
  <2>2. CASE ~Pivot(s, candles')
    <3>1. level'[s] = level[s]
      BY <2>2 DEF OnCandle
    <3> QED BY <1>2, <3>1 DEF StopInv
  <2> QED BY <2>1, <2>2
<1>3. ASSUME NEW s \in Sides, trigger'[s].state = "active"
      PROVE  level'[s] # NoPrice /\ trigger'[s].price = StopPrice(s, level'[s])
  <2>1. trigger'[s] = Synced(s, tr[s])
    BY DEF OnCandle
  <2>2. CASE armed'[s] /\ level'[s] # NoPrice
    BY <2>1, <2>2 DEF Synced
  <2>3. CASE ~(armed'[s] /\ level'[s] # NoPrice)
    <3>1. CASE tr[s].state = "active"
      <4>1. trigger'[s] = [tr[s] EXCEPT !.state = "invalidated"]
        BY <2>1, <2>3, <3>1 DEF Synced
      <4> QED BY <1>3, <3>1, <4>1
    <3>2. CASE tr[s].state # "active"
      BY <1>3, <2>1, <2>3, <3>2 DEF Synced
    <3> QED BY <3>1, <3>2
  <2> QED BY <2>2, <2>3
<1> QED BY <1>1, <1>2, <1>3 DEF StopInv

LEMMA StepStop == ParityInv /\ StopInv /\ [ParityNext]_parityVars => StopInv'
<1> SUFFICES ASSUME ParityInv, StopInv, [ParityNext]_parityVars PROVE StopInv'
  OBVIOUS
<1>1. ASSUME UNCHANGED <<candles, level, trigger>> PROVE StopInv'
  BY <1>1 DEF StopInv
<1>2. ASSUME NEW r \in Ranges, NEW chase, NEW open, Update(r, chase, open) PROVE StopInv'
  <2> DEFINE fired == Fired(r, chase, open)
  <2>1. trigger' = TriggerAfter(fired) /\ UNCHANGED <<candles, level>>
    BY <1>2 DEF Update, LivePrice
  <2>2. \A s \in Sides : trigger'[s].state = "active" => fired = {}
    BY <2>1, FiredFacts, TriggerAfterFacts DEF ParityInv, TypeOK, Triggers
  <2>3. fired = {} => \A s \in Sides : trigger'[s] = trigger[s]
    BY <2>1 DEF TriggerAfter
  <2> HIDE DEF fired
  <2> QED BY <2>1, <2>2, <2>3 DEF StopInv
<1>3. ASSUME NEW c \in Ranges, NEW chase, NEW open, Close(c, chase, open) PROVE StopInv'
  BY <1>3, ClosedKlineFacts, OnCandleStop DEF Close
<1> QED
  BY <1>1, <1>2, <1>3 DEF ParityNext, LostClose, parityVars, vars

\* A candle that crosses a pending trigger is missed only when the monitor saw the hit and
\* held it back (docs/trading_rules.md:71), gaps in the feed or not, with the wiring of the
\* bounded dry run and prices that are multiples of the tick.
THEOREM MissedIsHeldBack == ASSUME OfferClosed, OnGrid PROVE ParitySpec => MissedOnlyIfHeldBack
<1>1. ParityInit => StopInv
  <2>1. <<>> \in Seq(Ranges)
    OBVIOUS
  <2> QED BY <2>1 DEF ParityInit, Init, StopInv, NoTrigger
<1>2. ParityInv /\ [ParityNext]_parityVars => ParityInv'
  BY ParityStep
<1>3. ASSUME ParityInv, StopInv, ParityNext, NEW s \in Sides,
             <<"missed", s>> \in emitted', trigger[s].state = "active"
      PROVE  \E e \in {"blocked", "ambiguous"} : <<e, s>> \in emitted'
  <2>1. ASSUME NEW u, NEW chase, NEW open PROVE <<"missed", s>> \notin MonitorEvents(u, chase, open)
    BY DEF MonitorEvents
  <2>2. PICK c \in Ranges, chase \in BOOLEAN, open \in Sides \cup {"NONE"} : ClosedKline(c, chase, open)
    BY <1>3, <2>1 DEF ParityNext, Update, LivePrice, LostClose, Close
  <2> DEFINE fired == Fired(c, chase, open)
             ar == ArmedAfter(fired)
             tr == TriggerAfter(fired)
  <2>3. emitted' = MonitorEvents(c, chase, open) \cup MissedEvents(c, ar, tr)
    BY <2>2 DEF ClosedKline
  <2>4. Missed(s, Kept(c), c, ar, tr)
    BY <1>3, <2>1, <2>3 DEF MissedEvents
  <2>5. s \in Hits(c) /\ s \notin fired
    BY <1>3, <2>4, CrossingHits DEF Missed, ArmedAfter
  <2>6. \E e \in {"blocked", "ambiguous"} : <<e, s>> \in MonitorEvents(c, chase, open)
    BY <2>5 DEF MonitorEvents
  <2> QED BY <2>3, <2>6
<1>4. ParityInv /\ StopInv /\ [ParityNext]_parityVars =>
        [\A s \in Sides : <<"missed", s>> \in emitted' /\ trigger[s].state = "active"
            => \E e \in {"blocked", "ambiguous"} : <<e, s>> \in emitted']_vars
  BY <1>3 DEF parityVars
<1> QED
  BY ParityStart, StepStop, <1>1, <1>2, <1>4, PTL DEF ParitySpec, MissedOnlyIfHeldBack
=============================================================================
