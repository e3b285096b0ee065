-------------------------- MODULE StartGatesProofs --------------------------
(***************************************************************************)
(* Safety of the canary and of the gates, for every size of the canary's   *)
(* orders and every position a person may open.  The core of the argument: *)
(* only one of preflight, canary, start script and service is at work at a *)
(* time (OneAtATime), a request without an answer is remembered as such    *)
(* while the canary runs (FlightUnanswered), and each side of the canary   *)
(* is gone through once and in order (SidesInOrder).                       *)
(***************************************************************************)
EXTENDS StartGates, FiniteSetTheorems, TLAPS

OneAtATime ==
  /\ service # "off" => At("off") /\ starter = "off" /\ preflight.pc = "off"
  /\ starter # "off" => At("off") /\ preflight.pc = "off"
  /\ preflight.pc # "off" => At("off")

\* What the service's gates have seen goes on to hold.
GatesHold ==
  /\ service \in {"mode", "orders", "position", "running"} => NothingInFlight
  /\ service \in {"orders", "position"} => ~dual
  /\ service = "position" => \A s \in Sides : ~Rests(s)

\* The final gate decides on a sum that is not older than the reports.
SumIsFresh == starter = "gate" => summary = Summary

\* An order that is not over has something left.
OrdersLeft == \A s \in Sides : orders[s].at \in {"rests", "flight"} => orders[s].left > 0

FlightUnanswered ==
  ~At("off") => \A s \in Sides : orders[s].at = "flight" => result[s] = "unanswered"

BeforeSides == canary.pc \in {"off", "account", "orders", "positions"}
InSide == canary.pc \in {"place", "query", "modify", "cancel", "undo"}

SidesInOrder ==
  /\ BeforeSides => \A s \in Sides : result[s] = "none"
  /\ InSide => result[canary.side] = "none"
  /\ canary.side = "BUY" => result["SELL"] = "none"

\* A side that went well was cancelled and had executed nothing.
OkIsUntouched ==
  \A s \in Sides : result[s] = "ok" => orders[s].at = "over" /\ orders[s].done = 0

RestsUnanswered == \A s \in Sides : Rests(s) => result[s] = "unanswered"

CountHolds ==
  /\ canary.pc \in {"positions", "final_positions"} /\ canary.count = 0 => RestsUnanswered
  /\ At("exit") /\ payload.orders = 0 /\ ~payload.cleanupError => RestsUnanswered

\* What the report holds at each stage.
ReportGrows ==
  /\ canary.pc \in {"off", "account"} => payload = NoPayload
  /\ payload.mode = "unread" => canary.pc \in {"off", "account", "exit"} \/ canary.rescuing
  /\ payload.go => At("exit") /\ Untouched /\ Flat(held)

Canaries == [pc : CanaryPcs, side : Sides, rescuing : BOOLEAN, approved : BOOLEAN,
             hedge : BOOLEAN, count : Counts, filled : BOOLEAN]

TypeCanary ==
  /\ dual \in BOOLEAN
  /\ held \in [Rows -> Int]
  /\ IF dual THEN held["BOTH"] = 0 ELSE held["LONG"] = 0 /\ held["SHORT"] = 0
  /\ orders \in [Sides -> [at : {"none", "flight", "rests", "over"}, left : Nat, done : Nat]]
  /\ canary \in Canaries
  /\ result \in [Sides -> {"none", "unanswered", "bad", "ok"}]
  /\ closing \in [Rows -> Int]
  /\ payload \in Payloads
  /\ payload.go => payload.orders = 0 /\ ~payload.unexpected /\ payload.mode # "unread"
  /\ report \in Verdicts

TypeGates ==
  /\ preflight \in [pc : {"off", "position", "orders"}, flat : BOOLEAN]
  /\ verdict \in BOOLEAN
  /\ summary \in [preflight : BOOLEAN, canary : Verdicts]
  /\ starter \in {"off", "report", "gate"}
  /\ service \in {"off", "down", "mode", "orders", "position", "running"}

\* The canary's part of the invariant and the gates' part.
CanaryInv ==
  /\ TypeCanary /\ OrdersLeft /\ FlightUnanswered /\ SidesInOrder
  /\ OkIsUntouched /\ CountHolds /\ ReportGrows

GatesInv == TypeGates /\ OneAtATime /\ GatesHold /\ SumIsFresh

IInv == CanaryInv /\ GatesInv

-----------------------------------------------------------------------------
\* The number of open orders: it is one of Counts, and 0 when none rests.
LEMMA OpenOrdersCounts ==
  OpenOrders \in 0..2 /\ (OpenOrders = 0 <=> \A s \in Sides : ~Rests(s))
<1> DEFINE R == {s \in Sides : Rests(s)}
<1>1. IsFiniteSet(Sides) /\ Cardinality(Sides) = 2
  <2>1. IsFiniteSet({"BUY"}) /\ Cardinality({"BUY"}) = 1 BY FS_Singleton
  <2>2. Sides = {"BUY"} \cup {"SELL"} BY DEF Sides
  <2>3. QED BY <2>1, <2>2, FS_AddElement
<1>2. IsFiniteSet(R) /\ Cardinality(R) <= 2
  <2>1. R \in SUBSET Sides OBVIOUS
  <2>2. QED BY <1>1, <2>1, FS_Subset
<1>3. Cardinality(R) \in Nat BY <1>2, FS_CardinalityType
<1>4. Cardinality(R) = 0 <=> R = {} BY <1>2, FS_EmptySet
<1>5. QED BY <1>2, <1>3, <1>4 DEF OpenOrders

LEMMA TypeSplits == TypeCanary /\ OrdersLeft /\ TypeGates => TypeOK
BY DEF Canaries, TypeCanary, TypeGates, OrdersLeft, TypeOK, Rests

USE DEF Canaries, At, Goes, Sides, Rows, Rests

LEMMA CanaryInits == CanaryInit /\ dual \in BOOLEAN /\ held = FlatRows => CanaryInv
BY DEF CanaryInit, FlatRows, NoOrder, NothingDone, NoPayload, Off, Unread, CanaryInv, TypeCanary,
       OrdersLeft, FlightUnanswered, SidesInOrder, OkIsUntouched, CountHolds, ReportGrows,
       CanaryPcs, Counts, Verdicts, Payloads, BeforeSides, InSide, RestsUnanswered

-----------------------------------------------------------------------------
(***************************************************************************)
(* The exchange.                                                           *)
(***************************************************************************)
LEMMA FillKeeps ==
  ASSUME CanaryInv, NEW s \in Sides, NEW n \in 1..Qty, OrderFills(s, n)
  PROVE  CanaryInv'
<1> USE QtyAssumption DEF CanaryInv
<1>1. TypeCanary'
  <2>1. held' \in [Rows -> Int]
    BY DEF OrderFills, TypeCanary, RowOf, Dir
  <2>2. IF dual' THEN held'["BOTH"] = 0 ELSE held'["LONG"] = 0 /\ held'["SHORT"] = 0
    BY DEF OrderFills, TypeCanary, RowOf, script
  <2>3. orders' \in [Sides -> [at : {"none", "flight", "rests", "over"}, left : Nat, done : Nat]]
    BY DEF OrderFills, TypeCanary
  <2>4. QED BY <2>1, <2>2, <2>3 DEF OrderFills, TypeCanary, script
<1>2. \A t \in Sides :
        /\ orders'[t].at = "flight" => orders[t].at = "flight"
        /\ orders'[t].at = "rests" => orders[t].at = "rests"
        /\ orders[t].at = "over" => orders'[t] = orders[t]
  BY DEF OrderFills, TypeCanary
<1>3. OrdersLeft'
  BY DEF OrderFills, TypeCanary, OrdersLeft
<1>4. UNCHANGED script BY DEF OrderFills
<1>5. ~payload.go
  BY <1>4 DEF ReportGrows, Untouched, OrderFills
<1>6. FlightUnanswered' /\ SidesInOrder' /\ OkIsUntouched'
  BY <1>2, <1>4 DEF FlightUnanswered, SidesInOrder, OkIsUntouched, script, BeforeSides, InSide
<1>7. CountHolds' /\ ReportGrows'
  BY <1>2, <1>4, <1>5 DEF CountHolds, ReportGrows, RestsUnanswered, script
<1>8. QED BY <1>1, <1>3, <1>6, <1>7

LEMMA ArrivalKeeps ==
  ASSUME CanaryInv, NEW s \in Sides, OrderArrives(s)
  PROVE  CanaryInv'
<1> USE DEF CanaryInv
<1>1. UNCHANGED <<dual, held, script>> BY DEF OrderArrives
<1>2. TypeCanary' /\ OrdersLeft'
  BY <1>1 DEF OrderArrives, TypeCanary, OrdersLeft, script, NoOrder
<1>3. \A t \in Sides :
        /\ orders'[t].at = "flight" => orders[t].at = "flight"
        /\ orders'[t].at = "rests" => orders[t].at = "rests" \/ orders[t].at = "flight"
        /\ orders[t].at = "over" => orders'[t] = orders[t]
  BY DEF OrderArrives, TypeCanary, NoOrder
<1>4. ~payload.go
  BY DEF ReportGrows, Untouched, OrderArrives
<1>5. FlightUnanswered' /\ SidesInOrder' /\ OkIsUntouched'
  BY <1>1, <1>3 DEF FlightUnanswered, SidesInOrder, OkIsUntouched, script, BeforeSides, InSide
<1>6. CountHolds' /\ ReportGrows'
  BY <1>1, <1>3, <1>4 DEF CountHolds, ReportGrows, RestsUnanswered, script, FlightUnanswered
<1>7. QED BY <1>2, <1>5, <1>6

-----------------------------------------------------------------------------
(***************************************************************************)
(* The reads that decide whether the canary trades, and its own side's     *)
(* requests that change no order.                                          *)
(***************************************************************************)
LEMMA LaunchKeeps ==
  ASSUME CanaryInv, NEW approved \in BOOLEAN, Launches(approved)
  PROVE  CanaryInv'
<1> USE DEF CanaryInv, Launches, Off, Unread, account
<1>1. TypeCanary' /\ OrdersLeft'
  BY DEF TypeCanary, OrdersLeft, CanaryPcs, Counts
<1>2. FlightUnanswered' /\ SidesInOrder' /\ OkIsUntouched'
  BY DEF FlightUnanswered, SidesInOrder, OkIsUntouched, NothingInFlight, BeforeSides, InSide
<1>3. CountHolds' /\ ReportGrows'
  BY DEF CountHolds, ReportGrows, NoPayload
<1>4. QED BY <1>1, <1>2, <1>3

\* What a step that leaves the account and what was returned alone keeps.
LEMMA ScriptOnly ==
  ASSUME CanaryInv, UNCHANGED <<account, result, report>>, ~payload.go, closing' = closing,
         canary' \in Canaries,
         payload' \in Payloads,
         canary.pc # "off", canary.side' = canary.side,
         BeforeSides' => BeforeSides,
         InSide' => InSide \/ BeforeSides \/ result[canary.side] = "none",
         payload'.go => payload'.orders = 0 /\ ~payload'.unexpected /\ payload'.mode # "unread"
  PROVE  TypeCanary' /\ OrdersLeft' /\ FlightUnanswered' /\ SidesInOrder' /\ OkIsUntouched'
<1> USE DEF CanaryInv, account
<1>1. TypeCanary'
  BY DEF TypeCanary
<1>2. OrdersLeft' /\ FlightUnanswered' /\ OkIsUntouched'
  BY DEF OrdersLeft, FlightUnanswered, OkIsUntouched
<1>3. SidesInOrder'
  BY DEF SidesInOrder, BeforeSides, InSide, TypeCanary
<1>4. QED BY <1>1, <1>2, <1>3

LEMMA RefusedKeeps ==
  ASSUME CanaryInv, Refused
  PROVE  CanaryInv'
<1> USE DEF CanaryInv, Refused, account
<1>1. ~payload.go /\ payload.orders = Unread
  BY DEF ReportGrows, NoPayload
<1>2. /\ canary' \in Canaries
      /\ canary.side' = canary.side /\ canary'.pc = "exit"
  BY DEF TypeCanary, CanaryPcs
<1>3. TypeCanary' /\ OrdersLeft' /\ FlightUnanswered' /\ SidesInOrder' /\ OkIsUntouched'
  BY <1>1, <1>2, ScriptOnly DEF BeforeSides, InSide, TypeCanary
<1>4. CountHolds' /\ ReportGrows'
  BY <1>1, <1>2 DEF CountHolds, ReportGrows, Unread
<1>5. QED BY <1>3, <1>4

LEMMA ReadsAccountKeeps ==
  ASSUME CanaryInv, ReadsAccount
  PROVE  CanaryInv'
<1> USE DEF CanaryInv, ReadsAccount, account
<1>1. payload = NoPayload
  BY DEF ReportGrows
<1>2. /\ canary' \in Canaries
      /\ canary.side' = canary.side /\ canary'.pc = "orders"
  BY DEF TypeCanary, CanaryPcs
<1>3. payload' \in Payloads /\ payload'.mode # "unread" /\ ~payload'.go
  BY <1>1 DEF NoPayload, Payloads, Counts, Unread
<1>4. TypeCanary' /\ OrdersLeft' /\ FlightUnanswered' /\ SidesInOrder' /\ OkIsUntouched'
  BY <1>1, <1>2, <1>3, ScriptOnly DEF BeforeSides, InSide, NoPayload
<1>5. CountHolds' /\ ReportGrows'
  BY <1>2, <1>3 DEF CountHolds, ReportGrows
<1>6. QED BY <1>4, <1>5

LEMMA ReadsOrdersKeeps ==
  ASSUME CanaryInv, ReadsOrders
  PROVE  CanaryInv'
<1> USE DEF CanaryInv, ReadsOrders, account
<1>1. ~payload.go
  BY DEF ReportGrows
<1>2. canary' \in Canaries /\ canary.side' = canary.side /\ canary'.pc = "positions"
  BY OpenOrdersCounts DEF TypeCanary, CanaryPcs, Counts
<1>3. TypeCanary' /\ OrdersLeft' /\ FlightUnanswered' /\ SidesInOrder' /\ OkIsUntouched'
  BY <1>1, <1>2, ScriptOnly DEF BeforeSides, InSide, TypeCanary
<1>4. canary'.count = OpenOrders
  BY DEF TypeCanary
<1>5. CountHolds'
  BY <1>2, <1>4, OpenOrdersCounts DEF CountHolds, RestsUnanswered
<1>6. canary'.rescuing = canary.rescuing
  BY DEF TypeCanary
<1>7. ReportGrows'
  BY <1>1, <1>2, <1>6 DEF ReportGrows
<1>8. QED BY <1>3, <1>5, <1>7

LEMMA ReadsPositionsKeeps ==
  ASSUME CanaryInv, ReadsPositions
  PROVE  CanaryInv'
<1> USE DEF CanaryInv, ReadsPositions, account
<1>1. ~payload.go /\ (payload.mode = "unread" => canary.rescuing)
  BY DEF ReportGrows
<1>2. /\ canary' \in Canaries /\ canary.side' = canary.side
      /\ canary'.pc \in {"place", "exit"} /\ canary'.rescuing = canary.rescuing
  BY DEF TypeCanary, CanaryPcs
<1>3. /\ payload' \in Payloads /\ ~payload'.go /\ payload'.mode = payload.mode
      /\ payload'.orders = canary.count
  BY <1>1 DEF TypeCanary, Payloads
<1>4. TypeCanary' /\ OrdersLeft' /\ FlightUnanswered' /\ SidesInOrder' /\ OkIsUntouched'
  BY <1>1, <1>2, <1>3, ScriptOnly DEF BeforeSides, InSide
<1>5. CountHolds'
  BY <1>2, <1>3 DEF CountHolds, RestsUnanswered
<1>6. ReportGrows'
  BY <1>1, <1>2, <1>3 DEF ReportGrows
<1>7. QED BY <1>4, <1>5, <1>6

LEMMA AsksKeep ==
  ASSUME CanaryInv, Queries \/ Modifies
  PROVE  CanaryInv'
<1> USE DEF CanaryInv, account
<1>0. UNCHANGED <<account, result, closing, payload, report>>
  BY DEF Queries, Modifies
<1>1. ~payload.go /\ (payload.mode = "unread" => canary.rescuing) /\ canary.pc \in {"query", "modify"}
  BY DEF ReportGrows, Queries, Modifies
<1>2. SeenFilled \in BOOLEAN
  BY DEF SeenFilled, TypeCanary
<1>3. /\ canary' \in Canaries /\ canary.side' = canary.side
      /\ canary'.pc \in {"modify", "cancel"} /\ canary'.rescuing = canary.rescuing
  BY <1>2 DEF TypeCanary, CanaryPcs, Queries, Modifies
<1>4. TypeCanary' /\ OrdersLeft' /\ FlightUnanswered' /\ SidesInOrder' /\ OkIsUntouched'
  BY <1>0, <1>1, <1>3, ScriptOnly DEF BeforeSides, InSide, TypeCanary
<1>5. CountHolds' /\ ReportGrows'
  BY <1>0, <1>1, <1>3 DEF CountHolds, ReportGrows
<1>6. QED BY <1>4, <1>5

-----------------------------------------------------------------------------
(***************************************************************************)
(* The end: the last two reads, the report, and a script that is killed.   *)
(***************************************************************************)
LEMMA ReadsFinalOrdersKeeps ==
  ASSUME CanaryInv, ReadsFinalOrders
  PROVE  CanaryInv'
<1> USE DEF CanaryInv, ReadsFinalOrders, account
<1>1. ~payload.go /\ (payload.mode = "unread" => canary.rescuing)
  BY DEF ReportGrows
<1>2. canary' \in Canaries /\ canary.side' = canary.side /\ canary'.pc = "final_positions"
  BY OpenOrdersCounts DEF TypeCanary, CanaryPcs, Counts
<1>3. TypeCanary' /\ OrdersLeft' /\ FlightUnanswered' /\ SidesInOrder' /\ OkIsUntouched'
  BY <1>1, <1>2, ScriptOnly DEF BeforeSides, InSide, TypeCanary
<1>4. canary'.count = OpenOrders /\ canary'.rescuing = canary.rescuing
  BY DEF TypeCanary
<1>5. CountHolds'
  BY <1>2, <1>4, OpenOrdersCounts DEF CountHolds, RestsUnanswered
<1>6. ReportGrows'
  BY <1>1, <1>2, <1>4 DEF ReportGrows
<1>7. QED BY <1>3, <1>5, <1>6

\* The step that decides: GO only where both sides went well.
LEMMA ReadsFinalPositionsKeeps ==
  ASSUME CanaryInv, ReadsFinalPositions
  PROVE  CanaryInv'
<1> USE DEF CanaryInv, ReadsFinalPositions, account
<1>1. ~payload.go /\ (payload.mode = "unread" => canary.rescuing)
  BY DEF ReportGrows
<1>2. /\ canary' \in Canaries /\ canary.side' = canary.side
      /\ canary'.pc = "exit" /\ canary'.rescuing = canary.rescuing
  BY DEF TypeCanary, CanaryPcs
<1>3. /\ payload'.mode = payload.mode /\ payload'.orders = canary.count
      /\ payload'.unexpected = payload.unexpected
      /\ payload'.go => /\ ~canary.rescuing /\ \A s \in Sides : result[s] = "ok"
                        /\ canary.count = 0 /\ Flat(held) /\ ~payload.unexpected
  BY DEF TypeCanary, Payloads
<1>4. payload' \in Payloads
  BY DEF TypeCanary, Payloads, Flat
<1>5. TypeCanary' /\ OrdersLeft' /\ FlightUnanswered' /\ SidesInOrder' /\ OkIsUntouched'
  BY <1>1, <1>2, <1>3, <1>4, ScriptOnly DEF BeforeSides, InSide
<1>6. CountHolds'
  BY <1>2, <1>3 DEF CountHolds, RestsUnanswered
<1>7. payload'.go => Untouched' /\ Flat(held')
  BY <1>3 DEF Untouched, OkIsUntouched, Flat
<1>8. ReportGrows'
  BY <1>1, <1>2, <1>3, <1>7 DEF ReportGrows
<1>9. QED BY <1>5, <1>6, <1>8

LEMMA GoneKeeps ==
  ASSUME CanaryInv, NEW left,
         left \in [Sides -> [at : {"none", "flight", "rests", "over"}, left : Nat, done : Nat]],
         \A s \in Sides : left[s].at \in {"rests", "flight"} => left[s].left > 0,
         Gone(left), report' \in Verdicts
  PROVE  CanaryInv'
<1> USE DEF CanaryInv, Gone, Off, NothingDone, NoPayload, Unread
<1>1. TypeCanary' /\ OrdersLeft'
  BY DEF TypeCanary, OrdersLeft, CanaryPcs, Counts, Payloads, FlatRows, NoOrder
<1>2. FlightUnanswered' /\ SidesInOrder' /\ OkIsUntouched'
  BY DEF FlightUnanswered, SidesInOrder, OkIsUntouched, InSide
<1>3. CountHolds' /\ ReportGrows'
  BY DEF CountHolds, ReportGrows
<1>4. QED BY <1>1, <1>2, <1>3

LEMMA EndKeeps ==
  ASSUME CanaryInv, Writes \/ Killed
  PROVE  CanaryInv'
<1> USE DEF CanaryInv
<1>1. CASE Writes
  <2>1. Gone(orders) /\ report' \in Verdicts
    BY <1>1 DEF Writes, TypeCanary, Payloads, Verdicts
  <2>2. QED BY <2>1, GoneKeeps DEF TypeCanary, OrdersLeft
<1>2. CASE Killed
  <2> DEFINE left == [orders EXCEPT ![canary.side] = NewOrder("flight")]
  <2>1. report' \in Verdicts
    BY <1>2 DEF Killed, TypeCanary
  <2>2. CASE Gone(orders)
    BY <2>1, <2>2, GoneKeeps DEF TypeCanary, OrdersLeft
  <2>3. CASE Gone(left)
    <3>1. left \in [Sides -> [at : {"none", "flight", "rests", "over"}, left : Nat, done : Nat]]
      BY QtyAssumption DEF TypeCanary, NewOrder
    <3>2. \A s \in Sides : left[s].at \in {"rests", "flight"} => left[s].left > 0
      BY QtyAssumption DEF TypeCanary, NewOrder, OrdersLeft
    <3> HIDE DEF left
    <3>3. QED BY <2>1, <2>3, <3>1, <3>2, GoneKeeps
  <2>4. QED BY <1>2, <2>2, <2>3 DEF Killed
<1>3. QED BY <1>1, <1>2

-----------------------------------------------------------------------------
(***************************************************************************)
(* run_side.                                                               *)
(***************************************************************************)
OrderStates == [at : {"none", "flight", "rests", "over"}, left : Nat, done : Nat]

LEMMA PartDoneMoves ==
  ASSUME canary \in Canaries, PartDone
  PROVE  /\ canary' \in Canaries /\ canary'.rescuing = canary.rescuing
         /\ \/ canary'.pc = "final_orders" /\ canary'.side = canary.side
            \/ canary'.pc = "place" /\ canary.side = "BUY" /\ canary'.side = "SELL"
BY DEF PartDone, CanaryPcs

LEMMA SideEndKeeps ==
  ASSUME CanaryInv, InSide,
         NEW r \in {"unanswered", "bad", "ok"}, NEW filled \in BOOLEAN,
         SideEnds(r, filled), UNCHANGED <<dual, held, closing, report>>,
         NEW o \in OrderStates, orders' = [orders EXCEPT ![canary.side] = o],
         o.at \in {"rests", "flight"} => o.left > 0,
         o.at = "flight" => r = "unanswered",
         r = "ok" => o.at = "over" /\ o.done = 0
  PROVE  CanaryInv'
<1> USE DEF CanaryInv, OrderStates
<1>1. ~payload.go /\ (payload.mode = "unread" => canary.rescuing)
  BY DEF ReportGrows, InSide
<1>2. canary.side \in Sides /\ canary \in Canaries
  BY DEF TypeCanary
<1>3. /\ canary' \in Canaries /\ canary'.rescuing = canary.rescuing
      /\ \/ canary'.pc \in {"clean_read", "final_orders"} /\ canary'.side = canary.side
         \/ canary'.pc = "place" /\ canary.side = "BUY" /\ canary'.side = "SELL"
  <2>1. CASE filled
    BY <1>2, <2>1 DEF SideEnds, CanaryPcs
  <2>2. CASE ~filled
    BY <1>2, <2>2, PartDoneMoves DEF SideEnds
  <2>3. QED BY <2>1, <2>2
<1>4. /\ payload' \in Payloads /\ ~payload'.go /\ payload'.mode = payload.mode
  BY <1>1 DEF TypeCanary, SideEnds, Payloads
<1>5. /\ orders' \in [Sides -> OrderStates] /\ orders'[canary.side] = o
      /\ \A t \in Sides : t # canary.side => orders'[t] = orders[t]
  BY <1>2 DEF TypeCanary
<1>6. /\ result' \in [Sides -> {"none", "unanswered", "bad", "ok"}] /\ result'[canary.side] = r
      /\ \A t \in Sides : t # canary.side => result'[t] = result[t]
  BY <1>2 DEF TypeCanary, SideEnds
<1>7. TypeCanary' /\ OrdersLeft'
  BY <1>3, <1>4, <1>5, <1>6 DEF TypeCanary, OrdersLeft
<1>8. FlightUnanswered' /\ OkIsUntouched'
  BY <1>5, <1>6 DEF FlightUnanswered, OkIsUntouched, InSide
<1>9. SidesInOrder'
  BY <1>2, <1>3, <1>6 DEF SidesInOrder, BeforeSides, InSide
<1>10. CountHolds' /\ ReportGrows'
  BY <1>1, <1>3, <1>4 DEF CountHolds, ReportGrows
<1>11. QED BY <1>7, <1>8, <1>9, <1>10

\* A step inside a side: the side's order may come to rest or be over.
LEMMA SideGoesOn ==
  ASSUME CanaryInv, InSide, UNCHANGED <<dual, held, closing, report, result, payload>>,
         NEW pc \in {"query", "undo"}, Goes(pc),
         NEW o \in OrderStates, orders' = [orders EXCEPT ![canary.side] = o],
         o.at \in {"rests", "flight"} => o.left > 0,
         o.at # "flight"
  PROVE  CanaryInv'
<1> USE DEF CanaryInv, OrderStates
<1>1. ~payload.go /\ (payload.mode = "unread" => canary.rescuing)
  BY DEF ReportGrows, InSide
<1>2. /\ canary' \in Canaries /\ canary'.rescuing = canary.rescuing
      /\ canary'.pc = pc /\ canary'.side = canary.side /\ canary.side \in Sides
  BY DEF TypeCanary, CanaryPcs
<1>3. /\ orders' \in [Sides -> OrderStates] /\ orders'[canary.side] = o
      /\ \A t \in Sides : t # canary.side => orders'[t] = orders[t]
  BY <1>2 DEF TypeCanary
<1>4. TypeCanary' /\ OrdersLeft'
  BY <1>1, <1>2, <1>3 DEF TypeCanary, OrdersLeft
<1>5. FlightUnanswered' /\ SidesInOrder' /\ OkIsUntouched'
  BY <1>2, <1>3 DEF FlightUnanswered, SidesInOrder, OkIsUntouched, BeforeSides, InSide
<1>6. CountHolds' /\ ReportGrows'
  BY <1>1, <1>2 DEF CountHolds, ReportGrows
<1>7. QED BY <1>4, <1>5, <1>6

\* What an order of the side is after a cancellation.
LEMMA OverIs ==
  ASSUME CanaryInv, Rests(canary.side)
  PROVE  LET o == [orders[canary.side] EXCEPT !.at = "over", !.left = 0]
         IN  /\ o \in OrderStates /\ o.at = "over" /\ o.done = orders[canary.side].done
             /\ Over(canary.side) = [orders EXCEPT ![canary.side] = o]
BY DEF CanaryInv, TypeCanary, Over, OrderStates

LEMMA StaysIs ==
  ASSUME CanaryInv, InSide
  PROVE  LET o == orders[canary.side]
         IN  /\ o \in OrderStates /\ o.at # "flight" /\ (o.at = "rests" => o.left > 0)
             /\ orders = [orders EXCEPT ![canary.side] = o]
BY DEF CanaryInv, TypeCanary, OrderStates, FlightUnanswered, SidesInOrder, InSide, OrdersLeft

LEMMA PlacesKeeps ==
  ASSUME CanaryInv, Places
  PROVE  CanaryInv'
<1>1. InSide BY DEF Places, InSide
<1>2. NoOrder \in OrderStates /\ NewOrder("rests") \in OrderStates /\ NewOrder("flight") \in OrderStates
  BY QtyAssumption DEF NoOrder, NewOrder, OrderStates
<1>3. /\ NoOrder.at = "none" /\ NewOrder("rests").at = "rests" /\ NewOrder("flight").at = "flight"
      /\ NewOrder("rests").left > 0 /\ NewOrder("flight").left > 0
  BY QtyAssumption DEF NoOrder, NewOrder
<1>4. CASE /\ orders' = [orders EXCEPT ![canary.side] = NewOrder("rests")]
           /\ Goes("query") /\ UNCHANGED <<result, payload>>
  <2>1. UNCHANGED <<dual, held, closing, report, result, payload>>
    BY <1>4 DEF Places
  <2>2. QED BY <1>1, <1>2, <1>3, <1>4, <2>1, SideGoesOn
<1>5. CASE /\ \E o \in {NoOrder, NewOrder("flight")} : orders' = [orders EXCEPT ![canary.side] = o]
           /\ SideEnds("unanswered", FALSE)
  <2>1. PICK o \in {NoOrder, NewOrder("flight")} : orders' = [orders EXCEPT ![canary.side] = o]
    BY <1>5
  <2>2. UNCHANGED <<dual, held, closing, report>>
    BY DEF Places
  <2>3. o \in OrderStates /\ (o.at \in {"rests", "flight"} => o.left > 0)
    BY <1>2, <1>3, <2>1
  <2>4. QED BY <1>1, <1>5, <2>1, <2>2, <2>3, SideEndKeeps
<1>6. QED BY <1>4, <1>5 DEF Places

LEMMA SideBreaksKeeps ==
  ASSUME CanaryInv, SideBreaks
  PROVE  CanaryInv'
<1>1. InSide /\ Goes("undo") /\ UNCHANGED <<dual, held, closing, report, result, payload>>
  BY DEF SideBreaks, InSide
<1>2. CASE UNCHANGED orders
  BY <1>1, <1>2, StaysIs, SideGoesOn
<1>3. CASE Rests(canary.side) /\ orders' = Over(canary.side)
  BY <1>1, <1>3, OverIs, SideGoesOn
<1>4. QED BY <1>2, <1>3 DEF SideBreaks

LEMMA CancelsKeeps ==
  ASSUME CanaryInv, Cancels
  PROVE  CanaryInv'
<1> DEFINE r == IF At("cancel") /\ ~SeenFilled THEN "ok" ELSE "bad"
<1>1. /\ InSide /\ Rests(canary.side) /\ orders' = Over(canary.side)
      /\ SideEnds(r, SeenFilled) /\ UNCHANGED <<dual, held, closing, report>>
  BY DEF Cancels, InSide
<1>2. SeenFilled \in BOOLEAN /\ r \in {"unanswered", "bad", "ok"}
  BY DEF SeenFilled, CanaryInv, TypeCanary
<1>3. r = "ok" => orders[canary.side].done = 0
  BY DEF SeenFilled, CanaryInv, TypeCanary
<1> HIDE DEF r
<1>4. QED BY <1>1, <1>2, <1>3, OverIs, SideEndKeeps

LEMMA UndoFailsKeeps ==
  ASSUME CanaryInv, UndoFails
  PROVE  CanaryInv'
<1>1. InSide /\ SideEnds("bad", canary.filled) /\ UNCHANGED <<dual, held, closing, report>>
  BY DEF UndoFails, InSide
<1>2. canary.filled \in BOOLEAN
  BY DEF CanaryInv, TypeCanary
<1>3. CASE orders' = orders
  BY <1>1, <1>2, <1>3, StaysIs, SideEndKeeps
<1>4. CASE Rests(canary.side) /\ orders' = Over(canary.side)
  BY <1>1, <1>2, <1>4, OverIs, SideEndKeeps
<1>5. QED BY <1>3, <1>4 DEF UndoFails

LEMMA SideKeeps == CanaryInv /\ SideStep => CanaryInv'
BY PlacesKeeps, AsksKeep, CancelsKeeps, SideBreaksKeeps, UndoFailsKeeps DEF SideStep

-----------------------------------------------------------------------------
(***************************************************************************)
(* cleanup_if_needed, and a request that fails outside a side.             *)
(***************************************************************************)
\* The script goes on to where neither a side nor the first reads are.
LEMMA LeavesSides ==
  ASSUME CanaryInv, canary.pc \notin {"off", "exit"},
         UNCHANGED <<dual, orders, report, result>>,
         held' \in [Rows -> Int],
         IF dual THEN held'["BOTH"] = 0 ELSE held'["LONG"] = 0 /\ held'["SHORT"] = 0,
         closing' \in [Rows -> Int],
         canary' \in Canaries, payload' \in Payloads, ~payload'.go,
         ~BeforeSides', InSide' => canary'.pc = "place" /\ canary.side = "BUY" /\ canary'.side = "SELL",
         ~InSide' => canary'.side = canary.side,
         canary'.pc # "final_positions",
         canary'.pc = "exit" => payload'.cleanupError,
         payload'.mode = "unread" => canary'.rescuing \/ canary'.pc = "exit"
  PROVE  CanaryInv'
<1> USE DEF CanaryInv
<1>1. TypeCanary' /\ OrdersLeft'
  BY DEF TypeCanary, OrdersLeft
<1>2. FlightUnanswered' /\ OkIsUntouched'
  BY DEF FlightUnanswered, OkIsUntouched
<1>3. SidesInOrder'
  BY DEF SidesInOrder, TypeCanary
<1>4. CountHolds' /\ ReportGrows'
  BY DEF CountHolds, ReportGrows, BeforeSides
<1>5. QED BY <1>1, <1>2, <1>3, <1>4

LEMMA RaisesMoves ==
  ASSUME canary \in Canaries, payload \in Payloads, ~payload.go, Raises
  PROVE  /\ canary' \in Canaries /\ canary'.side = canary.side
         /\ payload' \in Payloads /\ ~payload'.go
         /\ UNCHANGED <<result, closing>>
         /\ \/ canary'.pc = "exit" /\ payload'.cleanupError
            \/ canary'.pc = "clean_read" /\ canary'.rescuing
<1>1. CASE canary.rescuing
  BY <1>1 DEF Raises, CanaryPcs, Payloads
<1>2. CASE ~canary.rescuing
  BY <1>2 DEF Raises, CanaryPcs, Payloads
<1>3. QED BY <1>1, <1>2

LEMMA RequestFailsKeeps ==
  ASSUME CanaryInv, RequestFails
  PROVE  CanaryInv'
<1>1. canary.pc \notin {"off", "exit"} /\ UNCHANGED <<dual, held, orders, report>> /\ Raises
  BY DEF RequestFails, account
<1>2. /\ canary \in Canaries /\ payload \in Payloads /\ ~payload.go
      /\ held \in [Rows -> Int] /\ closing \in [Rows -> Int]
      /\ IF dual THEN held["BOTH"] = 0 ELSE held["LONG"] = 0 /\ held["SHORT"] = 0
  BY <1>1 DEF CanaryInv, TypeCanary, ReportGrows
<1>3. /\ canary' \in Canaries /\ canary'.side = canary.side
      /\ payload' \in Payloads /\ ~payload'.go /\ UNCHANGED <<result, closing>>
      /\ \/ canary'.pc = "exit" /\ payload'.cleanupError
         \/ canary'.pc = "clean_read" /\ canary'.rescuing
  BY <1>1, <1>2, RaisesMoves
<1>4. ~BeforeSides' /\ ~InSide' /\ canary'.pc # "final_positions"
  BY <1>3 DEF BeforeSides, InSide
<1>5. QED BY <1>1, <1>2, <1>3, <1>4, LeavesSides

LEMMA CleanupReadsKeeps ==
  ASSUME CanaryInv, CleanupReads
  PROVE  CanaryInv'
<1>1. /\ canary \in Canaries /\ payload \in Payloads /\ ~payload.go
      /\ held \in [Rows -> Int] /\ closing \in [Rows -> Int] /\ canary.pc = "clean_read"
      /\ IF dual THEN held["BOTH"] = 0 ELSE held["LONG"] = 0 /\ held["SHORT"] = 0
      /\ payload.mode = "unread" => canary.rescuing
  BY DEF CanaryInv, TypeCanary, ReportGrows, CleanupReads
<1>2. ToClose \in [Rows -> Int]
  BY <1>1 DEF ToClose, Net, FlatRows
<1>3. UNCHANGED <<dual, held, orders, report, result, payload>>
  BY DEF CleanupReads, account
<1>4. CASE PartDone /\ UNCHANGED closing
  <2>1. /\ canary' \in Canaries /\ canary'.rescuing = canary.rescuing
        /\ \/ canary'.pc = "final_orders" /\ canary'.side = canary.side
           \/ canary'.pc = "place" /\ canary.side = "BUY" /\ canary'.side = "SELL"
    BY <1>1, <1>4, PartDoneMoves
  <2>2. /\ ~BeforeSides' /\ canary'.pc # "final_positions" /\ canary'.pc # "exit"
        /\ InSide' => canary'.pc = "place" /\ canary.side = "BUY" /\ canary'.side = "SELL"
        /\ ~InSide' => canary'.side = canary.side
    BY <2>1 DEF BeforeSides, InSide
  <2>3. QED BY <1>1, <1>3, <1>4, <2>1, <2>2, LeavesSides
<1>5. CASE Goes("clean_close") /\ closing' = ToClose
  <2>1. /\ canary' \in Canaries /\ canary'.rescuing = canary.rescuing
        /\ canary'.pc = "clean_close" /\ canary'.side = canary.side
    BY <1>1, <1>5 DEF CanaryPcs
  <2>2. ~BeforeSides' /\ ~InSide' /\ canary'.pc # "final_positions"
    BY <2>1 DEF BeforeSides, InSide
  <2>3. QED BY <1>1, <1>2, <1>3, <1>5, <2>1, <2>2, LeavesSides
<1>6. QED BY <1>4, <1>5 DEF CleanupReads

\* What a MARKET order of the cleanup takes off a row leaves that row nearer to
\* flat, and on the same side of it.
LEMMA ClosesOnly ==
  ASSUME NEW r \in Rows, held \in [Rows -> Int], closing \in [Rows -> Int]
  PROVE  /\ Closes(r) \in Int
         /\ (r = "BOTH") = dual => Closes(r) = 0
         /\ Size(held[r] - Closes(r)) <= Size(held[r])
         /\ (held[r] - Closes(r)) * held[r] >= 0
<1> DEFINE h == held[r]
           c == closing[r]
<1>1. h \in Int /\ c \in Int
  OBVIOUS
<1>2. \A x, y \in Int : x * y > 0 => (x > 0 /\ y > 0) \/ (x < 0 /\ y < 0)
  BY SMT
<1>3. \A x, y \in Int : (x >= 0 /\ y >= 0) \/ (x <= 0 /\ y <= 0) => x * y >= 0
  BY SMT
<1>4. Closes(r) \in {0, h, c} /\ ((r = "BOTH") = dual => Closes(r) = 0)
  BY DEF Closes
<1>5. Closes(r) # 0 /\ Closes(r) = c => (h * c > 0 /\ Size(c) <= Size(h)) \/ c = h
  BY <1>1 DEF Closes
<1> HIDE DEF h, c
<1>6. CASE Closes(r) = 0
  BY <1>1, <1>3, <1>6 DEF Size, h
<1>7. CASE Closes(r) = h
  <2>1. h - h = 0 /\ Size(0) <= Size(h)
    BY <1>1 DEF Size
  <2>2. (0 >= 0 /\ h >= 0) \/ (0 <= 0 /\ h <= 0)
    BY <1>1
  <2>3. 0 * h >= 0
    BY <1>1, <1>3, <2>2
  <2>4. QED BY <1>1, <1>4, <1>7, <2>1, <2>3 DEF h
<1>8. CASE Closes(r) = c /\ c # 0 /\ h * c > 0 /\ Size(c) <= Size(h)
  <2>1. (h > 0 /\ c > 0) \/ (h < 0 /\ c < 0)
    BY <1>1, <1>2, <1>8
  <2>2. (h - c >= 0 /\ h >= 0) \/ (h - c <= 0 /\ h <= 0)
    BY <1>1, <1>8, <2>1 DEF Size
  <2>3. Size(h - c) <= Size(h)
    BY <1>1, <1>8, <2>1, <2>2 DEF Size
  <2>4. (h - c) * h >= 0
    BY <1>1, <1>3, <2>2
  <2>5. QED BY <1>1, <1>4, <1>8, <2>3, <2>4 DEF h
<1>9. QED BY <1>4, <1>5, <1>6, <1>7, <1>8

LEMMA CleanupClosesKeeps ==
  ASSUME CanaryInv, NEW r \in Rows, CleanupCloses(r)
  PROVE  CanaryInv'
<1>1. /\ canary \in Canaries /\ payload \in Payloads /\ ~payload.go
      /\ held \in [Rows -> Int] /\ closing \in [Rows -> Int] /\ canary.pc = "clean_close"
      /\ IF dual THEN held["BOTH"] = 0 ELSE held["LONG"] = 0 /\ held["SHORT"] = 0
      /\ payload.mode = "unread" => canary.rescuing
      /\ dual \in BOOLEAN
  BY DEF CanaryInv, TypeCanary, ReportGrows, CleanupCloses
<1>2. held' = [held EXCEPT ![r] = @ - Closes(r)] /\ UNCHANGED <<dual, orders, report>>
  BY DEF CleanupCloses
<1>3. /\ held' \in [Rows -> Int]
      /\ IF dual THEN held'["BOTH"] = 0 ELSE held'["LONG"] = 0 /\ held'["SHORT"] = 0
  <2>1. Closes(r) \in Int /\ ((r = "BOTH") = dual => Closes(r) = 0)
    BY <1>1, ClosesOnly
  <2> DEFINE n == held[r] - Closes(r)
  <2>2. n \in Int /\ ((r = "BOTH") = dual => n = held[r])
    BY <1>1, <2>1
  <2>3. held' = [held EXCEPT ![r] = n]
    BY <1>2
  <2> HIDE DEF n
  <2>4. held' \in [Rows -> Int]
    BY <1>1, <2>2, <2>3
  <2>5. CASE dual
    BY <1>1, <1>2, <2>2, <2>3, <2>5
  <2>6. CASE ~dual
    BY <1>1, <1>2, <2>2, <2>3, <2>6
  <2>7. QED BY <1>1, <1>2, <2>4, <2>5, <2>6
<1>4. CASE /\ closing' = [closing EXCEPT ![r] = 0]
           /\ IF Flat(closing') THEN PartDone ELSE UNCHANGED canary
           /\ UNCHANGED <<result, payload>>
  <2>1. closing' \in [Rows -> Int]
    BY <1>1, <1>4
  <2>2. /\ canary' \in Canaries /\ canary'.rescuing = canary.rescuing
        /\ \/ canary'.pc \in {"final_orders", "clean_close"} /\ canary'.side = canary.side
           \/ canary'.pc = "place" /\ canary.side = "BUY" /\ canary'.side = "SELL"
    <3>1. CASE Flat(closing')
      BY <1>1, <1>4, <3>1, PartDoneMoves
    <3>2. CASE ~Flat(closing')
      BY <1>1, <1>4, <3>2
    <3>3. QED BY <3>1, <3>2
  <2>3. /\ ~BeforeSides' /\ canary'.pc # "final_positions" /\ canary'.pc # "exit"
        /\ InSide' => canary'.pc = "place" /\ canary.side = "BUY" /\ canary'.side = "SELL"
        /\ ~InSide' => canary'.side = canary.side
    BY <2>2 DEF BeforeSides, InSide
  <2>4. QED BY <1>1, <1>2, <1>3, <1>4, <2>1, <2>2, <2>3, LeavesSides
<1>5. CASE Raises
  <2>1. /\ canary' \in Canaries /\ canary'.side = canary.side
        /\ payload' \in Payloads /\ ~payload'.go /\ UNCHANGED <<result, closing>>
        /\ \/ canary'.pc = "exit" /\ payload'.cleanupError
           \/ canary'.pc = "clean_read" /\ canary'.rescuing
    BY <1>1, <1>5, RaisesMoves
  <2>2. ~BeforeSides' /\ ~InSide' /\ canary'.pc # "final_positions"
    BY <2>1 DEF BeforeSides, InSide
  <2>3. QED BY <1>1, <1>2, <1>3, <2>1, <2>2, LeavesSides
<1>6. QED BY <1>4, <1>5 DEF CleanupCloses

LEMMA CanaryKeeps == CanaryInv /\ CanaryStep => CanaryInv'
BY RefusedKeeps, ReadsAccountKeeps, ReadsOrdersKeeps, ReadsPositionsKeeps, SideKeeps,
   CleanupReadsKeeps, CleanupClosesKeeps, ReadsFinalOrdersKeeps, ReadsFinalPositionsKeeps,
   EndKeeps, RequestFailsKeeps
   DEF CanaryStep, CleanupStep

-----------------------------------------------------------------------------
(***************************************************************************)
(* The person at the shell.                                                *)
(***************************************************************************)
LEMMA PersonKeeps ==
  ASSUME CanaryInv, CleansAccount \/ OpensPosition \/ SwitchesMode
  PROVE  CanaryInv'
<1> USE DEF CanaryInv
<1>1. At("off") /\ UNCHANGED script /\ payload = NoPayload
  BY DEF CleansAccount, OpensPosition, SwitchesMode, ShellIdle, ReportGrows
<1>2. /\ dual' \in BOOLEAN /\ held' \in [Rows -> Int]
      /\ IF dual' THEN held'["BOTH"] = 0 ELSE held'["LONG"] = 0 /\ held'["SHORT"] = 0
  <2>1. CASE CleansAccount
    BY <2>1 DEF CleansAccount, FlatRows, TypeCanary
  <2>2. CASE OpensPosition
    <3>1. PICK s \in Sides, n \in ByHand : held' = [held EXCEPT ![RowOf(s, dual)] = n]
      BY <2>2 DEF OpensPosition
    <3>2. n \in Int /\ dual' = dual
      BY <2>2, ByHandAssumption DEF OpensPosition
    <3>3. QED BY <3>1, <3>2 DEF TypeCanary, RowOf
  <2>3. CASE SwitchesMode
    BY <2>3 DEF SwitchesMode, TypeCanary, Flat
  <2>4. QED BY <2>1, <2>2, <2>3
<1>3. /\ orders' \in [Sides -> OrderStates]
      /\ \A s \in Sides : orders'[s] \in {orders[s], NoOrder}
  BY DEF CleansAccount, OpensPosition, SwitchesMode, TypeCanary, NoOrder, OrderStates
<1>4. TypeCanary' /\ OrdersLeft'
  BY <1>1, <1>2, <1>3 DEF TypeCanary, OrdersLeft, script, NoOrder, OrderStates
<1>5. FlightUnanswered' /\ SidesInOrder' /\ OkIsUntouched'
  BY <1>1, <1>3 DEF FlightUnanswered, SidesInOrder, OkIsUntouched, script, BeforeSides, InSide
<1>6. CountHolds' /\ ReportGrows'
  BY <1>1 DEF CountHolds, ReportGrows, script, NoPayload
<1>7. QED BY <1>4, <1>5, <1>6

LEMMA ExchangeKeeps ==
  ASSUME CanaryInv, ExchangeMoves
  PROVE  CanaryInv'
BY ArrivalKeeps, FillKeeps DEF ExchangeMoves

LEMMA CanaryStutters == CanaryInv /\ UNCHANGED canaryVars => CanaryInv'
BY DEF CanaryInv, canaryVars, account, script, TypeCanary, OrdersLeft, FlightUnanswered,
       SidesInOrder, OkIsUntouched, CountHolds, ReportGrows, RestsUnanswered, BeforeSides,
       InSide, Untouched, Flat

-----------------------------------------------------------------------------
(***************************************************************************)
(* The gates.                                                              *)
(***************************************************************************)
\* With the shell and the service idle but for the canary, nothing else is asked.
LEMMA IdleGates ==
  ASSUME GatesInv, UNCHANGED gates, service = "off", starter = "off", preflight.pc = "off"
  PROVE  GatesInv'
BY DEF GatesInv, TypeGates, OneAtATime, GatesHold, SumIsFresh, gates

LEMMA CanaryAlone ==
  ASSUME GatesInv, ~At("off")
  PROVE  service = "off" /\ starter = "off" /\ preflight.pc = "off"
BY DEF GatesInv, TypeGates, OneAtATime

LEMMA CanaryStepRuns == CanaryStep \/ Killed => ~At("off")
BY DEF CanaryStep, Killed, Refused, ReadsAccount, ReadsOrders, ReadsPositions, SideStep, Places,
       Queries, Modifies, Cancels, SideBreaks, UndoFails, CleanupStep, CleanupReads,
       CleanupCloses, ReadsFinalOrders, ReadsFinalPositions, Writes, RequestFails

LEMMA ExchangeKeepsGates ==
  ASSUME CanaryInv, GatesInv, ExchangeMoves, UNCHANGED gates
  PROVE  GatesInv'
<1>1. UNCHANGED <<dual, script>>
  BY DEF ExchangeMoves, OrderArrives, OrderFills
<1>2. NothingInFlight =>
        \A s \in Sides : /\ orders'[s].at # "flight"
                         /\ orders'[s].at = "rests" => orders[s].at = "rests"
  <2>1. ASSUME NEW s \in Sides, OrderArrives(s)
        PROVE  ~NothingInFlight
    BY <2>1 DEF OrderArrives, NothingInFlight
  <2>2. ASSUME NEW t \in Sides, NEW n \in 1..Qty, OrderFills(t, n), NothingInFlight,
               NEW s \in Sides
        PROVE  /\ orders'[s].at # "flight"
               /\ orders'[s].at = "rests" => orders[s].at = "rests"
    BY <2>2 DEF OrderFills, NothingInFlight, CanaryInv, TypeCanary
  <2>3. QED BY <2>1, <2>2 DEF ExchangeMoves
<1>3. TypeGates' /\ OneAtATime' /\ SumIsFresh'
  BY <1>1 DEF gates, script, GatesInv, TypeGates, OneAtATime, SumIsFresh, Summary
<1>4. GatesHold'
  BY <1>1, <1>2 DEF gates, GatesInv, GatesHold, NothingInFlight
<1>5. QED BY <1>3, <1>4 DEF GatesInv

\* Steps of the preflight and of the shell; none is taken beside the service but
\* the one that starts it.
LEMMA PreflightKeepsGates ==
  ASSUME CanaryInv, GatesInv, PreflightStep
  PROVE  GatesInv'
<1> USE DEF GatesInv
<1>1. UNCHANGED <<canaryVars, summary, starter, service>>
  BY DEF PreflightStep, PreflightStarts, PreflightReadsPosition, PreflightReadsOrders,
         PreflightFails, PreflightStops
<1>2. At("off") /\ starter = "off" /\ service = "off"
  BY DEF PreflightStep, PreflightStarts, PreflightReadsPosition, PreflightReadsOrders,
         PreflightFails, PreflightStops, ShellIdle, OneAtATime, TypeGates
<1>3. preflight' \in [pc : {"off", "position", "orders"}, flat : BOOLEAN]
  <2>1. NoPreflight \in [pc : {"off", "position", "orders"}, flat : BOOLEAN]
    BY DEF NoPreflight
  <2>2. CASE PreflightStarts
    BY <2>1, <2>2 DEF PreflightStarts
  <2>3. CASE PreflightReadsPosition
    <3> DEFINE flat == Net(held) = 0
    <3>1. preflight' = [pc |-> "orders", flat |-> flat] /\ flat \in BOOLEAN
      BY <2>3 DEF PreflightReadsPosition
    <3> HIDE DEF flat
    <3>2. QED BY <3>1
  <2>4. QED
    BY <2>1, <2>2, <2>3 DEF PreflightStep, PreflightReadsOrders, PreflightFails, PreflightStops
<1>4. verdict' \in BOOLEAN
  BY DEF PreflightStep, PreflightStarts, PreflightReadsPosition, PreflightReadsOrders,
         PreflightFails, PreflightStops, TypeGates
<1>5. QED
  BY <1>1, <1>2, <1>3, <1>4
     DEF TypeGates, OneAtATime, GatesHold, SumIsFresh, canaryVars, script

LEMMA ShellKeepsGates ==
  ASSUME CanaryInv, GatesInv, ShellStep
  PROVE  GatesInv'
<1> USE DEF GatesInv
<1>1. CASE ReadinessReported \/ StarterStarts \/ StarterReports
  <2>1. UNCHANGED <<canaryVars, preflight, verdict, service>>
    BY <1>1 DEF ReadinessReported, StarterStarts, StarterReports
  <2>2. At("off") /\ preflight.pc = "off" /\ service = "off"
    BY <1>1 DEF ReadinessReported, StarterStarts, StarterReports, ShellIdle, OneAtATime, TypeGates
  <2>3. summary' \in {summary, Summary} /\ starter' \in {"off", "report", "gate"}
    BY <1>1 DEF ReadinessReported, StarterStarts, StarterReports, ShellIdle
  <2>4. Summary \in [preflight : BOOLEAN, canary : Verdicts]
    BY DEF Summary, TypeGates, CanaryInv, TypeCanary
  <2>5. SumIsFresh'
    BY <1>1, <2>1 DEF ReadinessReported, StarterStarts, StarterReports, ShellIdle, SumIsFresh,
                      Summary, canaryVars, script
  <2>6. QED
    BY <2>1, <2>2, <2>3, <2>4, <2>5 DEF TypeGates, OneAtATime, GatesHold, canaryVars, script
<1>2. CASE StarterGate
  <2>1. UNCHANGED <<canaryVars, preflight, verdict, summary>> /\ NothingInFlight
        /\ starter' = "off" /\ service' \in {"off", "mode"}
    BY <1>2 DEF StarterGate
  <2>2. At("off") /\ preflight.pc = "off"
    BY <1>2 DEF StarterGate, OneAtATime
  <2>3. QED
    BY <2>1, <2>2 DEF TypeGates, OneAtATime, GatesHold, SumIsFresh, NothingInFlight, canaryVars,
                      script, account
<1>3. CASE Lifts(CanaryLaunched) \/ CleansAccount \/ OpensPosition \/ SwitchesMode
  BY <1>3, IdleGates DEF Lifts, CanaryLaunched, CleansAccount, OpensPosition, SwitchesMode, ShellIdle
<1>4. QED BY <1>1, <1>2, <1>3 DEF ShellStep

\* Each gate of the service lets through what the next one relies on.
LEMMA ServiceKeepsGates ==
  ASSUME CanaryInv, GatesInv, ServiceStep, ~Boots
  PROVE  GatesInv'
<1> USE DEF GatesInv
<1>1. UNCHANGED <<canaryVars, preflight, verdict, summary, starter>> /\ service # "off"
  BY DEF ServiceStep, ServiceStarts, ModeGate, OrdersGate, PositionGate, ServiceFails,
         ServiceStopped, Service
<1>2. At("off") /\ starter = "off" /\ preflight.pc = "off"
  BY <1>1 DEF OneAtATime
<1>3. service' \in {"off", "down", "mode", "orders", "position", "running"}
  BY DEF ServiceStep, ServiceStarts, ModeGate, OrdersGate, PositionGate, ServiceFails,
         ServiceStopped, Service
<1>4. /\ service' \in {"mode", "orders", "position", "running"} => NothingInFlight
      /\ service' \in {"orders", "position"} => ~dual
      /\ service' = "position" => \A s \in Sides : ~Rests(s)
  BY OpenOrdersCounts
     DEF ServiceStep, ServiceStarts, ModeGate, OrdersGate, PositionGate, ServiceFails,
         ServiceStopped, Service, GatesHold
<1>5. QED
  BY <1>1, <1>2, <1>3, <1>4
     DEF TypeGates, OneAtATime, GatesHold, SumIsFresh, Summary, NothingInFlight, canaryVars,
         script, account

LEMMA BootKeeps ==
  ASSUME CanaryInv, GatesInv, Boots
  PROVE  CanaryInv' /\ GatesInv'
<1>1. CASE Killed
  <2>1. At("off")'
    BY <1>1 DEF Killed, Gone, Off
  <2>2. QED
    BY <1>1, <2>1, EndKeeps
       DEF Boots, GatesInv, TypeGates, OneAtATime, GatesHold, SumIsFresh, NoPreflight
<1>2. CASE At("off") /\ UNCHANGED canaryVars
  <2>1. At("off")'
    BY <1>2 DEF canaryVars, script
  <2>2. QED
    BY <1>2, <2>1, CanaryStutters
       DEF Boots, GatesInv, TypeGates, OneAtATime, GatesHold, SumIsFresh, NoPreflight
<1>3. QED BY <1>1, <1>2 DEF Boots

-----------------------------------------------------------------------------
(***************************************************************************)
(* The invariant, and what it gives.                                       *)
(***************************************************************************)
LEMMA Inits == Init => IInv
<1> SUFFICES ASSUME Init PROVE IInv
  OBVIOUS
<1>1. CanaryInv
  BY CanaryInits DEF Init
<1>2. GatesInv
  BY DEF Init, CanaryInit, Off, GatesInv, TypeGates, OneAtATime, GatesHold, SumIsFresh, NoPreflight,
         Missing, Verdicts
<1>3. QED BY <1>1, <1>2 DEF IInv

LEMMA Steps == IInv /\ [Next]_vars => IInv'
<1> SUFFICES ASSUME CanaryInv, GatesInv, [Next]_vars PROVE CanaryInv' /\ GatesInv'
  BY DEF IInv
<1>1. CASE Lifts(ExchangeMoves)
  BY <1>1, ExchangeKeeps, ExchangeKeepsGates DEF Lifts
<1>2. CASE Lifts(CanaryStep) \/ Lifts(Killed)
  <2>1. (CanaryStep \/ Killed) /\ UNCHANGED gates
    BY <1>2 DEF Lifts
  <2>2. QED BY <2>1, CanaryKeeps, EndKeeps, CanaryStepRuns, CanaryAlone, IdleGates
<1>3. CASE PreflightStep
  <2>1. UNCHANGED canaryVars
    BY <1>3 DEF PreflightStep, PreflightStarts, PreflightReadsPosition, PreflightReadsOrders,
                PreflightFails, PreflightStops
  <2>2. QED BY <1>3, <2>1, CanaryStutters, PreflightKeepsGates
<1>4. CASE ShellStep
  <2>1. \/ UNCHANGED canaryVars
        \/ CleansAccount \/ OpensPosition \/ SwitchesMode
        \/ \E approved \in BOOLEAN : Launches(approved)
    BY <1>4 DEF ShellStep, ReadinessReported, StarterStarts, StarterReports, StarterGate, Lifts,
                CanaryLaunched
  <2>2. QED BY <1>4, <2>1, CanaryStutters, PersonKeeps, LaunchKeeps, ShellKeepsGates
<1>5. CASE ServiceStep
  <2>1. CASE Boots
    BY <2>1, BootKeeps
  <2>2. CASE ~Boots
    <3>1. UNCHANGED canaryVars
      BY <1>5, <2>2 DEF ServiceStep, ServiceStarts, ModeGate, OrdersGate, PositionGate,
                        ServiceFails, ServiceStopped, Service
    <3>2. QED BY <1>5, <2>2, <3>1, CanaryStutters, ServiceKeepsGates
  <2>3. QED BY <2>1, <2>2
<1>6. CASE UNCHANGED vars
  BY <1>6, CanaryStutters
     DEF vars, gates, canaryVars, account, script, GatesInv, TypeGates, OneAtATime, GatesHold,
         SumIsFresh, Summary, NothingInFlight
<1>7. QED BY <1>1, <1>2, <1>3, <1>4, <1>5, <1>6 DEF Next

\* The invariant of the canary and the gates holds for every size of an order and
\* every position a person may open.
THEOREM IInvAlways == Spec => []IInv
<1>1. Init => IInv BY Inits
<1>2. IInv /\ [Next]_vars => IInv' BY Steps
<1>3. QED BY <1>1, <1>2, PTL DEF Spec

\* The state keeps its types: no position in the rows of the other position mode,
\* no resting order without a rest, no GO that is not complete.
THEOREM TypeCorrect == Spec => []TypeOK
<1>1. IInv => TypeOK BY TypeSplits DEF IInv, CanaryInv, GatesInv
<1>2. QED BY <1>1, IInvAlways, PTL

\* A canary that says GO has left no order and executed nothing on either side, and
\* the account is flat when the report is made (live_canary_order_control.py:526-536).
THEOREM GoIsUntouched == Spec => []GoMeansUntouched
<1>1. IInv => GoMeansUntouched BY DEF IInv, CanaryInv, ReportGrows, GoMeansUntouched
<1>2. QED BY <1>1, IInvAlways, PTL

\* A report that says that no order is open leaves none but one whose placement got
\* no answer and came late (live_canary_order_control.py:469, 523, 545).
THEOREM CountIsTrue == Spec => []CountTellsResting
<1>1. IInv => CountTellsResting
  BY DEF IInv, CanaryInv, CountHolds, RestsUnanswered, CountTellsResting
<1>2. QED BY <1>1, IInvAlways, PTL

\* A MARKET order of the cleanup takes a row nearer to flat and opens nothing: the
\* step form of CleanupOnlyCloses (live_canary_order_control.py:275-300).
LEMMA CleanupStepCloses ==
  ASSUME IInv, [Next]_vars, At("clean_close"), orders' = orders, held' # held
  PROVE  \A r \in Rows : Size(held'[r]) <= Size(held[r]) /\ held'[r] * held[r] >= 0
<1>1. ~At("off") /\ held \in [Rows -> Int] /\ closing \in [Rows -> Int] /\ orders \in [Sides -> OrderStates]
  BY DEF IInv, CanaryInv, TypeCanary, OrderStates
<1>2. ~ExchangeMoves
  <2>1. ASSUME NEW s \in Sides, NEW n \in 1..Qty, OrderFills(s, n) PROVE FALSE
    <3>1. orders'[s].done = orders[s].done + n
      BY <1>1, <2>1 DEF OrderFills, OrderStates
    <3>2. orders[s].done \in Nat /\ n \in Nat \ {0}
      BY <1>1, QtyAssumption DEF OrderStates
    <3>3. QED BY <3>1, <3>2
  <2>2. ASSUME NEW s \in Sides, OrderArrives(s) PROVE FALSE
    BY <2>2 DEF OrderArrives
  <2>3. QED BY <2>1, <2>2 DEF ExchangeMoves
<1>3. \E q \in Rows : CleanupCloses(q)
  BY <1>1, <1>2
     DEF Next, Lifts, CanaryStep, Killed, Gone, Refused, ReadsAccount, ReadsOrders, ReadsPositions,
         SideStep, Places, Queries, Modifies, Cancels, SideBreaks, UndoFails, CleanupStep,
         CleanupReads, ReadsFinalOrders, ReadsFinalPositions, Writes, RequestFails, PreflightStep,
         PreflightStarts, PreflightReadsPosition, PreflightReadsOrders, PreflightFails,
         PreflightStops, ShellStep, ReadinessReported, StarterStarts, StarterReports, StarterGate,
         CanaryLaunched, Launches, CleansAccount, OpensPosition, SwitchesMode, ShellIdle,
         ServiceStep, ServiceStarts, ModeGate, OrdersGate, PositionGate, ServiceFails,
         ServiceStopped, Boots, Service, account, canaryVars, vars
<1>4. PICK q \in Rows : CleanupCloses(q)
  BY <1>3
<1>5. held' = [held EXCEPT ![q] = @ - Closes(q)]
  BY <1>4 DEF CleanupCloses
<1>6. /\ Size(held[q] - Closes(q)) <= Size(held[q])
      /\ (held[q] - Closes(q)) * held[q] >= 0
  BY <1>1, ClosesOnly
<1>7. \A x \in Int : Size(x) <= Size(x) /\ x * x >= 0
  <2>1. \A x \in Int : x >= 0 => x * x >= 0
    BY SMT
  <2>2. \A x \in Int : x <= 0 => x * x >= 0
    BY SMT
  <2>3. QED BY <2>1, <2>2 DEF Size
<1>8. \A r \in Rows : r = q \/ held'[r] = held[r]
  BY <1>1, <1>5
<1>9. held'[q] = held[q] - Closes(q)
  BY <1>1, <1>5
<1>10. QED
  <2> SUFFICES ASSUME NEW r \in Rows
               PROVE  Size(held'[r]) <= Size(held[r]) /\ held'[r] * held[r] >= 0
    OBVIOUS
  <2>1. CASE r = q BY <1>6, <1>9, <2>1
  <2>2. CASE held'[r] = held[r]
    <3>1. held[r] \in Int BY <1>1
    <3>2. QED BY <1>7, <2>2, <3>1
  <2>3. QED BY <1>8, <2>1, <2>2

\* A MARKET order of the cleanup only ever takes a row nearer to flat and opens
\* nothing, whatever the sizes (live_canary_order_control.py:275-300).
THEOREM CleanupIsReduceOnly == Spec => CleanupOnlyCloses
<1>1. IInv /\ [Next]_vars =>
        [At("clean_close") /\ orders' = orders /\ held' # held =>
           \A r \in Rows : Size(held'[r]) <= Size(held[r]) /\ held'[r] * held[r] >= 0]_canaryVars
  BY CleanupStepCloses
<1>2. QED BY <1>1, IInvAlways, PTL DEF Spec, CleanupOnlyCloses

\* The start script starts the service only on the verdicts the two reports hold at
\* that moment (start_final_live_strategy_user_service.sh:35-38).
THEOREM StartIsOnLatest == Spec => StartedOnLatestVerdicts
<1>1. IInv /\ [Next]_vars =>
        [starter = "gate" /\ service' = "mode" => verdict /\ report = "one_way"]_vars
  <2> SUFFICES ASSUME IInv, [Next]_vars, starter = "gate", service' = "mode"
               PROVE  verdict /\ report = "one_way"
    OBVIOUS
  <2>1. service = "off" /\ At("off") /\ preflight.pc = "off" /\ summary = Summary
    BY DEF IInv, GatesInv, TypeGates, OneAtATime, SumIsFresh
  <2>2. StarterGate
    BY <2>1, CanaryStepRuns
       DEF Next, Lifts, gates, vars, PreflightStep, PreflightStarts, PreflightReadsPosition,
           PreflightReadsOrders, PreflightFails, PreflightStops, ShellStep, ReadinessReported,
           StarterStarts, StarterReports, CleansAccount, OpensPosition, SwitchesMode, ShellIdle,
           ServiceStep, ServiceStarts, ModeGate, OrdersGate, PositionGate, ServiceFails,
           ServiceStopped, Boots, Service
  <2>3. Approved(summary)
    BY <2>2 DEF StarterGate
  <2>4. QED BY <2>1, <2>3 DEF Approved, Summary
<1>2. QED BY <1>1, IInvAlways, PTL DEF Spec, StartedOnLatestVerdicts

\* However it was started, the service begins in one-way mode on a flat account where
\* nothing rests (src/bot/main.py:119-146).
THEOREM RunIsClean == Spec => RunsOnCleanAccount
<1>1. IInv /\ [Next]_vars =>
        [service = "position" /\ service' = "running" => ~dual /\ Flat(held) /\ OpenOrders = 0]_vars
  <2> SUFFICES ASSUME IInv, [Next]_vars, service = "position", service' = "running"
               PROVE  ~dual /\ Flat(held) /\ OpenOrders = 0
    OBVIOUS
  <2>1. ~dual /\ (\A s \in Sides : ~Rests(s)) /\ starter = "off"
    BY DEF IInv, GatesInv, OneAtATime, GatesHold
  <2>2. PositionGate
    BY <2>1
       DEF Next, Lifts, gates, vars, PreflightStep, PreflightStarts, PreflightReadsPosition,
           PreflightReadsOrders, PreflightFails, PreflightStops, ShellStep, ReadinessReported,
           StarterStarts, StarterReports, StarterGate, CleansAccount, OpensPosition, SwitchesMode,
           ShellIdle, ServiceStep, ServiceStarts, ModeGate, OrdersGate, ServiceFails,
           ServiceStopped, Boots, Service
  <2>3. Flat(held)
    BY <2>2 DEF PositionGate, Service
  <2>4. QED BY <2>1, <2>3, OpenOrdersCounts
<1>2. QED BY <1>1, IInvAlways, PTL DEF Spec, RunsOnCleanAccount
=============================================================================
