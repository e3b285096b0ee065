------------------------- MODULE MakerChaserProofs -------------------------
(***************************************************************************)
(* Proofs about MakerChaser for every quantity, time limit, position and   *)
(* set of disturbances.                                                    *)
(*                                                                         *)
(* What the chase does next depends on `order`, a snapshot that may be old *)
(* by the time it is used.  The argument rests on one fact: an order that  *)
(* is over stays over, so a snapshot that says "over" is right for ever.   *)
(***************************************************************************)
EXTENDS MakerChaser, SumLemmas, TLAPS

Quiet == \A i \in DOMAIN orders : ~Live(i)

OpOf(p) == IF p \in {"accept", "close", "abort"} THEN "cancel" ELSE p

\* At most the youngest order works.
LastOnly == \A i \in DOMAIN orders : Live(i) => i = Len(orders)

\* The coroutine waits for one thing: its request, or the answer to it.
WireInv ==
  /\ wire # NoRequest => pc \in CallPcs /\ wire.op = OpOf(pc) /\ rsp = NoResponse
  /\ rsp # NoResponse => pc \in CallPcs
  /\ wire # NoRequest /\ pc \notin {"place", "market"} => wire.id = order.id

\* Requests name orders that exist; all place requests are alike.
RefInv ==
  \A r \in stray \cup {wire} :
    /\ r.op \in {"modify", "query", "cancel"} => r.id \in DOMAIN orders
    /\ r.op = "place" => r = [op |-> "place", id |-> 0, qty |-> Qty] /\ Quiet

KnownInv ==
  /\ order = NoOrder \/ (order.id \in DOMAIN orders /\ order.status \in Status)
  /\ order # NoOrder /\ order.status \notin LiveStatus => ~Live(order.id)

\* The snapshot is of the youngest order, except between the answer to a place
\* request and its use.
LatestInv ==
  pc \notin {"abort", "done"} =>
    \/ order.id = Len(orders)
    \/ pc = "place" /\ rsp # NoResponse /\ rsp.outcome = "ok"

\* The handler waits for the exchange to serve or to refuse its cancel.
AbortInv ==
  pc = "abort" =>
    /\ order # NoOrder
    /\ wire # NoRequest \/ rsp.outcome \in {"ok", "refused"}

StrayInv == pc \notin {"abort", "done"} => stray = {}

AnswerInv ==
  rsp # NoResponse /\ rsp.outcome = "ok" =>
    /\ pc \in {"place", "query"} =>
         /\ rsp.snap.id = Len(orders) /\ Len(orders) > 0
         /\ rsp.snap.status \in Status
         /\ rsp.snap.status \notin LiveStatus => ~Live(rsp.snap.id)
    /\ pc \in {"accept", "close", "abort"} =>
         order.id \in DOMAIN orders /\ ~Live(order.id)

\* Once the chase has concluded nothing works.
EndInv ==
  /\ pc = "market" => Quiet
  /\ pc # "done" => result.kind = "none"
  /\ Returned => Quiet /\ stray = {}

CallInv ==
  /\ pc \in {"modify", "accept", "close"} => order # NoOrder
  /\ pc = "first_ticker" => order = NoOrder

IInv ==
  /\ TypeOK /\ LastOnly /\ WireInv /\ RefInv /\ KnownInv /\ LatestInv
  /\ AbortInv /\ StrayInv /\ AnswerInv /\ EndInv /\ CallInv
-----------------------------------------------------------------------------
LEMMA InitIInv == Init => IInv
BY ChaseAssumption
DEF Init, IInv, TypeOK, LastOnly, WireInv, RefInv, KnownInv, LatestInv, AbortInv,
    StrayInv, AnswerInv, EndInv, CallInv, NoOrder, NoRequest, NoResponse, Pending,
    Live, Quiet, Pcs, Reasons, ResultKinds, ResultRec, Returned, CallPcs, SnapRec, Status, LiveStatus, DeadStatus, RequestRec, Ops,
    OrderRec

LEMMA ResumeIInv == ASSUME IInv, Resume PROVE IInv'
<1> USE ChaseAssumption
    DEF IInv, TypeOK, LastOnly, WireInv, RefInv, KnownInv, LatestInv, AbortInv, StrayInv,
        AnswerInv, EndInv, CallInv, NoOrder, NoRequest, NoResponse, Pending, Live, Quiet, Pcs, Reasons, ResultKinds, ResultRec, Returned,
        CallPcs, SnapRec, Status, LiveStatus, DeadStatus, RequestRec, ResponseRec, Ops, OpOf,
        OrderRec, Outcomes, local, Exchange
<1>1. CASE FirstTicker
  BY <1>1 DEF FirstTicker, Return, Raise
<1>2. CASE LoopTest
  BY <1>2 DEF LoopTest, LeaveLoop, Conclude, PlaceOrModify, Send, Return, Raise
<1>3. CASE Ticker
  BY <1>3 DEF Ticker, LeaveLoop, Conclude, PlaceOrModify, Send, Return, Raise
<1>4. CASE AfterPlace
  BY <1>4 DEF AfterPlace, AnsweredOk, Answered, Send
<1>5. CASE AfterModify
  BY <1>5 DEF AfterModify, AnsweredOk, Answered, Send
<1>6. CASE AfterPostOnlyRefusal
  BY <1>6 DEF AfterPostOnlyRefusal, Answered, Raise
<1>7. CASE AfterQuery
  BY <1>7 DEF AfterQuery, AnsweredOk, Answered, Send, Return, EnoughFilled
<1>8. CASE AfterAccept
  BY <1>8 DEF AfterAccept, AnsweredOk, Answered, Return
<1>9. CASE AfterClose
  BY <1>9 DEF AfterClose, AnsweredOk, Answered, Conclude, Send, Return
<1>10. CASE AfterMarket
  BY <1>10 DEF AfterMarket, AnsweredOk, Answered, Return
<1>11. CASE AfterAbort
  BY <1>11 DEF AfterAbort, AnsweredOk, Answered, Cancelled
<1>12. CASE AfterRefusal
  BY <1>12 DEF AfterRefusal, Answered, Raise
<1>13. CASE WakeUp
  BY <1>13 DEF WakeUp
<1> QED
  BY <1>1, <1>2, <1>3, <1>4, <1>5, <1>6, <1>7, <1>8, <1>9, <1>10, <1>11, <1>12, <1>13
  DEF Resume

LEMMA InterruptIInv == ASSUME IInv, Interrupt PROVE IInv'
<1> USE ChaseAssumption
    DEF IInv, TypeOK, LastOnly, WireInv, RefInv, KnownInv, LatestInv, AbortInv, StrayInv,
        AnswerInv, EndInv, CallInv, NoOrder, NoRequest, NoResponse, Pending, Live, Quiet, Pcs,
        Reasons, ResultKinds, ResultRec, Returned, CallPcs, SnapRec, Status, LiveStatus,
        DeadStatus, RequestRec, ResponseRec, Ops, OpOf, OrderRec, Outcomes, local, Exchange
<1>1. CASE CallTimesOut
  BY <1>1 DEF CallTimesOut, Abandon, Raise
<1>2. CASE TaskCancelled
  BY <1>2 DEF TaskCancelled, Abandon, Cancelled, Struck, TryPcs
<1>3. CASE CallIsSlow
  BY <1>3 DEF CallIsSlow
<1> QED
  BY <1>1, <1>2, <1>3 DEF Interrupt

\* Writing one order touches no other order.
LEMMA WithOrderFacts ==
  ASSUME orders \in Seq(OrderRec), NEW i \in DOMAIN orders, NEW s \in Status, NEW e \in Nat,
         orders' = WithOrder(i, s, e)
  PROVE  /\ orders' \in Seq(OrderRec)
         /\ Len(orders') = Len(orders)
         /\ DOMAIN orders' = DOMAIN orders
         /\ \A j \in DOMAIN orders : j # i => orders'[j] = orders[j]
         /\ orders'[i].status = s
<1>1. [status |-> s, executed |-> e] \in OrderRec
  BY DEF OrderRec
<1> QED
  BY <1>1 DEF WithOrder

LEMMA ElementOf ==
  ASSUME NEW S, NEW s \in Seq(S), NEW i \in 1..Len(s)
  PROVE  s[i] \in S
OBVIOUS

LEMMA ExecutedIsNat ==
  ASSUME orders \in Seq(OrderRec), NEW i \in DOMAIN orders
  PROVE  orders[i].executed \in Nat
<1>1. orders[i] \in OrderRec
  OBVIOUS
<1> QED
  BY <1>1 DEF OrderRec

\* An order that is over stays over, and a new one comes only from a place request.
LEMMA EffectFacts ==
  ASSUME IInv, NEW r \in stray \cup {wire}, NEW o \in Outcomes, Effect(r, o)
  PROVE  /\ orders' \in Seq(OrderRec)
         /\ held' \in Nat
         /\ \A i \in DOMAIN orders : orders[i].status \notin LiveStatus =>
              i \in DOMAIN orders' /\ orders'[i].status \notin LiveStatus
         /\ r.op # "place" => Len(orders') = Len(orders)
         /\ r.op = "place" => Len(orders') \in {Len(orders), Len(orders) + 1}
         /\ r.op = "place" /\ o = "ok" =>
              Len(orders') = Len(orders) + 1 /\ orders'[Len(orders')].status = "NEW"
         /\ r.op = "cancel" /\ o = "ok" => orders'[r.id].status \notin LiveStatus
         /\ LastOnly'
         /\ r.op \in Ops
<1> USE ChaseAssumption
    DEF IInv, TypeOK, LastOnly, RefInv, Live, Quiet, LiveStatus, Status, DeadStatus, OrderRec,
        RequestRec, NoRequest, Ops, Outcomes
<1>1. CASE r.op = "place" /\ PlaceEffect(o)
  <2>1. CASE o = "ok" /\ orders' = Append(orders, [status |-> "NEW", executed |-> 0]) /\ UNCHANGED held
    <3>1. /\ orders' \in Seq(OrderRec)
          /\ Len(orders') = Len(orders) + 1
          /\ \A i \in DOMAIN orders : i \in DOMAIN orders' /\ orders'[i] = orders[i]
          /\ orders'[Len(orders) + 1] = [status |-> "NEW", executed |-> 0]
      BY <2>1
    <3>2. Quiet
      BY <1>1
    <3>3. LastOnly'
      <4>1. DOMAIN orders' = 1..(Len(orders) + 1) /\ DOMAIN orders = 1..Len(orders)
        BY <3>1
      <4>2. ASSUME NEW i \in DOMAIN orders', i # Len(orders')  PROVE ~Live(i)'
        <5>1. i \in DOMAIN orders
          BY <3>1, <4>1, <4>2
        <5> QED
          BY <3>1, <3>2, <5>1
      <4> QED
        BY <4>2
    <3>4. Len(orders') \in DOMAIN orders' /\ orders'[Len(orders')].status = "NEW"
      BY <3>1
    <3>5. \A i \in DOMAIN orders : orders[i].status \notin LiveStatus =>
              i \in DOMAIN orders' /\ orders'[i].status \notin LiveStatus
      BY <3>1
    <3>6. Len(orders') \in {Len(orders), Len(orders) + 1}
      BY <3>1
    <3> QED
      BY <1>1, <2>1, <3>1, <3>3, <3>4, <3>5, <3>6
  <2>2. CASE UNCHANGED <<orders, held>> /\ o # "ok"
    BY <1>1, <2>2
  <2> QED
    BY <1>1, <2>1, <2>2 DEF PlaceEffect, WouldTake
<1>2. CASE r.op = "modify" /\ ModifyEffect(r.id, o)
  BY <1>2 DEF ModifyEffect, WouldTake
<1>3. CASE r.op = "query" /\ QueryEffect(o)
  BY <1>3 DEF QueryEffect
<1>4. CASE r.op = "cancel" /\ CancelEffect(r.id, o)
  <2>1. r.id \in DOMAIN orders
    BY <1>4
  <2>2. CASE Live(r.id)
    <3>1. /\ orders' = WithOrder(r.id, "CANCELED", orders[r.id].executed)
          /\ UNCHANGED held
      BY <1>4, <2>2 DEF CancelEffect
    <3>2. orders[r.id].executed \in Nat
      BY <2>1, ExecutedIsNat
    <3>3. "CANCELED" \in Status
      OBVIOUS
    <3> HIDE DEF OrderRec, Status
    <3>4. /\ orders' \in Seq(OrderRec) /\ Len(orders') = Len(orders)
          /\ DOMAIN orders' = DOMAIN orders
          /\ \A i \in DOMAIN orders : i # r.id => orders'[i] = orders[i]
          /\ orders'[r.id].status = "CANCELED"
      BY <2>1, <3>1, <3>2, <3>3, WithOrderFacts
    <3>5. LastOnly'
      <4>1. ASSUME NEW i \in DOMAIN orders, Live(i)' PROVE Live(i)
        BY <2>2, <3>4, <4>1
      <4> QED
        BY <3>4, <4>1
    <3> QED
      BY <1>4, <2>1, <3>1, <3>4, <3>5
  <2>3. CASE ~Live(r.id)
    BY <1>4, <2>1, <2>3 DEF CancelEffect
  <2> QED
    BY <2>2, <2>3
<1>5. CASE r.op = "market" /\ MarketEffect(r.qty, o)
  BY <1>5 DEF MarketEffect
<1>6. CASE r.op # "none" /\ RefusedAnyway(o)
  BY <1>6 DEF RefusedAnyway
<1> QED
  BY <1>1, <1>2, <1>3, <1>4, <1>5, <1>6 DEF Effect

LEMMA ServeIInv == ASSUME IInv, NEW o \in Outcomes, Serve(o) PROVE IInv'
<1>0. /\ TypeOK /\ LastOnly /\ WireInv /\ RefInv /\ KnownInv /\ LatestInv
      /\ AbortInv /\ StrayInv /\ AnswerInv /\ EndInv /\ CallInv
  BY DEF IInv
<1>1. /\ wire # NoRequest
      /\ UNCHANGED <<local, pc, stray, result>>
      /\ wire' = NoRequest /\ rsp' = Answer(wire, o)
  BY DEF Serve, Effect, NoRequest
<1>2. Effect(wire, o) /\ wire \in stray \cup {wire}
  BY DEF Serve
<1>3. /\ orders' \in Seq(OrderRec)
      /\ held' \in Nat
      /\ \A i \in DOMAIN orders : orders[i].status \notin LiveStatus =>
              i \in DOMAIN orders' /\ orders'[i].status \notin LiveStatus
      /\ wire.op # "place" => Len(orders') = Len(orders)
      /\ wire.op = "place" => Len(orders') \in {Len(orders), Len(orders) + 1}
      /\ wire.op = "place" /\ o = "ok" =>
           Len(orders') = Len(orders) + 1 /\ orders'[Len(orders')].status = "NEW"
      /\ wire.op = "cancel" /\ o = "ok" => orders'[wire.id].status \notin LiveStatus
      /\ LastOnly'
      /\ wire.op \in Ops
  BY <1>2, EffectFacts
<1>4. /\ DOMAIN orders = 1..Len(orders) /\ DOMAIN orders' = 1..Len(orders')
      /\ Len(orders) \in Nat /\ Len(orders') \in Nat /\ Len(orders) <= Len(orders')
  BY <1>0, <1>3 DEF TypeOK
<1>5. pc \in CallPcs /\ wire.op = OpOf(pc) /\ rsp = NoResponse /\ result.kind = "none"
  BY <1>0, <1>1 DEF WireInv, EndInv, CallPcs
<1>6. rsp' # NoResponse /\ rsp'.outcome = o
  BY <1>1 DEF Answer, Outcomes, NoResponse
<1>7. ASSUME o = "ok", wire.op # "market", NEW k, k = Described(wire)
      PROVE  /\ k \in DOMAIN orders'
             /\ rsp'.snap.id = k
             /\ rsp'.snap.status = orders'[k].status
             /\ rsp'.snap.status \in Status
             /\ rsp'.snap \in SnapRec
  <2>1. k \in 1..Len(orders')
    <3>1. CASE wire.op = "place"
      <4>1. k = Len(orders')
        BY <1>7, <3>1 DEF Described
      <4>2. Len(orders') = Len(orders) + 1
        BY <1>3, <1>7, <3>1
      <4> QED
        BY <1>4, <4>1, <4>2
    <3>2. CASE wire.op \in {"modify", "query", "cancel"}
      <4>1. wire.id \in DOMAIN orders
        BY <1>0, <3>2 DEF RefInv
      <4> QED
        BY <1>4, <1>7, <3>2, <4>1 DEF Described
    <3> QED
      BY <1>3, <1>7, <3>1, <3>2 DEF Ops
  <2>2. orders'[k] \in OrderRec
    BY <1>3, <2>1, ElementOf
  <2>3. k \in Nat
    BY <1>4, <2>1
  <2>4. rsp'.snap = [id |-> k, status |-> orders'[k].status, executed |-> orders'[k].executed]
    BY <1>1, <1>7 DEF Answer
  <2> QED
    BY <1>4, <2>1, <2>2, <2>3, <2>4 DEF OrderRec, SnapRec
<1>8. TypeOK'
  <2>1. rsp' \in ResponseRec
    BY <1>1, <1>7 DEF Answer, ResponseRec, SnapRec, NoOrder, Outcomes
  <2> QED
    BY <1>0, <1>1, <1>3, <2>1 DEF TypeOK, local
<1>9. \A i \in DOMAIN orders : orders[i].status \notin LiveStatus => orders'[i].status \notin LiveStatus
  BY <1>3
<1>10. WireInv' /\ AbortInv' /\ StrayInv' /\ CallInv'
  <2>1. wire.op = "cancel" => o \in {"ok", "refused"}
    BY <1>2 DEF Effect, CancelEffect, RefusedAnyway
  <2> QED
    BY <1>0, <1>1, <1>5, <1>6, <2>1
    DEF WireInv, AbortInv, StrayInv, CallInv, local, NoRequest, OpOf
<1>11. RefInv'
  <2>1. ASSUME NEW r \in stray PROVE wire.op # "place"
    BY <1>0, <1>5, <2>1 DEF StrayInv, OpOf, CallPcs
  <2>2. ASSUME NEW r \in stray, r.op \in {"modify", "query", "cancel"} PROVE r.id \in DOMAIN orders'
    BY <1>0, <1>3, <1>4, <2>1, <2>2 DEF RefInv
  <2>3. ASSUME NEW r \in stray, r.op = "place"
        PROVE  r = [op |-> "place", id |-> 0, qty |-> Qty] /\ Quiet'
    BY <1>0, <1>3, <1>4, <1>9, <2>1, <2>3 DEF RefInv, Quiet, Live
  <2> QED
    BY <1>0, <1>1, <2>2, <2>3 DEF RefInv, NoRequest
<1>12. KnownInv'
  BY <1>0, <1>1, <1>4, <1>9 DEF KnownInv, local, Live
<1>13. LatestInv'
  <2>1. CASE wire.op = "place" /\ o = "ok"
    BY <1>0, <1>1, <1>5, <1>6, <2>1 DEF LatestInv, OpOf
  <2>2. CASE wire.op = "place" /\ o # "ok"
    <3>1. Len(orders') = Len(orders)
      BY <1>2, <2>2 DEF Effect, PlaceEffect, RefusedAnyway, WouldTake
    <3> QED
      BY <1>0, <1>1, <1>5, <3>1 DEF LatestInv, local
  <2>3. CASE wire.op # "place"
    BY <1>0, <1>1, <1>3, <1>5, <2>3 DEF LatestInv, local, OpOf
  <2> QED
    BY <2>1, <2>2, <2>3
<1>14. AnswerInv'
  <2>1. ASSUME o = "ok", pc \in {"place", "query"}
        PROVE  /\ rsp'.snap.id = Len(orders') /\ Len(orders') > 0
               /\ rsp'.snap.status \in Status
               /\ rsp'.snap.status \notin LiveStatus => orders'[rsp'.snap.id].status \notin LiveStatus
    <3>1. wire.op # "market" /\ wire.op = pc
      BY <1>5, <2>1 DEF OpOf
    <3>2. Described(wire) = Len(orders')
      BY <1>0, <1>1, <1>3, <1>5, <2>1, <3>1 DEF Described, LatestInv, WireInv, NoResponse
    <3>3. rsp'.snap.id = Len(orders') /\ Len(orders') > 0
      BY <1>4, <1>7, <2>1, <3>1, <3>2
    <3> QED
      BY <1>7, <2>1, <3>1, <3>2, <3>3
  <2>2. ASSUME o = "ok", pc \in {"accept", "close", "abort"}
        PROVE  order.id \in DOMAIN orders' /\ orders'[order.id].status \notin LiveStatus
    <3>1. wire.op = "cancel" /\ wire.id = order.id
      BY <1>0, <1>1, <1>5, <2>2 DEF OpOf, WireInv
    <3> QED
      BY <1>0, <1>1, <1>3, <1>4, <2>2, <3>1 DEF RefInv, local, Live
  <2> QED
    BY <1>1, <1>6, <2>1, <2>2 DEF AnswerInv, local, Live
<1>15. EndInv'
  <2>1. pc = "market" => Quiet'
    BY <1>0, <1>3, <1>4, <1>5, <1>9 DEF EndInv, Quiet, OpOf, Live
  <2> QED
    BY <1>0, <1>1, <1>5, <2>1 DEF EndInv, Returned, CallPcs
<1> QED
  BY <1>3, <1>8, <1>10, <1>11, <1>12, <1>13, <1>14, <1>15 DEF IInv

LEMMA ServeStrayIInv ==
  ASSUME IInv, NEW r \in stray, NEW o \in Outcomes, ServeStray(r, o) PROVE IInv'
<1>0. /\ TypeOK /\ LastOnly /\ WireInv /\ RefInv /\ KnownInv /\ LatestInv
      /\ AbortInv /\ StrayInv /\ AnswerInv /\ EndInv /\ CallInv
  BY DEF IInv
<1>1. UNCHANGED <<local, pc, wire, rsp, result>> /\ stray' = stray \ {r}
  BY DEF ServeStray
<1>2. Effect(r, o) /\ r \in stray \cup {wire}
  BY DEF ServeStray
<1>3. /\ orders' \in Seq(OrderRec)
      /\ held' \in Nat
      /\ \A i \in DOMAIN orders : orders[i].status \notin LiveStatus =>
              i \in DOMAIN orders' /\ orders'[i].status \notin LiveStatus
      /\ r.op # "place" => Len(orders') = Len(orders)
      /\ r.op = "place" => Len(orders') \in {Len(orders), Len(orders) + 1}
      /\ LastOnly'
  BY <1>2, EffectFacts
<1>4. /\ DOMAIN orders = 1..Len(orders) /\ DOMAIN orders' = 1..Len(orders')
      /\ Len(orders) \in Nat /\ Len(orders') \in Nat /\ Len(orders) <= Len(orders')
  BY <1>0, <1>3 DEF TypeOK
<1>5. pc \in {"abort", "done"}
  BY <1>0 DEF StrayInv
<1>6. TypeOK'
  BY <1>0, <1>1, <1>3 DEF TypeOK, local
<1>7. WireInv' /\ AbortInv' /\ StrayInv' /\ CallInv' /\ LatestInv'
  BY <1>0, <1>1, <1>5 DEF WireInv, AbortInv, StrayInv, CallInv, LatestInv, local
<1>8. RefInv'
  <2> SUFFICES ASSUME NEW s \in (stray \ {r}) \cup {wire}
               PROVE  /\ s.op \in {"modify", "query", "cancel"} => s.id \in DOMAIN orders'
                      /\ s.op = "place" =>
                           s = [op |-> "place", id |-> 0, qty |-> Qty] /\ Quiet'
    BY <1>1 DEF RefInv
  <2>1. s.op \in {"modify", "query", "cancel"} => s.id \in DOMAIN orders'
    BY <1>0, <1>4 DEF RefInv
  <2>2. ASSUME s.op = "place"
        PROVE  s = [op |-> "place", id |-> 0, qty |-> Qty] /\ Quiet'
    <3>1. s = [op |-> "place", id |-> 0, qty |-> Qty] /\ Quiet /\ s # wire
      BY <1>0, <1>5, <2>2 DEF RefInv, WireInv, NoRequest, OpOf, CallPcs
    <3>2. r.op # "place"
      BY <1>0, <3>1 DEF RefInv
    <3> QED
      BY <1>3, <1>4, <3>1, <3>2 DEF Quiet, Live
  <2> QED
    BY <2>1, <2>2
<1>9. KnownInv'
  <2>1. \A i \in DOMAIN orders : orders[i].status \notin LiveStatus =>
          orders'[i].status \notin LiveStatus
    BY <1>3
  <2> QED
    BY <1>0, <1>1, <1>4, <2>1 DEF KnownInv, local, Live
<1>10. AnswerInv'
  BY <1>0, <1>1, <1>3, <1>5 DEF AnswerInv, local, Live
<1>11. EndInv'
  <2>1. ~Returned
    BY <1>0 DEF EndInv
  <2>2. KnownInv
    BY <1>0
  <2> QED
    BY <1>0, <1>1, <1>3, <1>5, <2>1 DEF EndInv, KnownInv, Returned, local, Live
<1> QED
  BY <1>3, <1>6, <1>7, <1>8, <1>9, <1>10, <1>11 DEF IInv

\* What a fill and an expiry have in common: a live order changes its status.
LEMMA OneOrderIInv ==
  ASSUME IInv, NEW i \in LiveOrders, NEW s \in Status, NEW e \in Nat,
         orders' = WithOrder(i, s, e), held' \in Nat,
         UNCHANGED <<local, pc, wire, rsp, stray, result>>
  PROVE  IInv'
<1>0. /\ TypeOK /\ LastOnly /\ WireInv /\ RefInv /\ KnownInv /\ LatestInv
      /\ AbortInv /\ StrayInv /\ AnswerInv /\ EndInv /\ CallInv
  BY DEF IInv
<1>1. i \in DOMAIN orders /\ orders[i].status \in LiveStatus /\ ~Quiet
  BY DEF LiveOrders, Live, Quiet
<1>2. /\ orders' \in Seq(OrderRec) /\ Len(orders') = Len(orders) /\ DOMAIN orders' = DOMAIN orders
      /\ \A j \in DOMAIN orders : j # i => orders'[j] = orders[j]
  BY <1>0, <1>1, WithOrderFacts DEF TypeOK
<1>3. \A j \in DOMAIN orders : orders[j].status \notin LiveStatus => orders'[j].status \notin LiveStatus
  BY <1>1, <1>2
<1>4. TypeOK'
  BY <1>0, <1>2 DEF TypeOK, local
<1>5. LastOnly'
  BY <1>0, <1>1, <1>2 DEF LastOnly, Live
<1>6. RefInv'
  BY <1>0, <1>1, <1>2 DEF RefInv
<1>7. WireInv' /\ AbortInv' /\ StrayInv' /\ CallInv' /\ LatestInv'
  BY <1>0, <1>2 DEF WireInv, AbortInv, StrayInv, CallInv, LatestInv, local
<1>8. KnownInv'
  BY <1>0, <1>2, <1>3 DEF KnownInv, local, Live
<1>9. AnswerInv'
  <2>1. ASSUME rsp # NoResponse, rsp.outcome = "ok", pc \in {"place", "query"}
        PROVE  rsp.snap.id \in DOMAIN orders
    BY <1>0, <2>1 DEF AnswerInv, TypeOK
  <2> QED
    BY <1>0, <1>2, <1>3, <2>1 DEF AnswerInv, local, Live
<1>10. EndInv'
  BY <1>0, <1>1, <1>2, <1>3 DEF EndInv, KnownInv, Returned, local, Live
<1> QED
  BY <1>4, <1>5, <1>6, <1>7, <1>8, <1>9, <1>10 DEF IInv

LEMMA ExchangeStepIInv == ASSUME IInv, ExchangeStep PROVE IInv'
<1>0. orders \in Seq(OrderRec) /\ held \in Nat
  BY DEF IInv, TypeOK
<1>1. ASSUME NEW o \in Outcomes, Serve(o) PROVE IInv'
  BY <1>1, ServeIInv
<1>2. ASSUME NEW r \in stray, NEW o \in Outcomes, ServeStray(r, o) PROVE IInv'
  BY <1>2, ServeStrayIInv
<1>3. ASSUME NEW i \in DOMAIN orders, NEW q \in 1..Qty, ExchangeFill(i, q) PROVE IInv'
  <2> DEFINE e == orders[i].executed + q
             s == IF e = Qty THEN "FILLED" ELSE "PARTIALLY_FILLED"
  <2>1. e \in Nat /\ s \in Status
    BY <1>0, ExecutedIsNat DEF Status, LiveStatus
  <2>2. i \in LiveOrders /\ orders' = WithOrder(i, s, e)
        /\ UNCHANGED <<local, pc, wire, rsp, stray, result>>
    BY <1>3 DEF ExchangeFill
  <2>3. held' \in Nat
    BY <1>0, <1>3 DEF ExchangeFill
  <2> HIDE DEF e, s
  <2> QED
    BY <2>1, <2>2, <2>3, OneOrderIInv
<1>4. ASSUME NEW i \in DOMAIN orders, ExchangeExpires(i) PROVE IInv'
  <2>1. PICK s \in {"EXPIRED", "CANCELED"} : orders' = WithOrder(i, s, orders[i].executed)
    BY <1>4 DEF ExchangeExpires
  <2>2. i \in LiveOrders /\ held' \in Nat /\ UNCHANGED <<local, pc, wire, rsp, stray, result>>
    BY <1>0, <1>4 DEF ExchangeExpires
  <2>3. orders[i].executed \in Nat /\ s \in Status
    BY <1>0, ExecutedIsNat DEF Status, DeadStatus
  <2> QED
    BY <2>1, <2>2, <2>3, OneOrderIInv
<1> QED
  BY <1>1, <1>2, <1>3, <1>4 DEF ExchangeStep

LEMMA StepIInv == IInv /\ [Next]_vars => IInv'
<1> SUFFICES ASSUME IInv, [Next]_vars PROVE IInv'
  OBVIOUS
<1>1. CASE Resume
  BY <1>1, ResumeIInv
<1>2. CASE Interrupt
  BY <1>2, InterruptIInv
<1>3. CASE ExchangeStep
  BY <1>3, ExchangeStepIInv
<1>4. CASE Finished \/ UNCHANGED vars
  BY <1>4
  DEF Finished, vars, IInv, TypeOK, LastOnly, WireInv, RefInv, KnownInv, LatestInv, AbortInv,
      StrayInv, AnswerInv, EndInv, CallInv, Live, Quiet, Returned
<1> QED
  BY <1>1, <1>2, <1>3, <1>4 DEF Next

(***************************************************************************)
(* The results.                                                            *)
(***************************************************************************)

\* The inductive invariant holds in every reachable state.
THEOREM Invariance == Spec => []IInv
<1> QED
  BY InitIInv, StepIInv, PTL DEF Spec

\* Every variable keeps its type, whatever the exchange does.
THEOREM TypeCorrect == Spec => []TypeOK
<1>1. IInv => TypeOK
  BY DEF IInv
<1> QED
  BY <1>1, Invariance, PTL

\* _chase never has two orders working at once (line 194 decides from a snapshot).
THEOREM OneLiveOrder == Spec => []AtMostOneLiveOrder
<1>1. IInv => AtMostOneLiveOrder
  BY DEF IInv, LastOnly, AtMostOneLiveOrder, LiveOrders
<1> QED
  BY <1>1, Invariance, PTL

\* When _chase returns a result, none of its orders works or can come to work.
THEOREM ReturnIsClean == Spec => []NothingWorkingAfterReturn
<1>1. IInv => NothingWorkingAfterReturn
  <2> SUFFICES ASSUME IInv, Returned
               PROVE  LiveOrders = {} /\ \A r \in stray \cup {wire} : r.op # "place"
    BY DEF NothingWorkingAfterReturn
  <2>1. Quiet /\ stray = {} /\ pc = "done"
    BY DEF IInv, EndInv, Returned
  <2>2. wire = NoRequest
    BY <2>1 DEF IInv, WireInv, CallPcs
  <2> QED
    BY <2>1, <2>2 DEF Quiet, LiveOrders, NoRequest
<1> QED
  BY <1>1, Invariance, PTL

\* A stop sends its MARKET order only when none of its limit orders can fill.
THEOREM MarketAfterCancel == Spec => []MarketOnlyAfterCancel
<1>1. IInv => MarketOnlyAfterCancel
  <2> SUFFICES ASSUME IInv, wire.op = "market" PROVE LiveOrders = {}
    BY DEF MarketOnlyAfterCancel
  <2>1. pc = "market"
    BY DEF IInv, WireInv, OpOf, NoRequest, CallPcs
  <2> QED
    BY <2>1 DEF IInv, EndInv, Quiet, LiveOrders
<1> QED
  BY <1>1, Invariance, PTL

\* How a chase that is cancelled inside the try block comes to its end.
LEMMA EndingByCancellation ==
  ASSUME IInv, Next, EndsByCancellation
  PROVE  \/ pc = "abort" /\ (AfterAbort \/ AfterRefusal)
         \/ pc = "abort" /\ Abandon
         \/ pc \in TryPcs /\ TaskCancelled
<1> USE DEF EndsByCancellation
<1>1. CASE Resume
  <2>1. CASE pc = "abort"
    BY <1>1, <2>1
    DEF Resume, FirstTicker, LoopTest, Ticker, AfterPlace, AfterModify, AfterPostOnlyRefusal,
        AfterQuery, AfterAccept, AfterClose, AfterMarket, WakeUp, AnsweredOk, Answered
  <2>2. CASE pc # "abort"
    <3>1. result'.kind = "cancelled" /\ result.kind # "cancelled"
      BY <2>2 DEF IInv, EndInv
    <3> QED
      BY <1>1, <2>2, <3>1
      DEF Resume, FirstTicker, LoopTest, Ticker, AfterPlace, AfterModify, AfterPostOnlyRefusal,
          AfterQuery, AfterAccept, AfterClose, AfterMarket, AfterAbort, AfterRefusal, WakeUp,
          AnsweredOk, Answered, Send, Return, Raise, Conclude, LeaveLoop, PlaceOrModify
  <2> QED
    BY <2>1, <2>2
<1>2. CASE Interrupt
  BY <1>2 DEF Interrupt, CallTimesOut, TaskCancelled, CallIsSlow, Raise, Abandon
<1>3. CASE ExchangeStep \/ Finished
  BY <1>3 DEF ExchangeStep, Serve, ServeStray, ExchangeFill, ExchangeExpires, Finished, vars
<1> QED
  BY <1>1, <1>2, <1>3 DEF Next

\* A chase cancelled inside its try block leaves no order it knew about working: however
\* its handler (lines 257-261) ends, the order is over, its cancel is on its way, or the
\* exchange refused it.
THEOREM CancelIsClean == Spec => CancelledLeavesNoKnownOrder
<1>1. IInv /\ [Next]_vars =>
        [EndsByCancellation =>
           \/ order.id \notin LiveOrders'
           \/ pc = "abort" /\ rsp.outcome = "refused"
           \/ \E r \in stray' : r.op = "cancel" /\ r.id = order.id]_vars
  <2> SUFFICES ASSUME IInv, Next, EndsByCancellation
               PROVE  \/ order.id \notin LiveOrders'
                      \/ pc = "abort" /\ rsp.outcome = "refused"
                      \/ \E r \in stray' : r.op = "cancel" /\ r.id = order.id
    OBVIOUS
  <2>1. CASE pc = "abort" /\ (AfterAbort \/ AfterRefusal)
    BY <2>1 DEF AfterAbort, AfterRefusal, AnsweredOk, Answered, IInv, AnswerInv, LiveOrders, Live,
                Exchange
  <2>2. CASE pc = "abort" /\ Abandon /\ wire # NoRequest
    <3>1. wire \in stray' /\ wire.op = "cancel" /\ wire.id = order.id
      BY <2>2 DEF Abandon, IInv, WireInv, OpOf
    <3> QED
      BY <3>1
  <2>3. CASE pc = "abort" /\ Abandon /\ wire = NoRequest
    <3>1. rsp.outcome \in {"ok", "refused"} /\ rsp # NoResponse
      BY <2>3 DEF IInv, AbortInv, NoResponse
    <3>2. rsp.outcome = "ok" => ~Live(order.id)
      BY <2>3, <3>1 DEF IInv, AnswerInv
    <3>3. UNCHANGED orders
      BY <2>3
      DEF EndsByCancellation, Next, Resume, Interrupt, CallTimesOut, TaskCancelled, CallIsSlow,
          FirstTicker, LoopTest, Ticker, AfterPlace, AfterModify, AfterPostOnlyRefusal, AfterQuery,
          AfterAccept, AfterClose, AfterMarket, AfterAbort, AfterRefusal, WakeUp, AnsweredOk,
          Answered, Exchange, ExchangeStep, Serve, ServeStray, ExchangeFill, ExchangeExpires,
          Finished, vars
    <3> QED
      BY <2>3, <3>1, <3>2, <3>3 DEF LiveOrders, Live
  <2>4. CASE pc \in TryPcs /\ TaskCancelled
    <3>1. order = NoOrder \/ order.status \in {"FILLED", "CANCELED"}
      BY <2>4 DEF TaskCancelled, EndsByCancellation
    <3>2. UNCHANGED orders
      BY <2>4 DEF TaskCancelled, Exchange
    <3> QED
      BY <3>1, <3>2 DEF IInv, KnownInv, TypeOK, LiveOrders, Live, LiveStatus, NoOrder
  <2> QED
    BY <2>1, <2>2, <2>3, <2>4, EndingByCancellation
<1> QED
  BY <1>1, Invariance, PTL DEF Spec, CancelledLeavesNoKnownOrder
-----------------------------------------------------------------------------
(***************************************************************************)
(* Quantities: what a chase reports, and what it does to the position.     *)
(*                                                                         *)
(* What an order has executed never shrinks, so a snapshot, however old,   *)
(* tells of no more than was executed.                                     *)
(***************************************************************************)
OrdersInv ==
  \A i \in DOMAIN orders :
    /\ orders[i].executed <= Qty
    /\ orders[i].status = "FILLED" => orders[i].executed = Qty
    /\ orders[i].status = "PARTIALLY_FILLED" => orders[i].executed > 0

\* What a snapshot says of its order is true, or was.
TrueOf(s) ==
  /\ s.executed <= orders[s.id].executed
  /\ s.status = "FILLED" => s.executed = Qty
  /\ s.status = "PARTIALLY_FILLED" => s.executed > 0

SnapInv ==
  /\ order # NoOrder => TrueOf(order)
  /\ rsp # NoResponse /\ rsp.outcome = "ok" /\ pc \in {"place", "query"} => TrueOf(rsp.snap)

\* Only a stop sends a MARKET order, for what its last snapshot leaves open.
MarketInv ==
  /\ pc = "market" => kind = "STOP"
  /\ \A r \in stray \cup {wire} :
       r.op = "market" => kind = "STOP" /\ r.qty = Qty - order.executed

ToldInv ==
  /\ ~Returned => result.filled = 0
  /\ Returned /\ result.reason # "market_reduce_only_fallback" => result.filled <= Executed

QuantityInv == OrdersInv /\ SnapInv /\ MarketInv /\ ToldInv

\* A chase that closes a position is started for all of it, or for more.
SizedToPosition == StartHeld \subseteq 0..Qty

\* What is left of the position was not executed; after the MARKET order of a stop
\* nothing is left.
HeldInv ==
  /\ ReduceOnly => held + Executed <= Qty
  /\ pc = "accept" => ~MarketFallback /\ order.status = "PARTIALLY_FILLED"
  /\ pc = "market" /\ rsp # NoResponse /\ rsp.outcome = "ok" => held = 0
  /\ StopSuccessFlattens

\* The exchange of the dry run: it ends no order by itself, and a chase that closes
\* a position is started for exactly that position.
InDryRun == Venue = "dry_run" /\ StartHeld \subseteq {Qty} /\ "expire" \notin Disturbances

Ending == {"accept", "close", "abort", "market", "done"}
Closed == ReduceOnly /\ held = 0

\* In the dry run a chase has one order: only a chase that has nothing left to close
\* would place another.
OneOrderInv ==
  /\ Len(orders) <= 1
  /\ \A r \in stray \cup {wire} : r.op = "place" => orders = <<>> \/ Closed

\* Before its end a chase loses its order only when there is nothing left to close.
DeadInv ==
  pc \notin Ending =>
    /\ \A i \in DOMAIN orders : orders[i].status \in DeadStatus => Closed
    /\ order.status \in DeadStatus => Closed
    /\ rsp # NoResponse /\ rsp.snap.status \in DeadStatus => Closed

\* Between two queries the snapshot is exact.
ExactInv ==
  /\ pc \notin {"query", "abort", "done"} /\ order # NoOrder =>
       order.executed = orders[order.id].executed
  /\ pc = "query" /\ rsp # NoResponse /\ rsp.outcome = "ok" =>
       rsp.snap.executed = orders[rsp.snap.id].executed

\* The limit orders account for the position, until a MARKET order takes the rest.
BalanceInv ==
  IF ReduceOnly
  THEN held + Executed = Qty \/ (kind = "STOP" /\ held = 0 /\ pc \in {"market", "abort", "done"})
  ELSE held = Executed

DryInv == OneOrderInv /\ DeadInv /\ ExactInv /\ BalanceInv /\ ReportIsExact
-----------------------------------------------------------------------------
\* What the orders of a chase executed together.
LEMMA ExecutedBounds ==
  ASSUME orders \in Seq(OrderRec)
  PROVE  Executed \in Nat /\ \A i \in DOMAIN orders : orders[i].executed <= Executed
<1> DEFINE D == 1..Len(orders)
           f == [i \in DOMAIN orders |-> orders[i].executed]
<1>1. DOMAIN orders = D /\ IsFiniteSet(D)
  BY FS_Interval
<1>2. f \in [D -> Nat]
  BY <1>1, ExecutedIsNat
<1>3. SumFunction(f) \in Nat /\ \A i \in D : f[i] <= SumFunction(f)
  <2> HIDE DEF f, D
  <2>1. QED BY <1>1, <1>2, SumOfNats
<1>4. QED BY <1>1, <1>3 DEF Executed

LEMMA ExecutedOfNone == orders = <<>> => Executed = 0
<1> SUFFICES ASSUME orders = <<>> PROVE Executed = 0
  OBVIOUS
<1> DEFINE f == [i \in DOMAIN orders |-> orders[i].executed]
<1>1. DOMAIN f = {}
  OBVIOUS
<1>2. f \in [{} -> Int] /\ IsFiniteSet({})
  BY <1>1, FS_EmptySet
<1> HIDE DEF f
<1>3. SumFunctionOnSet(f, {}) = 0
  BY <1>2, SumOfNone
<1>4. QED BY <1>1, <1>3 DEF Executed, SumFunction, f

LEMMA ExecutedChanges ==
  ASSUME orders \in Seq(OrderRec), NEW i \in DOMAIN orders, NEW s \in Status, NEW e \in Nat,
         orders' = WithOrder(i, s, e)
  PROVE  Executed' = Executed - orders[i].executed + e
<1> DEFINE D == 1..Len(orders)
           f == [j \in DOMAIN orders |-> orders[j].executed]
           g == [j \in DOMAIN orders' |-> orders'[j].executed]
<1>1. DOMAIN orders = D /\ IsFiniteSet(D) /\ i \in D
  BY FS_Interval
<1>2. f \in [D -> Int]
  BY <1>1, ExecutedIsNat
<1>3. orders' = [orders EXCEPT ![i] = [status |-> s, executed |-> e]]
  BY DEF WithOrder
<1>4. g = [f EXCEPT ![i] = e]
  <2>1. DOMAIN orders' = D /\ \A j \in D : g[j] = IF j = i THEN e ELSE f[j]
    BY <1>1, <1>3
  <2>2. g = [j \in D |-> g[j]]
    BY <2>1
  <2> HIDE DEF f, g, D
  <2>3. QED BY <1>1, <1>2, <2>1, <2>2
<1>5. Executed' = SumFunction(g) /\ Executed = SumFunction(f) /\ f[i] = orders[i].executed
  BY DEF Executed
<1> HIDE DEF f, g, D
<1>6. SumFunction([f EXCEPT ![i] = e]) = SumFunction(f) - f[i] + e
  <2>1. e \in Int
    OBVIOUS
  <2>2. QED BY <1>1, <1>2, <2>1, SumChanges, Zenon
<1>7. QED BY <1>4, <1>5, <1>6

LEMMA ExecutedGrows ==
  ASSUME orders \in Seq(OrderRec), NEW o \in OrderRec, orders' = Append(orders, o)
  PROVE  Executed' = Executed + o.executed
<1> DEFINE D == 1..Len(orders)
           x == Len(orders) + 1
           f == [j \in DOMAIN orders |-> orders[j].executed]
           g == [j \in DOMAIN orders' |-> orders'[j].executed]
<1>1. DOMAIN orders = D /\ IsFiniteSet(D) /\ x \notin D
  BY FS_Interval
<1>2. DOMAIN orders' = D \cup {x} /\ orders'[x] = o /\ \A j \in D : orders'[j] = orders[j]
  BY <1>1
<1>3. f \in [D -> Int]
  BY <1>1, ExecutedIsNat
<1>4. g \in [D \cup {x} -> Int] /\ g[x] = o.executed /\ \A j \in D : g[j] = f[j]
  BY <1>1, <1>2, <1>3 DEF OrderRec
<1>5. Executed' = SumFunction(g) /\ Executed = SumFunction(f)
  BY DEF Executed
<1> HIDE DEF f, g, D, x
<1>6. SumFunction(g) = SumFunction(f) + g[x]
  <2> DEFINE R == D \cup {x}
  <2>1. x \notin D /\ IsFiniteSet(D) /\ f \in [D -> Int]
    BY <1>1, <1>3
  <2>2. R = D \cup {x} /\ g \in [R -> Int]
    BY <1>4
  <2>3. \A y \in D : g[y] = f[y]
    BY <1>4
  <2> HIDE DEF R
  <2>4. QED BY ONLY <2>1, <2>2, <2>3, SumGrows
<1>7. QED BY <1>4, <1>5, <1>6

\* A request that the exchange serves executes nothing of a limit order.
LEMMA EffectQuantities ==
  ASSUME IInv, NEW r \in stray \cup {wire}, NEW o \in Outcomes, Effect(r, o)
  PROVE  /\ Executed' = Executed
         /\ \A i \in DOMAIN orders :
              /\ i \in DOMAIN orders' /\ orders'[i].executed = orders[i].executed
              /\ orders'[i].status \in {orders[i].status, "CANCELED"}
         /\ \A i \in DOMAIN orders' :
              i \in DOMAIN orders \/ orders'[i] = [status |-> "NEW", executed |-> 0]
         /\ held' <= held /\ (r.op # "market" => held' = held)
         /\ r.op = "market" /\ o = "ok" => held' = IF r.qty <= held THEN held - r.qty ELSE 0
<1>1. orders \in Seq(OrderRec) /\ held \in Nat
  BY DEF IInv, TypeOK
<1> USE DEF Outcomes
<1>2. CASE orders' = orders
  <2>1. Executed' = Executed
    BY <1>2 DEF Executed
  <2>2. r.op = "market" => r.qty \in Nat
    BY DEF IInv, TypeOK, RequestRec, NoRequest
  <2>3. /\ held' <= held /\ (r.op # "market" => held' = held)
        /\ r.op = "market" /\ o = "ok" => held' = IF r.qty <= held THEN held - r.qty ELSE 0
    BY <1>1, <2>2 DEF Effect, PlaceEffect, ModifyEffect, QueryEffect, CancelEffect, MarketEffect,
              RefusedAnyway, WouldTake
  <2>4. QED BY <1>2, <2>1, <2>3
<1>3. CASE r.op = "place" /\ orders' = Append(orders, [status |-> "NEW", executed |-> 0]) /\ held' = held
  <2>1. [status |-> "NEW", executed |-> 0] \in OrderRec
    BY DEF OrderRec, Status, LiveStatus
  <2>2. Executed' = Executed
    BY <1>1, <1>3, <2>1, ExecutedGrows, ExecutedBounds
  <2>3. \A i \in DOMAIN orders : i \in DOMAIN orders' /\ orders'[i] = orders[i]
    BY <1>1, <1>3
  <2>4. \A i \in DOMAIN orders' :
          i \in DOMAIN orders \/ orders'[i] = [status |-> "NEW", executed |-> 0]
    BY <1>1, <1>3
  <2>5. QED BY <1>1, <1>3, <2>2, <2>3, <2>4
<1>4. CASE r.op = "cancel" /\ held' = held /\ orders' = WithOrder(r.id, "CANCELED", orders[r.id].executed)
  <2>1. r.id \in DOMAIN orders
    BY <1>4 DEF IInv, RefInv
  <2>2. orders[r.id].executed \in Nat /\ "CANCELED" \in Status
    BY <1>1, <2>1, ExecutedIsNat DEF Status, DeadStatus
  <2>3. Executed' = Executed
    BY <1>1, <1>4, <2>1, <2>2, ExecutedChanges, ExecutedBounds
  <2>4. orders' = [orders EXCEPT ![r.id] = [status |-> "CANCELED", executed |-> orders[r.id].executed]]
    BY <1>4 DEF WithOrder
  <2>5. QED BY <1>1, <1>4, <2>1, <2>3, <2>4
<1>5. \/ orders' = orders
      \/ r.op = "place" /\ orders' = Append(orders, [status |-> "NEW", executed |-> 0]) /\ held' = held
      \/ r.op = "cancel" /\ held' = held /\ orders' = WithOrder(r.id, "CANCELED", orders[r.id].executed)
  BY DEF Effect, PlaceEffect, ModifyEffect, QueryEffect, CancelEffect, MarketEffect, RefusedAnyway,
         WouldTake
<1>6. QED BY <1>2, <1>3, <1>4, <1>5
-----------------------------------------------------------------------------
LEMMA InitQuantity == Init => QuantityInv
BY DEF Init, QuantityInv, OrdersInv, SnapInv, MarketInv, ToldInv, Returned, Pending, NoRequest

\* No snapshot tells of more than was executed.
LEMMA SnapshotsTell ==
  ASSUME IInv, QuantityInv
  PROVE  /\ Executed \in Nat
         /\ order.executed \in Nat /\ order.executed <= Executed
         /\ rsp # NoResponse /\ rsp.outcome = "ok" /\ pc = "query" =>
              rsp.snap.executed \in Nat /\ rsp.snap.executed <= Executed
<1>1. orders \in Seq(OrderRec) /\ order \in SnapRec /\ rsp \in ResponseRec \cup {NoResponse}
  BY DEF IInv, TypeOK
<1>2. Executed \in Nat /\ \A i \in DOMAIN orders : orders[i].executed \in Nat /\ orders[i].executed <= Executed
  BY <1>1, ExecutedBounds, ExecutedIsNat
<1>3. order.executed \in Nat /\ order.executed <= Executed
  <2>1. CASE order = NoOrder
    BY <1>2, <2>1 DEF NoOrder
  <2>2. CASE order # NoOrder
    <3>1. order.id \in DOMAIN orders /\ order.executed <= orders[order.id].executed
      BY <2>2 DEF IInv, KnownInv, QuantityInv, SnapInv, TrueOf
    <3>2. order.executed \in Nat
      BY <1>1 DEF SnapRec
    <3>3. QED BY <1>2, <3>1, <3>2
  <2>3. QED BY <2>1, <2>2
<1>4. ASSUME rsp # NoResponse, rsp.outcome = "ok", pc = "query"
      PROVE  rsp.snap.executed \in Nat /\ rsp.snap.executed <= Executed
  <2>1. rsp.snap.executed \in Nat
    BY <1>1, <1>4 DEF ResponseRec, SnapRec
  <2>2. rsp.snap.id \in DOMAIN orders
    BY <1>1, <1>4 DEF IInv, AnswerInv
  <2>3. rsp.snap.executed <= orders[rsp.snap.id].executed
    BY <1>4 DEF QuantityInv, SnapInv, TrueOf
  <2>4. QED BY <1>2, <2>1, <2>2, <2>3
<1>5. QED BY <1>2, <1>3, <1>4

LEMMA ResumeQuantity == ASSUME IInv, QuantityInv, Resume PROVE QuantityInv'
<1>0. /\ Executed \in Nat
      /\ order.executed \in Nat /\ order.executed <= Executed
      /\ rsp # NoResponse /\ rsp.outcome = "ok" /\ pc = "query" =>
           rsp.snap.executed \in Nat /\ rsp.snap.executed <= Executed
  BY SnapshotsTell
<1>1. UNCHANGED <<kind, orders, held, stray>>
  BY DEF Resume, FirstTicker, LoopTest, Ticker, LeaveLoop, Conclude, PlaceOrModify, AfterPlace,
         AfterModify, AfterPostOnlyRefusal, AfterQuery, AfterAccept, AfterClose, AfterMarket,
         AfterAbort, AfterRefusal, WakeUp, Send, Return, Raise, local, Exchange
<1>2. Executed' = Executed
  BY <1>1 DEF Executed
<1>3. OrdersInv'
  BY <1>1 DEF QuantityInv, OrdersInv
<1> USE ChaseAssumption DEF QuantityInv
<1>4. SnapInv'
  <2> USE DEF SnapInv, TrueOf, local, Exchange
  <2>1. CASE AfterPlace
    BY <1>1, <2>1 DEF AfterPlace, AnsweredOk, Answered, Send, NoResponse
  <2>2. CASE AfterQuery
    BY <1>1, <2>2 DEF AfterQuery, AnsweredOk, Answered, Send, Return, NoResponse
  <2>3. order' = order /\ (rsp' = NoResponse \/ (rsp' = rsp /\ rsp = NoResponse)) => SnapInv'
    BY <1>1
  <2>4. pc \notin CallPcs => rsp = NoResponse
    BY DEF IInv, WireInv
  <2>5. CASE FirstTicker \/ LoopTest \/ Ticker \/ WakeUp
    BY <2>3, <2>4, <2>5 DEF FirstTicker, LoopTest, Ticker, WakeUp, CallPcs
  <2>6. CASE AfterModify \/ AfterPostOnlyRefusal \/ AfterAccept \/ AfterClose \/ AfterMarket
             \/ AfterAbort \/ AfterRefusal
    BY <2>3, <2>6
       DEF AfterModify, AfterPostOnlyRefusal, AfterAccept, AfterClose, AfterMarket, AfterAbort,
           AfterRefusal, AnsweredOk, Answered
  <2>7. QED BY <2>1, <2>2, <2>5, <2>6 DEF Resume
<1>5. MarketInv'
  <2> USE <1>1 DEF MarketInv, local, NoRequest
  <2>1. wire' = wire \/ wire'.op # "market" \/ (MarketFallback /\ pc' = "market"
          /\ wire'.qty = Qty - order.executed /\ order' = order)
    BY DEF Resume, FirstTicker, LoopTest, Ticker, LeaveLoop, Conclude, PlaceOrModify, AfterPlace,
           AfterModify, AfterPostOnlyRefusal, AfterQuery, AfterAccept, AfterClose, AfterMarket,
           AfterAbort, AfterRefusal, WakeUp, Send, Return, Raise
  <2>2. pc' = "market" => MarketFallback
    BY DEF Resume, FirstTicker, LoopTest, Ticker, LeaveLoop, Conclude, PlaceOrModify, AfterPlace,
           AfterModify, AfterPostOnlyRefusal, AfterQuery, AfterAccept, AfterClose, AfterMarket,
           AfterAbort, AfterRefusal, WakeUp, Send, Return, Raise, Cancelled
  <2>3. wire' = wire /\ wire.op = "market" => order' = order
    <3>1. wire.op = "market" => rsp = NoResponse /\ pc = "market"
      BY DEF IInv, WireInv, OpOf, CallPcs
    <3>2. QED
      BY <3>1 DEF Resume, FirstTicker, LoopTest, Ticker, AfterPlace, AfterModify,
           AfterPostOnlyRefusal, AfterQuery, AfterAccept, AfterClose, AfterMarket, AfterAbort,
           AfterRefusal, WakeUp, AnsweredOk, Answered
  <2>4. stray # {} => order' = order
    <3>1. stray # {} => pc \in {"abort", "done"}
      BY DEF IInv, StrayInv
    <3>2. QED
      BY <3>1 DEF Resume, FirstTicker, LoopTest, Ticker, AfterPlace, AfterModify,
           AfterPostOnlyRefusal, AfterQuery, AfterAccept, AfterClose, AfterMarket, AfterAbort,
           AfterRefusal, WakeUp, AnsweredOk, Answered
  <2>5. QED BY <2>1, <2>2, <2>3, <2>4 DEF MarketFallback
<1>6. ToldInv'
  <2> USE <1>0, <1>2 DEF ToldInv, Returned, local
  <2>0. result.kind = "none" /\ result.filled = 0
    BY DEF Resume, FirstTicker, LoopTest, Ticker, AfterPlace, AfterModify, AfterPostOnlyRefusal,
           AfterQuery, AfterAccept, AfterClose, AfterMarket, AfterAbort, AfterRefusal, WakeUp,
           AnsweredOk, Answered, IInv, EndInv, CallPcs
  <2>1. CASE FirstTicker
    BY <2>0, <2>1 DEF FirstTicker, Return, Raise
  <2>2. CASE LoopTest
    BY <2>0, <2>2 DEF LoopTest, LeaveLoop, Conclude, PlaceOrModify, Send, Return, Raise
  <2>3. CASE Ticker
    BY <2>0, <2>3 DEF Ticker, LeaveLoop, Conclude, PlaceOrModify, Send, Return, Raise
  <2>4. CASE AfterPlace \/ AfterModify \/ WakeUp
    BY <2>0, <2>4 DEF AfterPlace, AfterModify, WakeUp, Send
  <2>5. CASE AfterPostOnlyRefusal \/ AfterAbort \/ AfterRefusal
    BY <2>0, <2>5 DEF AfterPostOnlyRefusal, AfterAbort, AfterRefusal, Raise, Cancelled
  <2>6. CASE AfterQuery
    BY <2>0, <2>6 DEF AfterQuery, AnsweredOk, Answered, Send, Return
  <2>7. CASE AfterAccept
    BY <2>7 DEF AfterAccept, Return
  <2>8. CASE AfterClose
    BY <2>0, <2>8 DEF AfterClose, Conclude, Send, Return
  <2>9. CASE AfterMarket
    BY <2>9 DEF AfterMarket, Return
  <2>10. QED
    BY <2>1, <2>2, <2>3, <2>4, <2>5, <2>6, <2>7, <2>8, <2>9 DEF Resume
<1>7. QED BY <1>3, <1>4, <1>5, <1>6

LEMMA InterruptQuantity == ASSUME IInv, QuantityInv, Interrupt PROVE QuantityInv'
<1> USE DEF QuantityInv, local, Exchange
<1>1. UNCHANGED <<kind, order, orders, held>>
  BY DEF Interrupt, CallTimesOut, TaskCancelled, CallIsSlow
<1>2. Executed' = Executed
  BY <1>1 DEF Executed
<1>3. OrdersInv'
  BY <1>1 DEF OrdersInv
<1>4. SnapInv'
  BY <1>1 DEF Interrupt, CallTimesOut, TaskCancelled, CallIsSlow, Abandon, SnapInv, TrueOf
<1>5. MarketInv'
  BY <1>1 DEF Interrupt, CallTimesOut, TaskCancelled, CallIsSlow, Abandon, MarketInv, NoRequest,
              Raise, Cancelled
<1>6. ToldInv'
  BY <1>1, <1>2 DEF Interrupt, CallTimesOut, TaskCancelled, CallIsSlow, Raise, Cancelled, ToldInv,
                    Returned
<1>7. QED BY <1>3, <1>4, <1>5, <1>6

\* What a request that is served leaves of OrdersInv and of what the chase knows.
LEMMA EffectKeepsOrders ==
  ASSUME IInv, QuantityInv, NEW r \in stray \cup {wire}, NEW o \in Outcomes, Effect(r, o)
  PROVE  OrdersInv' /\ (order # NoOrder => order.executed <= orders'[order.id].executed)
<1>1. /\ \A i \in DOMAIN orders :
           /\ i \in DOMAIN orders' /\ orders'[i].executed = orders[i].executed
           /\ orders'[i].status \in {orders[i].status, "CANCELED"}
      /\ \A i \in DOMAIN orders' :
           i \in DOMAIN orders \/ orders'[i] = [status |-> "NEW", executed |-> 0]
  BY EffectQuantities
<1>2. OrdersInv'
  BY <1>1, ChaseAssumption DEF QuantityInv, OrdersInv
<1>3. order # NoOrder => order.executed <= orders'[order.id].executed
  BY <1>1 DEF QuantityInv, SnapInv, TrueOf, IInv, KnownInv
<1>4. QED BY <1>2, <1>3

LEMMA ServeQuantity == ASSUME IInv, QuantityInv, NEW o \in Outcomes, Serve(o) PROVE QuantityInv'
<1>1. /\ UNCHANGED <<kind, order, pc, stray, result>> /\ wire # NoRequest /\ wire' = NoRequest
      /\ Effect(wire, o) /\ wire \in stray \cup {wire} /\ rsp' = Answer(wire, o)
  BY DEF Serve, local, Effect, NoRequest
<1>2. OrdersInv' /\ (order # NoOrder => order.executed <= orders'[order.id].executed)
  BY <1>1, EffectKeepsOrders
<1>3. Executed' = Executed
  BY <1>1, EffectQuantities
<1>4. wire.op = OpOf(pc) /\ pc \in CallPcs
  BY <1>1 DEF IInv, WireInv
<1>5. orders' \in Seq(OrderRec)
  BY <1>1, EffectFacts
<1>6. ASSUME rsp'.outcome = "ok", pc \in {"place", "query"}
      PROVE  TrueOf(rsp.snap)'
  <2> DEFINE k == Described(wire)
  <2>1. o = "ok" /\ wire.op = pc
    BY <1>1, <1>4, <1>6 DEF Answer, OpOf
  <2>2. k \in DOMAIN orders'
    <3>1. CASE pc = "place"
      BY <1>1, <1>5, <2>1, <3>1, EffectFacts DEF Described, IInv, TypeOK
    <3>2. CASE pc = "query"
      BY <1>1, <2>1, <3>2, EffectQuantities DEF Described, IInv, RefInv
    <3>3. QED BY <1>6, <3>1, <3>2
  <2>3. rsp'.snap = [id |-> k, status |-> orders'[k].status, executed |-> orders'[k].executed]
    BY <1>1, <1>6, <2>1 DEF Answer
  <2>4. orders'[k].executed \in Nat
    <3> HIDE DEF k
    <3>1. orders'[k] \in OrderRec
      BY <1>5, <2>2, ElementOf
    <3>2. QED BY <3>1 DEF OrderRec
  <2> HIDE DEF k
  <2>5. QED BY <1>2, <2>2, <2>3, <2>4 DEF TrueOf, OrdersInv
<1>7. SnapInv'
  BY <1>1, <1>2, <1>6 DEF QuantityInv, SnapInv, TrueOf
<1>8. MarketInv' /\ ToldInv'
  BY <1>1, <1>3 DEF QuantityInv, MarketInv, ToldInv, Returned, NoRequest
<1>9. QED BY <1>2, <1>7, <1>8 DEF QuantityInv

LEMMA ServeStrayQuantity ==
  ASSUME IInv, QuantityInv, NEW r \in stray, NEW o \in Outcomes, ServeStray(r, o) PROVE QuantityInv'
<1>1. /\ UNCHANGED <<kind, order, pc, wire, rsp, result>> /\ stray' = stray \ {r}
      /\ Effect(r, o) /\ r \in stray \cup {wire}
  BY DEF ServeStray, local
<1>2. OrdersInv' /\ (order # NoOrder => order.executed <= orders'[order.id].executed)
  BY <1>1, EffectKeepsOrders
<1>3. Executed' = Executed
  BY <1>1, EffectQuantities
<1>4. pc \notin {"place", "query"}
  BY DEF IInv, StrayInv
<1>5. QED
  BY <1>1, <1>2, <1>3, <1>4 DEF QuantityInv, SnapInv, TrueOf, MarketInv, ToldInv, Returned

\* A fill and an expiry: one order changes, and executes no less than before.
LEMMA OneOrderQuantity ==
  ASSUME IInv, QuantityInv, NEW i \in DOMAIN orders, NEW s \in Status, NEW e \in Nat,
         orders' = WithOrder(i, s, e), UNCHANGED <<local, pc, wire, rsp, stray, result>>,
         orders[i].executed <= e, e <= Qty,
         s = "FILLED" => e = Qty, s = "PARTIALLY_FILLED" => e > 0
  PROVE  QuantityInv'
<1>1. orders \in Seq(OrderRec) /\ \A j \in DOMAIN orders : orders[j].executed \in Nat
  BY ExecutedIsNat DEF IInv, TypeOK
<1>2. /\ DOMAIN orders' = DOMAIN orders /\ orders'[i] = [status |-> s, executed |-> e]
      /\ \A j \in DOMAIN orders : j # i => orders'[j] = orders[j]
  BY <1>1 DEF WithOrder
<1>3. Executed' = Executed - orders[i].executed + e /\ Executed \in Nat
  BY <1>1, ExecutedChanges, ExecutedBounds
<1>4. Executed <= Executed'
  BY <1>1, <1>3
<1>5. OrdersInv'
  BY <1>2 DEF QuantityInv, OrdersInv
<1>6. ASSUME NEW t \in SnapRec, t.id \in DOMAIN orders, TrueOf(t)
      PROVE  t.executed <= orders'[t.id].executed
  BY <1>1, <1>2, <1>6 DEF TrueOf, SnapRec
<1>7. SnapInv'
  <2>1. order # NoOrder => order \in SnapRec /\ order.id \in DOMAIN orders
    BY DEF IInv, TypeOK, KnownInv
  <2>2. rsp # NoResponse /\ rsp.outcome = "ok" /\ pc \in {"place", "query"} =>
          rsp.snap \in SnapRec /\ rsp.snap.id \in DOMAIN orders
    BY <1>1 DEF IInv, TypeOK, AnswerInv, ResponseRec
  <2>3. QED BY <1>6, <2>1, <2>2 DEF QuantityInv, SnapInv, TrueOf, local
<1>8. MarketInv' /\ ToldInv'
  <2>1. Returned => result.filled \in Nat
    BY DEF IInv, TypeOK, ResultRec
  <2>2. Executed' \in Nat
    BY <1>1, <1>3, <1>4
  <2>3. QED BY <1>3, <1>4, <2>1, <2>2 DEF QuantityInv, MarketInv, ToldInv, Returned, local
<1>9. QED BY <1>5, <1>7, <1>8 DEF QuantityInv

LEMMA ExchangeStepQuantity == ASSUME IInv, QuantityInv, ExchangeStep PROVE QuantityInv'
<1>0. orders \in Seq(OrderRec) /\ \A j \in DOMAIN orders : orders[j].executed \in Nat /\ orders[j].executed <= Qty
  BY ExecutedIsNat DEF IInv, TypeOK, QuantityInv, OrdersInv
<1>1. ASSUME NEW i \in DOMAIN orders, NEW q \in 1..Qty, ExchangeFill(i, q) PROVE QuantityInv'
  <2> DEFINE e == orders[i].executed + q
             s == IF e = Qty THEN "FILLED" ELSE "PARTIALLY_FILLED"
  <2>1. e \in Nat /\ s \in Status /\ e > 0 /\ orders[i].executed <= e
    BY <1>0 DEF Status, LiveStatus
  <2>2. e <= Qty
    BY <1>0, <1>1, ChaseAssumption DEF ExchangeFill
  <2>3. orders' = WithOrder(i, s, e) /\ UNCHANGED <<local, pc, wire, rsp, stray, result>>
    BY <1>1 DEF ExchangeFill
  <2>4. (s = "FILLED" => e = Qty) /\ (s = "PARTIALLY_FILLED" => e > 0)
    BY <2>1
  <2> HIDE DEF e, s
  <2> QED BY <2>1, <2>2, <2>3, <2>4, OneOrderQuantity
<1>2. ASSUME NEW i \in DOMAIN orders, ExchangeExpires(i) PROVE QuantityInv'
  <2>1. PICK s \in {"EXPIRED", "CANCELED"} : orders' = WithOrder(i, s, orders[i].executed)
    BY <1>2 DEF ExchangeExpires
  <2>2. s \in Status /\ UNCHANGED <<local, pc, wire, rsp, stray, result>>
    BY <1>2 DEF ExchangeExpires, Status, DeadStatus
  <2> QED BY <1>0, <2>1, <2>2, OneOrderQuantity
<1>3. QED
  BY <1>1, <1>2, ServeQuantity, ServeStrayQuantity DEF ExchangeStep

LEMMA StepQuantity == IInv /\ QuantityInv /\ [Next]_vars => QuantityInv'
<1>1. ASSUME QuantityInv, UNCHANGED vars PROVE QuantityInv'
  BY <1>1 DEF vars, QuantityInv, OrdersInv, SnapInv, TrueOf, MarketInv, ToldInv, Returned, Executed
<1>2. QED
  BY <1>1, ResumeQuantity, InterruptQuantity, ExchangeStepQuantity DEF Next, Finished

\* Snapshots, requests and results never tell of more than the orders executed.
THEOREM QuantityInvariance == Spec => []QuantityInv
<1> QED
  BY InitQuantity, StepQuantity, Invariance, PTL DEF Spec

\* What a maker-only chase reports as executed was executed (lines 226-254, 295),
\* whatever became of the answers and however old the snapshot is.
THEOREM ReportIsBacked == Spec => []ReportedWithinExecuted
<1>1. QuantityInv => ReportedWithinExecuted
  BY DEF QuantityInv, ToldInv, ReportedWithinExecuted
<1> QED
  BY <1>1, QuantityInvariance, PTL
-----------------------------------------------------------------------------
LEMMA InitHeld == SizedToPosition /\ Init => HeldInv
<1> SUFFICES ASSUME SizedToPosition, Init PROVE HeldInv
  OBVIOUS
<1>1. Executed = 0
  BY ExecutedOfNone DEF Init
<1>2. held \in 0..Qty
  BY ChaseAssumption DEF Init, SizedToPosition
<1> QED
  BY <1>1, <1>2 DEF Init, HeldInv, StopSuccessFlattens, Pending

\* The coroutine calls a stop a success only when nothing of the position is left.
LEMMA ResumeHeld == ASSUME IInv, QuantityInv, HeldInv, Resume PROVE HeldInv'
<1>0. /\ Executed \in Nat /\ held \in Nat /\ Qty \in Nat
      /\ order.executed \in Nat /\ order.executed <= Executed
      /\ rsp # NoResponse /\ rsp.outcome = "ok" /\ pc = "query" =>
           rsp.snap.executed \in Nat /\ rsp.snap.executed <= Executed
  BY SnapshotsTell, ChaseAssumption DEF IInv, TypeOK
<1>1. UNCHANGED <<kind, orders, held>>
  BY DEF Resume, FirstTicker, LoopTest, Ticker, AfterPlace, AfterModify, AfterPostOnlyRefusal,
         AfterQuery, AfterAccept, AfterClose, AfterMarket, AfterAbort, AfterRefusal, WakeUp,
         local, Exchange
<1>2. Executed' = Executed
  BY <1>1 DEF Executed
<1>3. pc' = "market" => rsp' = NoResponse
  BY DEF Resume, FirstTicker, LoopTest, Ticker, AfterPlace, AfterModify, AfterPostOnlyRefusal,
         AfterQuery, AfterAccept, AfterClose, AfterMarket, AfterAbort, AfterRefusal, WakeUp,
         AnsweredOk, Answered, IInv, WireInv, CallPcs
<1>4. pc' = "accept" => ~MarketFallback /\ order'.status = "PARTIALLY_FILLED"
  BY DEF Resume, FirstTicker, LoopTest, Ticker, LeaveLoop, Conclude, PlaceOrModify, AfterPlace,
         AfterModify, AfterPostOnlyRefusal, AfterQuery, AfterAccept, AfterClose, AfterMarket,
         AfterAbort, AfterRefusal, WakeUp, Send, Return, Raise, Cancelled, EnoughFilled
<1>5. StopSuccessFlattens'
  <2> SUFFICES ASSUME kind = "STOP", result'.kind = "success" PROVE held = 0
    BY <1>1 DEF StopSuccessFlattens
  <2>0. Executed <= Qty - held /\ MarketFallback /\ pc # "accept" /\ result.kind = "none"
    BY <1>0 DEF HeldInv, ReduceOnly, MarketFallback, IInv, EndInv, Resume, FirstTicker, LoopTest,
         Ticker, AfterPlace, AfterModify, AfterPostOnlyRefusal, AfterQuery, AfterAccept, AfterClose,
         AfterMarket, AfterAbort, AfterRefusal, WakeUp, AnsweredOk, Answered, CallPcs
  <2>1. order.executed >= Qty => held = 0
    BY <1>0, <2>0
  <2>2. CASE LoopTest \/ Ticker \/ AfterClose
    BY <1>0, <2>0, <2>1, <2>2 DEF LoopTest, Ticker, AfterClose, LeaveLoop, Conclude, PlaceOrModify,
         Send, Return, Raise
  <2>3. CASE AfterQuery
    <3>1. rsp # NoResponse /\ rsp.outcome = "ok" /\ pc = "query" /\ rsp.snap.status = "FILLED"
      BY <2>0, <2>3 DEF AfterQuery, AnsweredOk, Answered, Send
    <3>2. rsp.snap.executed = Qty
      BY <3>1 DEF QuantityInv, SnapInv, TrueOf
    <3> QED
      BY <1>0, <2>0, <3>1, <3>2
  <2>4. CASE AfterMarket
    BY <2>4 DEF AfterMarket, AnsweredOk, Answered, HeldInv
  <2> QED
    BY <2>0, <2>2, <2>3, <2>4
    DEF Resume, FirstTicker, AfterPlace, AfterModify, AfterPostOnlyRefusal, AfterAccept, AfterAbort,
        AfterRefusal, WakeUp, AnsweredOk, Answered, Send, Return, Raise, Cancelled
<1> QED
  BY <1>1, <1>2, <1>3, <1>4, <1>5 DEF HeldInv, ReduceOnly, MarketFallback

LEMMA InterruptHeld == ASSUME HeldInv, Interrupt PROVE HeldInv'
<1>1. Executed' = Executed
  BY DEF Interrupt, CallTimesOut, TaskCancelled, CallIsSlow, Exchange, Executed
<1> QED
  BY <1>1 DEF Interrupt, CallTimesOut, TaskCancelled, CallIsSlow, Abandon, Raise, Cancelled, local,
              Exchange, HeldInv, ReduceOnly, MarketFallback, StopSuccessFlattens

\* The MARKET order of a stop takes all that is left: it is as large as the snapshot leaves
\* open, the position is no larger.
LEMMA MarketServed ==
  ASSUME IInv, QuantityInv, HeldInv, wire.op = "market", Effect(wire, "ok")
  PROVE  held' = 0
<1>1. kind = "STOP" /\ wire.qty = Qty - order.executed
  BY DEF QuantityInv, MarketInv
<1>2. held \in Nat /\ Executed \in Nat /\ order.executed \in Nat /\ order.executed <= Executed
  BY SnapshotsTell DEF IInv, TypeOK
<1>3. held <= wire.qty
  BY <1>1, <1>2, ChaseAssumption DEF HeldInv, ReduceOnly
<1>4. held' = IF wire.qty <= held THEN held - wire.qty ELSE 0
  BY EffectQuantities DEF Outcomes
<1> QED
  BY <1>1, <1>2, <1>3, <1>4, ChaseAssumption

LEMMA ExchangeStepHeld == ASSUME IInv, QuantityInv, HeldInv, ExchangeStep PROVE HeldInv'
<1>0. /\ orders \in Seq(OrderRec) /\ held \in Nat /\ Executed \in Nat /\ Qty \in Nat
      /\ \A i \in DOMAIN orders : orders[i].executed \in Nat /\ orders[i].executed <= Qty
  BY ExecutedIsNat, ExecutedBounds, ChaseAssumption DEF IInv, TypeOK, QuantityInv, OrdersInv
<1>1. UNCHANGED <<kind, pc, order, result>>
  BY DEF ExchangeStep, Serve, ServeStray, ExchangeFill, ExchangeExpires, local
<1>2. /\ held' \in Nat /\ Executed' \in Nat
      /\ kind # "ENTRY" => held' <= held /\ held' + Executed' <= held + Executed
  <2>1. ASSUME NEW r \in stray \cup {wire}, NEW o \in Outcomes, Effect(r, o)
        PROVE  held' \in Nat /\ held' <= held /\ Executed' = Executed
    BY <2>1, EffectFacts, EffectQuantities
  <2>2. ASSUME NEW i \in DOMAIN orders, NEW q \in 1..Qty, ExchangeFill(i, q)
        PROVE  /\ held' \in Nat /\ Executed' \in Nat
               /\ kind # "ENTRY" => held' <= held /\ held' + Executed' <= held + Executed
    <3> DEFINE e == orders[i].executed + q
               s == IF e = Qty THEN "FILLED" ELSE "PARTIALLY_FILLED"
    <3>1. e \in Nat /\ s \in Status /\ e = orders[i].executed + q
      BY <1>0 DEF Status, LiveStatus
    <3>2. /\ orders' = WithOrder(i, s, e) /\ held' = (IF ReduceOnly THEN held - q ELSE held + q)
          /\ ReduceOnly => q <= held
      BY <2>2 DEF ExchangeFill
    <3> HIDE DEF e, s
    <3>3. Executed' = Executed - orders[i].executed + e
      BY <1>0, <3>1, <3>2, ExecutedChanges
    <3>4. Executed' = Executed + q /\ orders[i].executed \in Nat
      BY <1>0, <3>1, <3>3
    <3> QED
      BY <1>0, <3>2, <3>4 DEF ReduceOnly
  <2>3. ASSUME NEW i \in DOMAIN orders, ExchangeExpires(i)
        PROVE  held' = held /\ Executed' = Executed
    <3>1. PICK s \in {"EXPIRED", "CANCELED"} : orders' = WithOrder(i, s, orders[i].executed)
      BY <2>3 DEF ExchangeExpires
    <3>2. s \in Status /\ orders[i].executed \in Nat
      BY <1>0 DEF Status, DeadStatus
    <3> QED
      BY <1>0, <2>3, <3>1, <3>2, ExecutedChanges DEF ExchangeExpires
  <2>4. CASE \E o \in Outcomes : Serve(o)
    <3>1. wire \in stray \cup {wire} /\ \E o \in Outcomes : Effect(wire, o)
      BY <2>4 DEF Serve
    <3> QED
      BY <1>0, <2>1, <3>1
  <2>5. CASE \E r \in stray, o \in Outcomes : ServeStray(r, o)
    <3>1. PICK r \in stray, o \in Outcomes : ServeStray(r, o)
      BY <2>5
    <3>2. held' \in Nat /\ held' <= held /\ Executed' = Executed
      BY <2>1, <3>1 DEF ServeStray
    <3>3. \A a, b, c \in Nat : a <= b => a + c <= b + c
      OBVIOUS
    <3>4. held' + Executed' <= held + Executed
      BY <1>0, <3>2, <3>3, Zenon
    <3> QED
      BY <1>0, <3>2, <3>4
  <2>6. CASE \E i \in DOMAIN orders : ExchangeExpires(i)
    BY <1>0, <2>3, <2>6
  <2> QED
    BY <2>2, <2>4, <2>5, <2>6 DEF ExchangeStep
<1>3. ReduceOnly' => held' + Executed' <= Qty
  <2> SUFFICES ASSUME kind # "ENTRY" PROVE held' + Executed' <= Qty
    BY <1>1 DEF ReduceOnly
  <2>1. held + Executed <= Qty
    BY DEF HeldInv, ReduceOnly
  <2>2. held' \in Nat /\ Executed' \in Nat /\ held' + Executed' <= held + Executed
    BY <1>2
  <2>3. held \in Nat /\ Executed \in Nat /\ Qty \in Nat
    BY <1>0
  <2>4. \A a, b, c, d, q \in Nat : a + b <= c + d /\ c + d <= q => a + b <= q
    OBVIOUS
  <2> QED
    BY ONLY <2>1, <2>2, <2>3, <2>4, Zenon
<1>4. ASSUME pc = "market", rsp' # NoResponse, rsp'.outcome = "ok" PROVE held' = 0
  <2>1. kind # "ENTRY"
    BY <1>4 DEF QuantityInv, MarketInv
  <2>2. CASE rsp' = rsp
    BY <1>0, <1>2, <1>4, <2>1, <2>2 DEF HeldInv
  <2>3. ASSUME NEW o \in Outcomes, Serve(o) PROVE held' = 0
    <3>1. Effect(wire, o) /\ o = "ok" /\ wire # NoRequest
      BY <1>4, <2>3 DEF Serve, Answer, Effect, NoRequest
    <3>2. wire.op = "market"
      BY <1>4, <3>1 DEF IInv, WireInv, OpOf
    <3> QED
      BY <3>1, <3>2, MarketServed
  <2> QED
    BY <2>2, <2>3 DEF ExchangeStep, ServeStray, ExchangeFill, ExchangeExpires
<1>5. StopSuccessFlattens'
  BY <1>0, <1>1, <1>2 DEF HeldInv, StopSuccessFlattens
<1> QED
  BY <1>1, <1>3, <1>4, <1>5 DEF HeldInv, MarketFallback

LEMMA StepHeld == IInv /\ QuantityInv /\ HeldInv /\ [Next]_vars => HeldInv'
<1>1. ASSUME HeldInv, UNCHANGED vars PROVE HeldInv'
  BY <1>1 DEF vars, HeldInv, ReduceOnly, MarketFallback, StopSuccessFlattens, Executed
<1> QED
  BY <1>1, ResumeHeld, InterruptHeld, ExchangeStepHeld DEF Next, Finished

\* A chase that closes a position accounts for every part of it: what is left and what
\* its orders executed never exceed what it was started for.
THEOREM HeldInvariance == ASSUME SizedToPosition PROVE Spec => []HeldInv
<1> QED
  BY InitHeld, StepHeld, Invariance, QuantityInvariance, PTL DEF Spec

\* A stop reported as successful has closed the position it was started for
\* (main.py marks the position flat on it), after any partial fills, lost answers and
\* old snapshots, provided the chase was started for the whole position.
THEOREM StopFlattens == ASSUME SizedToPosition PROVE Spec => []StopSuccessFlattens
<1>1. HeldInv => StopSuccessFlattens
  BY DEF HeldInv
<1> QED
  BY <1>1, HeldInvariance, PTL
-----------------------------------------------------------------------------
(***************************************************************************)
(* The chase keeps to its contract.                                        *)
(***************************************************************************)
UnderWay == [how |-> "none", filled |-> 0]
Quits == [how |-> "silence", filled |-> 0]

LEMMA InitBegins == Init => Contract!Begins
<1> SUFFICES ASSUME Init PROVE Contract!Begins
  OBVIOUS
<1>1. Executed = 0
  BY ExecutedOfNone DEF Init
<1>2. ~Works
  BY DEF Init, Works, LiveOrders, NoRequest
<1>3. Told = UnderWay
  BY DEF Init, Told, Pending, UnderWay
<1> QED
  BY <1>1, <1>2, <1>3 DEF Contract!Begins, UnderWay

LEMMA NotTold ==
  ASSUME IInv, QuantityInv, pc # "done" PROVE Told = UnderWay
BY DEF IInv, EndInv, QuantityInv, ToldInv, Returned, Told, UnderWay

\* What a resumed coroutine has to tell.
LEMMA ResumeTells ==
  ASSUME IInv, QuantityInv, HeldInv, Resume
  PROVE  \/ Told' = Told
         \/ Told' = Quits
         \/ /\ wire' = wire /\ Returned'
            /\ \/ Told' = [how |-> "failure", filled |-> 0]
               \/ /\ Told'.how = "success"
                  /\ \/ Told'.filled \in 1..Executed
                     \/ kind # "ENTRY" /\ Told'.filled = Qty /\ held = 0
<1>0. /\ Executed \in Nat /\ Qty \in Nat \ {0}
      /\ order.executed \in Nat /\ order.executed <= Executed
      /\ rsp # NoResponse /\ rsp.outcome = "ok" /\ pc = "query" =>
           rsp.snap.executed \in Nat /\ rsp.snap.executed <= Executed
  BY SnapshotsTell, ChaseAssumption
<1> USE DEF Told, Returned, Quits
<1>1. CASE FirstTicker
  BY <1>1 DEF FirstTicker, Return, Raise
<1>2. CASE LoopTest \/ Ticker \/ AfterClose
  BY <1>0, <1>2
  DEF LoopTest, Ticker, AfterClose, LeaveLoop, Conclude, PlaceOrModify, Send, Return, Raise
<1>3. CASE AfterPlace \/ AfterModify \/ AfterPostOnlyRefusal \/ AfterAbort \/ AfterRefusal \/ WakeUp
  BY <1>3 DEF AfterPlace, AfterModify, AfterPostOnlyRefusal, AfterAbort, AfterRefusal, WakeUp, Send,
              Raise, Cancelled
<1>4. CASE AfterQuery
  <2>1. rsp # NoResponse /\ rsp.outcome = "ok" /\ pc = "query"
    BY <1>4 DEF AfterQuery, AnsweredOk, Answered
  <2>2. rsp.snap.status = "FILLED" => rsp.snap.executed = Qty
    BY <2>1 DEF QuantityInv, SnapInv, TrueOf
  <2> QED
    BY <1>0, <1>4, <2>1, <2>2 DEF AfterQuery, Send, Return
<1>5. CASE AfterAccept
  <2>1. order.status = "PARTIALLY_FILLED" /\ order # NoOrder
    BY <1>5 DEF AfterAccept, AnsweredOk, Answered, HeldInv, NoOrder
  <2>2. order.executed > 0
    BY <2>1 DEF QuantityInv, SnapInv, TrueOf
  <2> QED
    BY <1>0, <1>5, <2>2 DEF AfterAccept, Return
<1>6. CASE AfterMarket
  <2>1. held = 0 /\ kind # "ENTRY"
    BY <1>6 DEF AfterMarket, AnsweredOk, Answered, HeldInv, QuantityInv, MarketInv
  <2> QED
    BY <1>6, <2>1 DEF AfterMarket, Return
<1> QED
  BY <1>1, <1>2, <1>3, <1>4, <1>5, <1>6 DEF Resume

\* Behind a result nothing works: IInv, read in both states of the step.
LEMMA NothingWorks ==
  ASSUME IInv, Returned PROVE ~Works /\ LiveOrders = {} /\ stray = {} /\ wire = NoRequest
<1>1. Quiet /\ stray = {} /\ pc = "done"
  BY DEF IInv, EndInv, Returned
<1>2. wire = NoRequest
  BY <1>1 DEF IInv, WireInv, CallPcs
<1> QED
  BY <1>1, <1>2 DEF Quiet, LiveOrders, Works, NoRequest

LEMMA ResumeKeepsContract ==
  ASSUME IInv, QuantityInv, HeldInv, Resume PROVE Contract!ContractNext
<1>1. UNCHANGED <<kind, orders, held, stray>> /\ pc # "done"
  BY DEF Resume, FirstTicker, LoopTest, Ticker, LeaveLoop, Conclude, PlaceOrModify, AfterPlace,
         AfterModify, AfterPostOnlyRefusal, AfterQuery, AfterAccept, AfterClose, AfterMarket,
         AfterAbort, AfterRefusal, WakeUp, Send, Return, Raise, local, Exchange, Answered,
         AnsweredOk, CallPcs
<1>2. Executed' = Executed /\ LiveOrders' = LiveOrders
  BY <1>1 DEF Executed, LiveOrders, Live
<1>3. Works \in BOOLEAN /\ Works' \in BOOLEAN
  BY DEF Works
<1>4. Told = UnderWay
  BY <1>1, NotTold
<1>5. CASE Told' = Told
  BY <1>1, <1>2, <1>3, <1>4, <1>5 DEF Contract!ContractNext, Contract!Orders, UnderWay
<1>6. CASE Told' = Quits
  BY <1>1, <1>2, <1>3, <1>4, <1>6 DEF Contract!ContractNext, Contract!Breaks, UnderWay, Quits
<1>7. ASSUME wire' = wire, Returned',
             \/ Told' = [how |-> "failure", filled |-> 0]
             \/ /\ Told'.how = "success"
                /\ \/ Told'.filled \in 1..Executed
                   \/ kind # "ENTRY" /\ Told'.filled = Qty /\ held = 0
      PROVE  Contract!ContractNext
  <2>1. IInv'
    BY ResumeIInv
  <2>2. ~Works' /\ LiveOrders' = {} /\ stray' = {} /\ wire' = NoRequest
    <3>1. Quiet' /\ stray' = {} /\ pc' = "done"
      BY <1>7, <2>1 DEF IInv, EndInv, Returned
    <3>2. wire' = NoRequest
      BY <2>1, <3>1 DEF IInv, WireInv, CallPcs
    <3> QED
      BY <3>1, <3>2 DEF Quiet, LiveOrders, Works, NoRequest
  <2>3. ~Works
    BY <1>1, <1>2, <1>7, <2>2 DEF Works, NoRequest
  <2>4. UNCHANGED <<kind = "ENTRY", Executed, held>> /\ Told.how = "none"
    BY <1>1, <1>2, <1>4 DEF UnderWay
  <2>5. UNCHANGED Works
    BY <1>3, <2>2, <2>3
  <2> QED
    BY <1>7, <2>3, <2>4, <2>5 DEF Contract!ContractNext, Contract!Returns
<1> QED
  BY <1>5, <1>6, <1>7, ResumeTells
LEMMA InterruptKeepsContract ==
  ASSUME IInv, QuantityInv, Interrupt PROVE Contract!ContractNext
<1>1. UNCHANGED <<kind, orders, held>> /\ pc # "done"
  BY DEF Interrupt, CallTimesOut, TaskCancelled, CallIsSlow, local, Exchange, CallPcs
<1>2. Executed' = Executed
  BY <1>1 DEF Executed
<1>3. Works' \in BOOLEAN
  BY DEF Works
<1>4. Told = UnderWay
  BY <1>1, NotTold
<1>5. Told' = Quits \/ Told' = Told
  BY DEF Interrupt, CallTimesOut, TaskCancelled, CallIsSlow, Raise, Cancelled, Told, Quits
<1>6. CASE Told' = Told
  BY <1>1, <1>2, <1>3, <1>4, <1>6 DEF Contract!ContractNext, Contract!Orders, UnderWay
<1>7. CASE Told' = Quits
  BY <1>1, <1>2, <1>3, <1>4, <1>7 DEF Contract!ContractNext, Contract!Breaks, UnderWay, Quits
<1> QED
  BY <1>5, <1>6, <1>7

\* The exchange serves nothing and fills nothing for a chase that has returned.
LEMMA ExchangeKeepsContract ==
  ASSUME IInv, QuantityInv, ExchangeStep PROVE Contract!ContractNext
<1>0. /\ orders \in Seq(OrderRec) /\ held \in Nat /\ Executed \in Nat
      /\ \A i \in DOMAIN orders : orders[i].executed \in Nat
  BY ExecutedIsNat, ExecutedBounds DEF IInv, TypeOK
<1>1. UNCHANGED <<kind, result>> /\ Told' = Told
  BY DEF ExchangeStep, Serve, ServeStray, ExchangeFill, ExchangeExpires, local, Told
<1>2. Works' \in BOOLEAN /\ Works \in BOOLEAN
  BY DEF Works
<1>3. ~Returned
  <2> SUFFICES ASSUME Returned PROVE FALSE
    OBVIOUS
  <2>1. LiveOrders = {} /\ stray = {} /\ wire = NoRequest
    BY NothingWorks
  <2> QED
    BY <2>1 DEF ExchangeStep, Serve, ServeStray, ExchangeFill, ExchangeExpires, Effect, NoRequest
<1>4. Told.how \in {"none", "silence"}
  BY <1>3 DEF Told, Returned, IInv, TypeOK, ResultRec, ResultKinds
<1>5. ASSUME Executed' = Executed, held' = held PROVE Contract!ContractNext
  BY <1>1, <1>2, <1>4, <1>5 DEF Contract!ContractNext, Contract!Orders
<1>6. ASSUME NEW r \in stray \cup {wire}, NEW o \in Outcomes, Effect(r, o)
      PROVE  Contract!ContractNext
  <2>1. Executed' = Executed /\ held' <= held /\ (r.op # "market" => held' = held)
    BY <1>6, EffectQuantities
  <2>2. CASE r.op = "market"
    <3>1. Works /\ kind # "ENTRY"
      BY <2>2 DEF Works, QuantityInv, MarketInv
    <3> QED
      BY <1>0, <1>1, <1>2, <2>1, <3>1 DEF Contract!ContractNext, Contract!Trades
  <2> QED
    BY <1>5, <2>1, <2>2
<1>7. ASSUME NEW i \in DOMAIN orders, NEW q \in 1..Qty, ExchangeFill(i, q)
      PROVE  Contract!ContractNext
  <2> DEFINE e == orders[i].executed + q
             s == IF e = Qty THEN "FILLED" ELSE "PARTIALLY_FILLED"
  <2>1. e \in Nat /\ s \in Status /\ e = orders[i].executed + q
    BY <1>0 DEF Status, LiveStatus
  <2>2. orders' = WithOrder(i, s, e) /\ held' = (IF ReduceOnly THEN held - q ELSE held + q)
    BY <1>7 DEF ExchangeFill
  <2> HIDE DEF e, s
  <2>3. Executed' = Executed - orders[i].executed + e
    BY <1>0, <2>1, <2>2, ExecutedChanges
  <2>4. Executed' = Executed + q /\ orders[i].executed \in Nat
    BY <1>0, <2>1, <2>3
  <2>5. Executed' >= Executed
        /\ IF kind = "ENTRY" THEN held' - held = Executed' - Executed ELSE held' <= held
    BY <1>0, <2>2, <2>4 DEF ReduceOnly
  <2>6. Works
    BY <1>7 DEF Works, ExchangeFill
  <2> QED
    BY <1>1, <1>2, <2>5, <2>6 DEF Contract!ContractNext, Contract!Trades
<1>8. ASSUME NEW i \in DOMAIN orders, ExchangeExpires(i) PROVE Contract!ContractNext
  <2>1. PICK s \in {"EXPIRED", "CANCELED"} : orders' = WithOrder(i, s, orders[i].executed)
    BY <1>8 DEF ExchangeExpires
  <2>2. s \in Status /\ orders[i].executed \in Nat
    BY <1>0 DEF Status, DeadStatus
  <2>3. Executed' = Executed
    BY <1>0, <2>1, <2>2, ExecutedChanges
  <2> QED
    BY <1>5, <1>8, <2>3 DEF ExchangeExpires
<1>9. CASE \E o \in Outcomes : Serve(o)
  <2>1. wire \in stray \cup {wire} /\ \E o \in Outcomes : Effect(wire, o)
    BY <1>9 DEF Serve
  <2> QED
    BY <1>6, <2>1
<1>10. CASE \E r \in stray, o \in Outcomes : ServeStray(r, o)
  <2>1. PICK r \in stray, o \in Outcomes : ServeStray(r, o)
    BY <1>10
  <2> QED
    BY <1>6, <2>1 DEF ServeStray
<1> QED
  BY <1>7, <1>8, <1>9, <1>10 DEF ExchangeStep

LEMMA StepKeepsContract ==
  IInv /\ QuantityInv /\ HeldInv /\ [Next]_vars => [Contract!ContractNext]_(Contract!contractVars)
<1> SUFFICES ASSUME IInv, QuantityInv, HeldInv, [Next]_vars
             PROVE  Contract!ContractNext \/ UNCHANGED Contract!contractVars
  OBVIOUS
<1>1. CASE UNCHANGED vars
  BY <1>1 DEF vars, Contract!contractVars, Works, LiveOrders, Live, Executed, Told
<1> QED
  BY <1>1, ResumeKeepsContract, InterruptKeepsContract, ExchangeKeepsContract DEF Next, Finished

\* MakerChaser keeps to what run_live_entry, run_live_stop and run_live_reversal take a
\* chase for (main.py:185-292): every step of the coroutine, of the exchange and of every
\* disturbance is a step of ChaseContract or none.
THEOREM KeepsContract == ASSUME SizedToPosition PROVE Spec => ImplementsContract
<1> QED
  BY InitBegins, StepKeepsContract, Invariance, QuantityInvariance, HeldInvariance, PTL
  DEF Spec, ImplementsContract, Contract!ContractSpec
-----------------------------------------------------------------------------
(***************************************************************************)
(* The dry run.  DryRunExchange moves an order only while it is queried    *)
(* (dry_run_exchange.py), so between two queries the snapshot is exact,    *)
(* and so is what the chase reports.                                       *)
(***************************************************************************)
LEMMA DryIsSized == InDryRun => SizedToPosition
BY ChaseAssumption DEF InDryRun, SizedToPosition

LEMMA ExecutedOfOne ==
  ASSUME orders \in Seq(OrderRec), Len(orders) = 1
  PROVE  Executed = orders[1].executed
<1> DEFINE f == [i \in DOMAIN orders |-> orders[i].executed]
           none == [i \in {} |-> 0]
<1>1. DOMAIN orders = {1}
  OBVIOUS
<1>2. f \in [{1} -> Int] /\ f[1] = orders[1].executed
  BY <1>1, ExecutedIsNat
<1>3. none \in [{} -> Int] /\ DOMAIN none = {}
  OBVIOUS
<1>4. Executed = SumFunction(f)
  BY DEF Executed
<1> HIDE DEF f, none
<1>5. SumFunction(none) = 0
  BY <1>3, SumOfNone DEF SumFunction
<1>6. SumFunction(f) = SumFunction(none) + f[1]
  <2> DEFINE E == {}
             R == {1}
  <2>1. IsFiniteSet(E) /\ 1 \notin E /\ R = E \cup {1} /\ \A y \in E : f[y] = none[y]
    BY FS_EmptySet
  <2>2. none \in [E -> Int] /\ f \in [R -> Int]
    BY <1>2, <1>3
  <2> HIDE DEF E, R
  <2> QED
    BY ONLY <2>1, <2>2, SumGrows
<1> QED
  BY <1>2, <1>4, <1>5, <1>6, ExecutedIsNat

\* The youngest order, where there is one, is the only one.
LEMMA OneOrderExecuted ==
  ASSUME IInv, OneOrderInv, NEW t \in SnapRec, t.id = Len(orders),
         t.id > 0 => t.executed = orders[t.id].executed,
         t.id = 0 => t.executed = 0
  PROVE  t.executed = Executed
<1>0. orders \in Seq(OrderRec)
  BY DEF IInv, TypeOK
<1>1. Len(orders) \in {0, 1}
  <2>1. Len(orders) \in Nat /\ Len(orders) <= 1
    BY <1>0 DEF OneOrderInv
  <2>2. \A n \in Nat : n <= 1 => n \in {0, 1}
    OBVIOUS
  <2> QED
    BY <2>1, <2>2
<1>2. CASE Len(orders) = 0
  BY <1>0, <1>2, ExecutedOfNone
<1>3. CASE Len(orders) = 1
  BY <1>0, <1>3, ExecutedOfOne
<1> QED
  BY <1>1, <1>2, <1>3

LEMMA InitDry == InDryRun /\ Init => DryInv
<1> SUFFICES ASSUME InDryRun, Init PROVE DryInv
  OBVIOUS
<1>1. Executed = 0
  BY ExecutedOfNone DEF Init
<1>2. OneOrderInv /\ DeadInv /\ ExactInv /\ ReportIsExact
  BY DEF Init, OneOrderInv, DeadInv, ExactInv, ReportIsExact, Returned, NoRequest, NoResponse, NoOrder,
         DeadStatus, Pending
<1>3. BalanceInv
  BY <1>1, ChaseAssumption DEF Init, BalanceInv, ReduceOnly, InDryRun
<1> QED
  BY <1>2, <1>3 DEF DryInv

\* At an await that is not a query the snapshot tells what was executed.
LEMMA SnapshotIsExact ==
  ASSUME IInv, DryInv, pc \notin {"place", "query", "abort", "done"}
  PROVE  order.executed = Executed
<1>1. order.id = Len(orders) /\ order \in SnapRec
  BY DEF IInv, LatestInv, TypeOK
<1>2. order = NoOrder \/ (order # NoOrder /\ order.executed = orders[order.id].executed)
  BY DEF DryInv, ExactInv
<1>3. order # NoOrder => order.id > 0
  BY DEF IInv, KnownInv, TypeOK
<1>4. order = NoOrder => order.id = 0 /\ order.executed = 0
  BY DEF NoOrder
<1> QED
  BY <1>1, <1>2, <1>3, <1>4, OneOrderExecuted DEF DryInv

LEMMA AnswerIsExact ==
  ASSUME IInv, DryInv, pc = "query", rsp # NoResponse, rsp.outcome = "ok"
  PROVE  rsp.snap.executed = Executed
<1>1. rsp.snap \in SnapRec /\ rsp.snap.id = Len(orders) /\ Len(orders) > 0
  BY DEF IInv, TypeOK, ResponseRec, AnswerInv
<1>2. rsp.snap.executed = orders[rsp.snap.id].executed
  BY DEF DryInv, ExactInv
<1> QED
  BY <1>1, <1>2, OneOrderExecuted DEF DryInv

LEMMA ResumeDry == ASSUME IInv, QuantityInv, HeldInv, DryInv, Resume PROVE DryInv'
<1>1. UNCHANGED <<kind, orders, held, stray>> /\ result.kind = "none" /\ pc # "done"
  BY DEF Resume, FirstTicker, LoopTest, Ticker, LeaveLoop, Conclude, PlaceOrModify, AfterPlace,
         AfterModify, AfterPostOnlyRefusal, AfterQuery, AfterAccept, AfterClose, AfterMarket,
         AfterAbort, AfterRefusal, WakeUp, Send, Return, Raise, local, Exchange, Answered,
         AnsweredOk, IInv, EndInv, CallPcs
<1>2. Executed' = Executed
  BY <1>1 DEF Executed
<1>3. OneOrderInv'
  <2>1. wire' = wire \/ wire'.op # "place"
          \/ (wire'.op = "place" /\ pc \in {"loop", "ticker"} /\ (order = NoOrder \/ order.status \in DeadStatus))
    BY DEF Resume, FirstTicker, LoopTest, Ticker, LeaveLoop, Conclude, PlaceOrModify, AfterPlace,
           AfterModify, AfterPostOnlyRefusal, AfterQuery, AfterAccept, AfterClose, AfterMarket,
           AfterAbort, AfterRefusal, WakeUp, Send, Return, Raise
  <2>2. pc \in {"loop", "ticker"} /\ order = NoOrder => orders = <<>>
    BY DEF IInv, LatestInv, NoOrder, TypeOK
  <2>3. pc \in {"loop", "ticker"} /\ order.status \in DeadStatus => Closed
    BY DEF DryInv, DeadInv, Ending
  <2> QED
    BY <1>1, <2>1, <2>2, <2>3 DEF DryInv, OneOrderInv, Closed, ReduceOnly
<1>4. DeadInv'
  <2>1. pc' \notin Ending => pc \notin Ending
    BY DEF Resume, FirstTicker, LoopTest, Ticker, LeaveLoop, Conclude, PlaceOrModify, AfterPlace,
           AfterModify, AfterPostOnlyRefusal, AfterQuery, AfterAccept, AfterClose, AfterMarket,
           AfterAbort, AfterRefusal, WakeUp, Send, Return, Raise, Cancelled, AnsweredOk, Answered,
           Ending
  <2>2. /\ order' = order \/ (order' = rsp.snap /\ rsp # NoResponse)
        /\ rsp' = rsp \/ rsp' = NoResponse
    BY DEF Resume, FirstTicker, LoopTest, Ticker, AfterPlace, AfterModify, AfterPostOnlyRefusal,
           AfterQuery, AfterAccept, AfterClose, AfterMarket, AfterAbort, AfterRefusal, WakeUp,
           local, AnsweredOk, Answered
  <2> QED
    BY <1>1, <2>1, <2>2 DEF DryInv, DeadInv, Closed, ReduceOnly
<1>5. ExactInv'
  <2>1. CASE AfterQuery
    BY <1>1, <2>1 DEF AfterQuery, AnsweredOk, Answered, DryInv, ExactInv
  <2>2. CASE AfterPlace \/ AfterModify
    BY <2>2 DEF AfterPlace, AfterModify, AnsweredOk, Answered, Send, ExactInv
  <2>3. CASE FirstTicker \/ LoopTest \/ Ticker \/ AfterPostOnlyRefusal \/ AfterAccept \/ AfterClose
             \/ AfterMarket \/ AfterAbort \/ AfterRefusal \/ WakeUp
    <3>1. order' = order /\ pc' # "query" /\ (pc \in {"query", "abort", "done"} => pc' = "done")
      BY <2>3
      DEF FirstTicker, LoopTest, Ticker, LeaveLoop, Conclude, PlaceOrModify, AfterPostOnlyRefusal,
          AfterAccept, AfterClose, AfterMarket, AfterAbort, AfterRefusal, WakeUp, Send, Return,
          Raise, Cancelled, AnsweredOk, Answered, local
    <3> QED
      BY <1>1, <3>1 DEF DryInv, ExactInv
  <2> QED
    BY <2>1, <2>2, <2>3 DEF Resume
<1>6. BalanceInv'
  <2>1. pc \in {"market", "abort"} => pc' = "done"
    BY DEF Resume, FirstTicker, LoopTest, Ticker, AfterPlace, AfterModify, AfterPostOnlyRefusal,
           AfterQuery, AfterAccept, AfterClose, AfterMarket, AfterAbort, AfterRefusal, WakeUp,
           AnsweredOk, Answered, Return, Raise, Cancelled
  <2> QED
    BY <1>1, <1>2, <2>1 DEF DryInv, BalanceInv, ReduceOnly
<1>7. ReportIsExact'
  <2> DEFINE Done(q) == q = IF ReduceOnly THEN Qty - held ELSE held
  <2>0. held \in Nat /\ Executed \in Nat /\ Qty \in Nat
    BY SnapshotsTell, ChaseAssumption DEF IInv, TypeOK
  <2>1. pc \notin {"market", "abort"} => Done(Executed)
    BY <1>1, <2>0 DEF DryInv, BalanceInv
  <2>2. CASE FirstTicker \/ LoopTest \/ Ticker \/ AfterClose \/ AfterAccept
    <3>1. pc \notin {"place", "query", "abort", "done", "market"}
      BY <2>2 DEF FirstTicker, LoopTest, Ticker, AfterClose, AfterAccept, AnsweredOk, Answered
    <3>2. order.executed = Executed /\ Done(order.executed)
      BY <2>1, <3>1, SnapshotIsExact
    <3>3. Returned' => result'.filled = order.executed
      BY <1>1, <2>0, <2>2, <3>2
      DEF FirstTicker, LoopTest, Ticker, LeaveLoop, Conclude, PlaceOrModify, AfterClose,
          AfterAccept, Send, Return, Raise, Returned, IInv, CallInv, NoOrder
    <3> QED
      BY <1>1, <3>2, <3>3 DEF ReportIsExact, ReduceOnly
  <2>3. CASE AfterQuery
    <3>1. rsp.snap.executed = Executed /\ pc \notin {"market", "abort"}
      BY <2>3, AnswerIsExact DEF AfterQuery, AnsweredOk, Answered
    <3>2. Returned' => result'.filled = rsp.snap.executed
      BY <1>1, <2>3 DEF AfterQuery, Send, Return, Returned
    <3> QED
      BY <1>1, <2>1, <3>1, <3>2 DEF ReportIsExact, ReduceOnly
  <2>4. CASE AfterMarket
    <3>1. held = 0 /\ kind = "STOP"
      BY <2>4 DEF AfterMarket, AnsweredOk, Answered, HeldInv, QuantityInv, MarketInv
    <3> QED
      BY <1>1, <2>0, <2>4, <3>1 DEF AfterMarket, Return, ReportIsExact, ReduceOnly
  <2>5. CASE AfterPlace \/ AfterModify \/ AfterPostOnlyRefusal \/ AfterAbort \/ AfterRefusal \/ WakeUp
    BY <1>1, <2>5
    DEF AfterPlace, AfterModify, AfterPostOnlyRefusal, AfterAbort, AfterRefusal, WakeUp, Send,
        Raise, Cancelled, ReportIsExact, Returned
  <2> QED
    BY <2>2, <2>3, <2>4, <2>5 DEF Resume
<1> QED
  BY <1>3, <1>4, <1>5, <1>6, <1>7 DEF DryInv

LEMMA InterruptDry == ASSUME IInv, DryInv, Interrupt PROVE DryInv'
<1> USE DEF local, Exchange
<1>1. UNCHANGED <<kind, order, orders, held>>
  BY DEF Interrupt, CallTimesOut, TaskCancelled, CallIsSlow
<1>2. Executed' = Executed
  BY <1>1 DEF Executed
<1>3. OneOrderInv'
  BY <1>1 DEF Interrupt, CallTimesOut, TaskCancelled, CallIsSlow, Abandon, NoRequest, Closed,
              ReduceOnly, DryInv, OneOrderInv
<1>4. pc' \in {"abort", "done"} \/ UNCHANGED <<pc, rsp>>
  BY DEF Interrupt, CallTimesOut, TaskCancelled, CallIsSlow, Raise, Cancelled
<1>5. DeadInv' /\ ExactInv'
  BY <1>1, <1>4 DEF DryInv, DeadInv, ExactInv, Closed, ReduceOnly, Ending
<1>6. BalanceInv'
  <2>1. pc \in {"market", "abort", "done"} => pc' \in {"market", "abort", "done"}
    BY DEF Interrupt, CallTimesOut, TaskCancelled, CallIsSlow, Raise, Cancelled, CallPcs, TryPcs
  <2> QED
    BY <1>1, <1>2, <2>1 DEF DryInv, BalanceInv, ReduceOnly
<1>7. ReportIsExact'
  BY <1>1 DEF Interrupt, CallTimesOut, TaskCancelled, CallIsSlow, Raise, Cancelled, DryInv,
              ReportIsExact, Returned, ReduceOnly
<1> QED
  BY <1>3, <1>5, <1>6, <1>7 DEF DryInv

\* A request that is served.
LEMMA EffectDry ==
  ASSUME IInv, QuantityInv, HeldInv, DryInv, ~Returned, UNCHANGED <<local, pc, result>>,
         NEW r \in stray \cup {wire}, NEW o \in Outcomes, Effect(r, o)
  PROVE  /\ Len(orders') <= 1
         /\ r.op # "place" => Len(orders') = Len(orders)
         /\ Closed => Closed'
         /\ order # NoOrder => orders'[order.id].executed = orders[order.id].executed
         /\ BalanceInv'
         /\ ReportIsExact'
<1>0. /\ orders \in Seq(OrderRec) /\ held \in Nat /\ held' \in Nat /\ Executed \in Nat /\ Qty \in Nat
  BY EffectFacts, ExecutedBounds, ChaseAssumption DEF IInv, TypeOK
<1>1. /\ Executed' = Executed
      /\ \A i \in DOMAIN orders : i \in DOMAIN orders' /\ orders'[i].executed = orders[i].executed
      /\ held' <= held /\ (r.op # "market" => held' = held)
      /\ r.op = "market" /\ o = "ok" => held' = IF r.qty <= held THEN held - r.qty ELSE 0
  BY EffectQuantities
<1>2. UNCHANGED <<kind, order>>
  BY DEF local
<1>3. Len(orders') <= 1 /\ (r.op # "place" => Len(orders') = Len(orders))
  <2>1. CASE r.op = "place" /\ PlaceEffect(o) /\ o = "ok"
    <3>1. orders = <<>> /\ orders' = Append(orders, [status |-> "NEW", executed |-> 0])
      BY <1>0, <2>1 DEF PlaceEffect, DryInv, OneOrderInv, Closed, WouldTake
    <3> QED
      BY <2>1, <3>1
  <2>2. CASE ~(r.op = "place" /\ PlaceEffect(o) /\ o = "ok")
    <3>1. Len(orders') = Len(orders)
      <4>1. r.op # "place" => Len(orders') = Len(orders)
        BY EffectFacts
      <4>2. CASE r.op = "place"
        BY <2>2, <4>2 DEF Effect, PlaceEffect, RefusedAnyway, WouldTake
      <4> QED
        BY <4>1, <4>2
    <3> QED
      BY <3>1 DEF DryInv, OneOrderInv
  <2> QED
    BY <2>1, <2>2
<1>4. Closed => Closed'
  BY <1>0, <1>1, <1>2 DEF Closed, ReduceOnly
<1>5. order # NoOrder => orders'[order.id].executed = orders[order.id].executed
  BY <1>1 DEF IInv, KnownInv
<1>6. BalanceInv'
  <2>1. CASE r.op # "market"
    BY <1>1, <1>2, <2>1 DEF DryInv, BalanceInv, ReduceOnly
  <2>2. CASE r.op = "market"
    <3>1. kind = "STOP" /\ r.qty = Qty - order.executed
      BY <2>2 DEF QuantityInv, MarketInv
    <3>2. held <= r.qty /\ r.qty \in Int
      BY <1>0, <3>1, SnapshotsTell DEF HeldInv, ReduceOnly
    <3>3. held' = held \/ held' = 0
      BY <1>0, <2>2, <3>2 DEF Effect, MarketEffect, RefusedAnyway
    <3>4. pc \in {"market", "abort", "done"}
      <4>1. r = wire => pc = "market"
        BY <2>2 DEF IInv, WireInv, OpOf, NoRequest, CallPcs
      <4>2. r # wire => pc \in {"abort", "done"}
        BY DEF IInv, StrayInv
      <4> QED
        BY <4>1, <4>2
    <3> QED
      BY <1>1, <1>2, <3>1, <3>3, <3>4 DEF DryInv, BalanceInv, ReduceOnly
  <2> QED
    BY <2>1, <2>2
<1>7. ReportIsExact'
  BY DEF ReportIsExact, Returned
<1> QED
  BY <1>3, <1>4, <1>5, <1>6, <1>7

LEMMA ServeDry ==
  ASSUME IInv, QuantityInv, HeldInv, DryInv, NEW o \in Outcomes, Serve(o) PROVE DryInv'
<1>0. /\ wire # NoRequest /\ wire \in stray \cup {wire} /\ Effect(wire, o)
      /\ UNCHANGED <<local, pc, stray, result>> /\ wire' = NoRequest /\ rsp' = Answer(wire, o)
  BY DEF Serve, Effect, NoRequest
<1>1. pc \in CallPcs /\ wire.op = OpOf(pc) /\ ~Returned
  BY <1>0 DEF IInv, WireInv, EndInv, Returned, CallPcs
<1>2. /\ Len(orders') <= 1
      /\ wire.op # "place" => Len(orders') = Len(orders)
      /\ Closed => Closed'
      /\ order # NoOrder => orders'[order.id].executed = orders[order.id].executed
      /\ BalanceInv' /\ ReportIsExact'
  BY <1>0, <1>1, EffectDry
<1>3. /\ orders \in Seq(OrderRec) /\ orders' \in Seq(OrderRec)
      /\ wire.op = "place" /\ o = "ok" => Len(orders') > 0
  BY <1>0, EffectFacts DEF IInv, TypeOK
<1>4. /\ \A i \in DOMAIN orders :
           /\ i \in DOMAIN orders' /\ orders'[i].executed = orders[i].executed
           /\ orders'[i].status \in {orders[i].status, "CANCELED"}
      /\ \A i \in DOMAIN orders' :
           i \in DOMAIN orders \/ orders'[i] = [status |-> "NEW", executed |-> 0]
  BY <1>0, EffectQuantities
<1>5. OneOrderInv'
  <2> SUFFICES ASSUME NEW r \in stray, r.op = "place" PROVE orders' = <<>> \/ Closed'
    BY <1>0, <1>2 DEF OneOrderInv, NoRequest
  <2>1. wire.op # "place"
    BY <1>1 DEF IInv, StrayInv, OpOf, CallPcs
  <2>2. orders = <<>> => orders' = <<>>
    BY <1>2, <1>3, <2>1
  <2> QED
    BY <1>2, <2>2 DEF DryInv, OneOrderInv
<1>6. DeadInv'
  <2> SUFFICES ASSUME pc \notin Ending
               PROVE  /\ \A i \in DOMAIN orders' : orders'[i].status \in DeadStatus => Closed'
                      /\ order.status \in DeadStatus => Closed'
                      /\ rsp'.snap.status \in DeadStatus => Closed'
    BY <1>0 DEF DeadInv, local
  <2>1. wire.op \in {"place", "modify", "query"}
    BY <1>1 DEF OpOf, CallPcs, Ending
  <2>2. \A i \in DOMAIN orders' : orders'[i].status \in DeadStatus => Closed'
    <3>1. orders' = orders \/ orders' = Append(orders, [status |-> "NEW", executed |-> 0])
      BY <1>0, <2>1
      DEF Effect, PlaceEffect, ModifyEffect, QueryEffect, RefusedAnyway, WouldTake
    <3>2. \A i \in DOMAIN orders' :
            (i \in DOMAIN orders /\ orders'[i] = orders[i]) \/ orders'[i].status = "NEW"
      BY <1>3, <3>1
    <3> QED
      BY <1>2, <3>2 DEF DryInv, DeadInv, DeadStatus
  <2>3. rsp'.snap.status = "NONE" \/ \E i \in DOMAIN orders' : rsp'.snap.status = orders'[i].status
    <3>1. CASE o = "ok"
      <4>1. Described(wire) \in DOMAIN orders'
        <5>1. CASE wire.op = "place"
          BY <1>3, <3>1, <5>1 DEF Described
        <5>2. CASE wire.op \in {"modify", "query"}
          BY <1>4, <5>2 DEF Described, IInv, RefInv
        <5> QED
          BY <2>1, <5>1, <5>2
      <4> QED
        BY <1>0, <2>1, <3>1, <4>1 DEF Answer
    <3>2. CASE o # "ok"
      BY <1>0, <3>2 DEF Answer, NoOrder
    <3> QED
      BY <3>1, <3>2
  <2>4. rsp'.snap.status \in DeadStatus => Closed'
    BY <2>2, <2>3 DEF DeadStatus
  <2> QED
    BY <1>2, <2>2, <2>4 DEF DryInv, DeadInv
<1>7. ExactInv'
  <2>1. ASSUME pc = "query", o = "ok"
        PROVE  rsp'.snap.executed = orders'[rsp'.snap.id].executed
    BY <1>0, <1>1, <2>1 DEF Answer, OpOf
  <2> QED
    BY <1>0, <1>2, <2>1 DEF DryInv, ExactInv, Answer, local
<1> QED
  BY <1>2, <1>5, <1>6, <1>7 DEF DryInv

LEMMA ServeStrayDry ==
  ASSUME IInv, QuantityInv, HeldInv, DryInv, NEW r \in stray, NEW o \in Outcomes, ServeStray(r, o)
  PROVE  DryInv'
<1>0. /\ r \in stray \cup {wire} /\ Effect(r, o) /\ stray' = stray \ {r}
      /\ UNCHANGED <<local, pc, wire, rsp, result>>
  BY DEF ServeStray
<1>1. pc \in {"abort", "done"} /\ ~Returned
  BY DEF IInv, StrayInv, EndInv
<1>2. /\ Len(orders') <= 1
      /\ r.op # "place" => Len(orders') = Len(orders)
      /\ Closed => Closed'
      /\ BalanceInv' /\ ReportIsExact'
  BY <1>0, <1>1, EffectDry
<1>3. orders \in Seq(OrderRec) /\ orders' \in Seq(OrderRec)
  BY <1>0, EffectFacts DEF IInv, TypeOK
<1>4. OneOrderInv'
  <2> SUFFICES ASSUME NEW t \in (stray \ {r}) \cup {wire}, t.op = "place"
               PROVE  orders' = <<>> \/ Closed'
    BY <1>0, <1>2 DEF OneOrderInv
  <2>1. r.op # "place"
    BY <1>1 DEF IInv, RefInv, WireInv, OpOf, NoRequest, CallPcs
  <2>2. orders = <<>> => orders' = <<>>
    BY <1>2, <1>3, <2>1
  <2> QED
    BY <1>2, <2>2 DEF DryInv, OneOrderInv
<1>5. DeadInv' /\ ExactInv'
  BY <1>0, <1>1 DEF DeadInv, ExactInv, Ending
<1> QED
  BY <1>2, <1>4, <1>5 DEF DryInv

\* An order fills while it is queried, and before the query is answered.
LEMMA FillDry ==
  ASSUME InDryRun, IInv, DryInv, NEW i \in DOMAIN orders, NEW q \in 1..Qty, ExchangeFill(i, q)
  PROVE  DryInv'
<1>0. /\ orders \in Seq(OrderRec) /\ held \in Nat /\ Executed \in Nat /\ Qty \in Nat
      /\ \A j \in DOMAIN orders : orders[j].executed \in Nat
  BY ExecutedIsNat, ExecutedBounds, ChaseAssumption DEF IInv, TypeOK
<1> DEFINE e == orders[i].executed + q
           s == IF e = Qty THEN "FILLED" ELSE "PARTIALLY_FILLED"
<1>1. e \in Nat /\ s \in Status /\ e = orders[i].executed + q /\ s \notin DeadStatus
  BY <1>0 DEF Status, LiveStatus, DeadStatus
<1>2. /\ orders' = WithOrder(i, s, e) /\ held' = (IF ReduceOnly THEN held - q ELSE held + q)
      /\ ReduceOnly => q <= held
      /\ UNCHANGED <<local, pc, wire, rsp, stray, result>> /\ wire.op = "query" /\ i \in LiveOrders
  BY DEF ExchangeFill, MayFill, InDryRun
<1> HIDE DEF e, s
<1>3. pc = "query" /\ rsp = NoResponse
  BY <1>2 DEF IInv, WireInv, OpOf, NoRequest, CallPcs
<1>4. Executed' = Executed + q
  <2>1. Executed' = Executed - orders[i].executed + e
    BY <1>0, <1>1, <1>2, ExecutedChanges
  <2>2. orders[i].executed \in Nat
    BY <1>0
  <2> QED
    BY <1>0, <1>1, <2>1, <2>2
<1>5. /\ DOMAIN orders' = DOMAIN orders /\ Len(orders') = Len(orders) /\ orders'[i].status = s
      /\ \A j \in DOMAIN orders : j # i => orders'[j] = orders[j]
  BY <1>0, <1>1, <1>2, WithOrderFacts
<1>6. ~Closed
  BY <1>0, <1>2 DEF Closed
<1>7. OneOrderInv'
  BY <1>2, <1>5, <1>6 DEF DryInv, OneOrderInv
<1>8. DeadInv'
  BY <1>1, <1>2, <1>3, <1>5, <1>6 DEF DryInv, DeadInv, Ending, local
<1>9. ExactInv'
  BY <1>2, <1>3 DEF ExactInv
<1>10. BalanceInv'
  BY <1>0, <1>2, <1>3, <1>4 DEF DryInv, BalanceInv, ReduceOnly, local
<1>11. ReportIsExact'
  BY <1>2, <1>3 DEF ReportIsExact, Returned, IInv, EndInv
<1> QED
  BY <1>7, <1>8, <1>9, <1>10, <1>11 DEF DryInv

LEMMA ExpireDry ==
  ASSUME InDryRun, IInv, DryInv, NEW i \in DOMAIN orders, ExchangeExpires(i)
  PROVE  DryInv'
<1>0. orders \in Seq(OrderRec) /\ \A j \in DOMAIN orders : orders[j].executed \in Nat
  BY ExecutedIsNat DEF IInv, TypeOK
<1>1. PICK s \in {"EXPIRED", "CANCELED"} : orders' = WithOrder(i, s, orders[i].executed)
  BY DEF ExchangeExpires
<1>2. s \in Status /\ UNCHANGED <<local, pc, wire, rsp, stray, held, result>> /\ Closed /\ i \in LiveOrders
  BY DEF ExchangeExpires, InDryRun, Closed, Status, DeadStatus
<1>3. Executed' = Executed
  BY <1>0, <1>1, <1>2, ExecutedChanges, ExecutedBounds
<1>4. Len(orders') = Len(orders) /\ \A j \in DOMAIN orders : orders'[j].executed = orders[j].executed
  BY <1>0, <1>1 DEF WithOrder
<1>5. Closed'
  BY <1>2 DEF Closed, ReduceOnly, local
<1>6. OneOrderInv' /\ DeadInv'
  BY <1>2, <1>4, <1>5 DEF DryInv, OneOrderInv, DeadInv
<1>7. ExactInv'
  <2>1. order # NoOrder => order.id \in DOMAIN orders
    BY DEF IInv, KnownInv
  <2>2. pc = "query" /\ rsp # NoResponse /\ rsp.outcome = "ok" => rsp.snap.id \in DOMAIN orders
    BY <1>0 DEF IInv, AnswerInv
  <2> QED
    BY <1>2, <1>4, <2>1, <2>2 DEF DryInv, ExactInv, local
<1>8. BalanceInv' /\ ReportIsExact'
  BY <1>2, <1>3 DEF DryInv, BalanceInv, ReportIsExact, Returned, ReduceOnly, local
<1> QED
  BY <1>6, <1>7, <1>8 DEF DryInv

LEMMA StepDry ==
  InDryRun /\ IInv /\ QuantityInv /\ HeldInv /\ DryInv /\ [Next]_vars => DryInv'
<1>1. ASSUME DryInv, UNCHANGED vars PROVE DryInv'
  BY <1>1 DEF vars, DryInv, OneOrderInv, DeadInv, ExactInv, BalanceInv, ReportIsExact, Closed,
              ReduceOnly, Returned, Executed
<1> QED
  BY <1>1, ResumeDry, InterruptDry, ServeDry, ServeStrayDry, FillDry, ExpireDry
  DEF Next, Finished, ExchangeStep

\* In the dry run a chase works one order, and knows exactly what it executed whenever no
\* query is under way.
THEOREM DryInvariance == ASSUME InDryRun PROVE Spec => []DryInv
<1>1. SizedToPosition
  BY DryIsSized
<1> QED
  BY <1>1, InitDry, StepDry, Invariance, QuantityInvariance, HeldInvariance, PTL DEF Spec

\* What a chase of the dry run reports is exactly what it changed of the position
\* (execution_maker_chaser.py:226-312).
THEOREM DryReportIsExact == ASSUME InDryRun PROVE Spec => []ReportIsExact
<1>1. DryInv => ReportIsExact
  BY DEF DryInv
<1> QED
  BY <1>1, DryInvariance, PTL

\* In the dry run an entry never buys more than the quantity it was sized for.
THEOREM DryEntryWithinRequest == ASSUME InDryRun PROVE Spec => []EntryWithinRequest
<1>1. IInv /\ QuantityInv /\ DryInv => EntryWithinRequest
  <2> SUFFICES ASSUME IInv, QuantityInv, DryInv PROVE Executed <= Qty
    BY DEF EntryWithinRequest
  <2>1. orders \in Seq(OrderRec) /\ Len(orders) \in Nat /\ Len(orders) <= 1
    BY DEF IInv, TypeOK, DryInv, OneOrderInv
  <2>2. CASE Len(orders) = 0
    BY <2>1, <2>2, ExecutedOfNone, ChaseAssumption
  <2>3. CASE Len(orders) = 1
    <3>1. 1 \in DOMAIN orders
      BY <2>1, <2>3
    <3>2. orders[1].executed <= Qty
      BY <3>1 DEF QuantityInv, OrdersInv
    <3> QED
      BY <2>1, <2>3, <3>2, ExecutedOfOne
  <2>4. \A n \in Nat : n <= 1 => n \in {0, 1}
    OBVIOUS
  <2> QED
    BY <2>1, <2>2, <2>3, <2>4
<1> QED
  BY <1>1, Invariance, QuantityInvariance, DryInvariance, PTL
=============================================================================
