------------------------- MODULE LiveStrategyProofs ------------------------
(***************************************************************************)
(* The live session keeps the protocol of PositionProtocol, for every      *)
(* quantity, limit, configuration and set of disturbances, and what the    *)
(* protocol promises.                                                      *)
(*                                                                         *)
(* Of the exchange nothing is needed: what the session believes and saves  *)
(* changes only where a task ends, and no two of those can be at odds      *)
(* because an entry at work excludes a stop at work.                       *)
(***************************************************************************)
EXTENDS LiveLedger, TLAPS

Down == proc \in {"down", "open_orders", "position"}

ValuesInv ==
  /\ proc \in {"down", "open_orders", "position", "account", "running", "stopping"}
  /\ position \in Int /\ marker \in Int /\ net \in Int
  /\ fills \in Nat
  /\ entry \in [pc : EntryPcs, side : Sides \cup {0}, got : Int]
  /\ stop \in StopPcs
  /\ chase \in [Tasks -> ChaseRec]

\* What is believed is saved, and nothing is believed without a process.
BeliefInv ==
  /\ Alive => marker = position
  /\ Down => position = 0

\* Tasks run only when the gates are passed.
NoTasksInv == Down \/ proc = "account" => ~ActiveEntry /\ ~ActiveStop

\* An entry at work has a side to open, from flat, and no stop beside it.
EntryInv == EntryLeg => entry.side \in Sides /\ position = 0 /\ ~ActiveStop

NewEntryInv == entry.pc = "new_entry" => entry.side \in Sides

\* A breakout that will close and then open has a side to open.
ReversalInv == entry.pc \in {"new_reversal", "closing", "asking", "told"} => entry.side \in Sides

LiveInv == ValuesInv /\ BeliefInv /\ NoTasksInv /\ EntryInv /\ NewEntryInv /\ ReversalInv
\* What the protocol sees of a step.
Keeps == LiveInv' /\ [Protocol!Next]_(Protocol!protocolVars)
-----------------------------------------------------------------------------
LEMMA InitKeeps == Init => LiveInv /\ Protocol!Init
BY LiveAssumption
DEF Init, LiveInv, ValuesInv, BeliefInv, NoTasksInv, EntryInv, NewEntryInv, ReversalInv,
    Down, Alive, Leg, EntryLeg, ActiveEntry, ActiveStop, Idle, NoChase, ChaseRec, Tasks,
    Sides, EntryPcs, StopPcs, Protocol!Init

\* A step of the exchange, or of a chase that goes on, is none of the protocol.
LEMMA SilentKeeps ==
  ASSUME LiveInv,
         UNCHANGED <<session, entry, stop>>,
         chase' \in [Tasks -> ChaseRec], net' \in Int
  PROVE  Keeps
BY DEF session, Keeps, LiveInv, ValuesInv, BeliefInv, NoTasksInv, EntryInv, NewEntryInv,
       ReversalInv, Down, Alive, Leg, EntryLeg, ActiveEntry, ActiveStop, Protocol!protocolVars

LEMMA ExchangeKeeps == ASSUME LiveInv, ExchangeStep PROVE Keeps
<1> USE DEF LiveInv, ValuesInv
<1>1. CASE \E t \in Tasks, n \in 1..MaxNet : Fill(t, n)
  <2>1. PICK t \in Tasks, n \in 1..MaxNet : Fill(t, n)
    BY <1>1
  <2>2. chase[t] \in ChaseRec /\ n \in Nat /\ chase[t].left - n \in Nat /\ chase[t].done + n \in Nat
    BY <2>1, LiveAssumption DEF Fill, ChaseRec
  <2>3. chase' \in [Tasks -> ChaseRec] /\ net' \in Int
    BY <2>1, <2>2 DEF Fill, ChaseRec, Sides
  <2> QED BY <2>1, <2>3, SilentKeeps DEF Fill
<1>2. CASE \E t \in Tasks : OrderEnds(t)
  <2>1. PICK t \in Tasks : OrderEnds(t)
    BY <1>2
  <2>2. chase' \in [Tasks -> ChaseRec]
    BY <2>1 DEF OrderEnds, ChaseRec
  <2> QED BY <2>1, <2>2, SilentKeeps DEF OrderEnds
<1>3. CASE \E i \in DOMAIN orphans : OrphanFills(i) \/ OrphanExpires(i)
  <2>1. UNCHANGED <<session, entry, stop, chase>> /\ net' \in Int
    BY <1>3, LiveAssumption DEF OrphanFills, OrphanExpires
  <2> QED BY <2>1, SilentKeeps
<1>4. CASE Operator
  BY <1>4, SilentKeeps DEF Operator
<1> QED BY <1>1, <1>2, <1>3, <1>4 DEF ExchangeStep
-----------------------------------------------------------------------------
(***************************************************************************)
(* The steps at which a task ends.                                         *)
(***************************************************************************)
LEMMA ChaseTypes ==
  ASSUME LiveInv
  PROVE  /\ \A t \in Tasks, r \in ChaseRec : [chase EXCEPT ![t] = r] \in [Tasks -> ChaseRec]
         /\ NoChase \in ChaseRec
         /\ \A d \in Sides, n \in Nat : NewChase(d, n) \in ChaseRec
         /\ \A t \in Tasks : chase[t] \in ChaseRec
BY DEF LiveInv, ValuesInv, NoChase, NewChase, ChaseRec, Sides

LEMMA IdleType == Idle.pc = "idle" /\ Idle \in [pc : EntryPcs, side : Sides \cup {0}, got : Int]
BY DEF Idle, EntryPcs, Sides

\* An entry that ends without a result is abandoned, a stop is over.
LEMMA DiesKeeps ==
  ASSUME LiveInv, NEW t \in Tasks, Dies(t), ~Down, proc # "account",
         IF t = "entry" THEN ActiveEntry ELSE ActiveStop
  PROVE  Keeps
<1>1. chase' \in [Tasks -> ChaseRec]
  BY ChaseTypes DEF Dies
<1>2. CASE t = "entry"
  BY <1>1, <1>2, IdleType
  DEF Dies, EntryEnds, session, Keeps, LiveInv, ValuesInv, BeliefInv, NoTasksInv, EntryInv,
      NewEntryInv, ReversalInv, Down, Alive, Leg, EntryLeg, ActiveEntry, ActiveStop,
      Protocol!protocolVars, Protocol!Next, Protocol!Abandon
<1>3. CASE t = "stop"
  BY <1>1, <1>3
  DEF Dies, StopEnds, session, Keeps, LiveInv, ValuesInv, BeliefInv, NoTasksInv, EntryInv,
      NewEntryInv, ReversalInv, Down, Alive, Leg, EntryLeg, ActiveEntry, ActiveStop, StopPcs,
      Protocol!protocolVars, Protocol!Next, Protocol!Stopped
<1> QED BY <1>2, <1>3 DEF Tasks

\* An entry that returns was opened or is abandoned, a stop that returns is over,
\* and a close that returns goes on within the protocol's close.
LEMMA ReturnsKeeps ==
  ASSUME LiveInv, NEW t \in Tasks, Chasing(t), proc \in {"running", "stopping"}, net' \in Int,
         NEW success \in BOOLEAN, NEW filled \in Nat, Returns(t, success, filled)
  PROVE  Keeps
<1>1. chase' \in [Tasks -> ChaseRec]
  BY ChaseTypes DEF Returns
<1> USE DEF session, Keeps, LiveInv, ValuesInv, BeliefInv, NoTasksInv, EntryInv,
      NewEntryInv, ReversalInv, Down, Alive, Leg, EntryLeg, ActiveEntry, ActiveStop
<1>2. CASE t = "stop"
  BY <1>1, <1>2
  DEF Returns, StopResult, StopEnds, WriteMarker, Chasing, StopPcs,
      Protocol!protocolVars, Protocol!Next, Protocol!Stopped, Protocol!Believe
<1>3. CASE t = "entry" /\ entry.pc = "entering"
  <2>1. CASE success /\ filled > 0
    <3>1. position' \in Int \ {0} /\ marker' = position' /\ fills' \in Nat /\ entry' = Idle
      BY <1>3, <2>1 DEF Returns, EntryResult, EntryEnds, WriteMarker, Sides
    <3>2. UNCHANGED <<proc, stop>>
      BY <1>3, <2>1 DEF Returns
    <3>3. Protocol!Opened
      BY <1>3, <3>1, <3>2, IdleType DEF Protocol!Opened, Protocol!Believe
    <3> QED BY <1>1, <3>1, <3>2, <3>3, IdleType DEF Protocol!Next
  <2>2. CASE ~(success /\ filled > 0)
    BY <1>1, <1>3, <2>2, IdleType
    DEF Returns, EntryResult, EntryEnds, Protocol!Next, Protocol!Abandon
  <2> QED BY <2>1, <2>2
<1>4. CASE t = "entry" /\ entry.pc = "closing"
  BY <1>1, <1>4 DEF Returns, EntryPcs, Protocol!protocolVars
<1> QED BY <1>2, <1>3, <1>4 DEF Tasks, Chasing
-----------------------------------------------------------------------------
(***************************************************************************)
(* The steps of the chases.                                                *)
(***************************************************************************)
LEMMA ChasingTask ==
  ASSUME NEW t \in Tasks, Chasing(t)
  PROVE  IF t = "entry" THEN ActiveEntry ELSE ActiveStop
BY DEF Chasing, ActiveEntry, ActiveStop, Tasks

LEMMA ClosableType == ASSUME LiveInv, NEW d \in Int PROVE Closable(d) \in Nat
BY DEF LiveInv, ValuesInv, Closable, Abs, Sign

LEMMA ReportedType == ASSUME LiveInv, NEW t \in Tasks PROVE Reported(t) \in Nat
BY DEF LiveInv, ValuesInv, ChaseRec, Reported

\* A chase that places an order knows of nothing executed.
PlacedChase(d, n) == [NewChase(d, n) EXCEPT !.placed = TRUE, !.left = n]

LEMMA PlacedType ==
  ASSUME NEW d \in Sides \cup {0}, NEW n \in Nat
  PROVE  /\ PlacedChase(d, n) \in ChaseRec
         /\ PlacedChase(d, n).dir = d /\ PlacedChase(d, n).size = n
         /\ PlacedChase(d, n).left = n /\ PlacedChase(d, n).placed
         /\ PlacedChase(d, n).done = 0 /\ PlacedChase(d, n).seen = 0
<1>1. NoChase \in ChaseRec
  BY DEF NoChase, ChaseRec, Sides
<1>2. NewChase(d, n) \in ChaseRec /\ NewChase(d, n).dir = d /\ NewChase(d, n).size = n
  BY <1>1 DEF NewChase, ChaseRec
<1>3. NewChase(d, n).done = 0 /\ NewChase(d, n).seen = 0
  BY <1>1 DEF NewChase, NoChase, ChaseRec
<1>4. PlacedChase(d, n) \in ChaseRec
  BY <1>2 DEF PlacedChase, ChaseRec
<1>5. /\ PlacedChase(d, n).dir = NewChase(d, n).dir
      /\ PlacedChase(d, n).size = NewChase(d, n).size
      /\ PlacedChase(d, n).left = n /\ PlacedChase(d, n).placed
      /\ PlacedChase(d, n).done = NewChase(d, n).done
      /\ PlacedChase(d, n).seen = NewChase(d, n).seen
  BY <1>2 DEF PlacedChase, ChaseRec
<1> QED BY <1>2, <1>3, <1>4, <1>5

LEMMA ChaseStepKeeps ==
  ASSUME LiveInv, proc \in {"running", "stopping"}, NEW t \in Tasks, ChaseStep(t)
  PROVE  Keeps
<1>1. proc # "account" /\ ~Down
  BY DEF Down
<1>2. chase[t] \in ChaseRec /\ chase \in [Tasks -> ChaseRec] /\ net \in Int
  BY DEF LiveInv, ValuesInv
<1>3. CASE Places(t)
  <2>1. CASE ReduceOnly(t) /\ Closable(chase[t].dir) = 0
    BY <1>1, <1>3, <2>1, DiesKeeps, ChasingTask DEF Places
  <2>2. CASE ~(ReduceOnly(t) /\ Closable(chase[t].dir) = 0)
    <3>1. chase[t].dir \in Sides \cup {0} /\ chase[t].size \in Nat
      BY <1>2 DEF ChaseRec
    <3>2. chase' = [chase EXCEPT ![t] = PlacedChase(chase[t].dir, chase[t].size)]
      BY <1>3, <2>2 DEF Places, PlacedChase
    <3>3. chase' \in [Tasks -> ChaseRec]
      BY <1>2, <3>1, <3>2, PlacedType, ChaseTypes
    <3> QED BY <1>2, <1>3, <2>2, <3>3, SilentKeeps DEF Places
  <2> QED BY <2>1, <2>2
<1>4. CASE Queries(t)
  <2>1. chase' \in [Tasks -> ChaseRec]
    BY <1>2, <1>4 DEF Queries, ChaseRec
  <2> QED BY <1>2, <1>4, <2>1, SilentKeeps DEF Queries
<1>5. CASE SeesFilled(t)
  <2>1. chase[t].size \in Nat
    BY <1>2 DEF ChaseRec
  <2> QED BY <1>2, <1>5, <2>1, ReturnsKeeps DEF SeesFilled
<1>6. CASE CancelRefused(t) \/ ChaseFails(t)
  BY <1>1, <1>6, DiesKeeps, ChasingTask DEF CancelRefused, ChaseFails
<1>7. CASE t = "entry" /\ MakerChaseEnds
  <2>1. Reported("entry") \in Nat
    BY <1>7, ReportedType
  <2>2. (Reported("entry") > 0) \in BOOLEAN
    OBVIOUS
  <2>3. Chasing(t) /\ net' \in Int /\ Returns(t, Reported("entry") > 0, Reported("entry"))
    BY <1>2, <1>7 DEF MakerChaseEnds, MayConclude
  <2> QED BY <2>1, <2>2, <2>3, ReturnsKeeps
<1>8. CASE t = "stop" /\ StopChaseEnds
  <2>1. CASE Closable(chase["stop"].dir) = 0
    BY <1>1, <1>8, <2>1, DiesKeeps, ChasingTask DEF StopChaseEnds, MayConclude
  <2>2. CASE Closable(chase["stop"].dir) # 0
    <3> DEFINE c == chase["stop"]
               n == Least(c.size - Reported("stop"), Closable(c.dir))
    <3>1. c.dir \in Int /\ c.size \in Nat /\ Reported("stop") \in Nat
      BY <1>2, <1>8, ReportedType DEF ChaseRec, Sides
    <3>2. n \in Int
      BY <3>1, ClosableType DEF Least
    <3>3. Chasing("stop") /\ net' = net + c.dir * n /\ Returns("stop", TRUE, c.size)
      BY <1>8, <2>2 DEF StopChaseEnds, MayConclude
    <3>4. net' \in Int
      <4> HIDE DEF n, c
      <4> QED BY <1>2, <3>1, <3>2, <3>3
    <3> QED BY <1>8, <3>1, <3>3, <3>4, ReturnsKeeps
  <2> QED BY <2>1, <2>2
<1> QED BY <1>3, <1>4, <1>5, <1>6, <1>7, <1>8 DEF ChaseStep
-----------------------------------------------------------------------------
(***************************************************************************)
(* The other steps of the tasks.                                           *)
(***************************************************************************)
LEMMA ReversalChaseType ==
  ASSUME LiveInv, position # 0
  PROVE  NewChase(-Sign(position), Abs(position)) \in ChaseRec
<1>0. position \in Int
  BY DEF LiveInv, ValuesInv
<1>1. Abs(position) \in Nat
  BY <1>0 DEF Abs
<1>2. Sign(position) = 1 \/ Sign(position) = -1
  BY <1>0 DEF Sign
<1>3. -Sign(position) \in Sides
  BY <1>2 DEF Sides
<1> QED BY <1>1, <1>3, ChaseTypes

LEMMA GoesOnKeeps ==
  ASSUME LiveInv, proc = "running", entry.pc \in {"asking", "told"},
         NEW v \in Int, GoesOn(v)
  PROVE  Keeps
<1> USE IdleType
    DEF GoesOn, BelieveTold, WriteMarker, EntryEnds, Keeps, LiveInv, ValuesInv, BeliefInv,
        NoTasksInv, EntryInv, NewEntryInv, ReversalInv, Down, Alive, Leg, EntryLeg,
        ActiveEntry, ActiveStop, EntryPcs, Protocol!Next, Protocol!Closed, Protocol!Believe
<1>1. CASE v = 0 /\ ~ActiveStop
  BY <1>1
<1>2. CASE ~(v = 0 /\ ~ActiveStop)
  BY <1>2
<1> QED BY <1>1, <1>2

LEMMA EntryStepKeeps == ASSUME LiveInv, EntryStep PROVE Keeps
<1>0. proc = "running" /\ ~Down /\ proc # "account"
  BY DEF EntryStep, Down
<1>1. CASE EntryStarts
  BY <1>0, <1>1, IdleType
  DEF EntryStarts, MayEnter, EntryEnds, EntryUnchanged, session, Keeps, LiveInv, ValuesInv,
      BeliefInv, NoTasksInv, EntryInv, NewEntryInv, ReversalInv, Down, Alive, Leg, EntryLeg,
      ActiveEntry, ActiveStop, EntryPcs,
      Protocol!protocolVars, Protocol!Next, Protocol!StartOpen
<1>2. CASE AccountRead
  <2>1. chase' \in [Tasks -> ChaseRec]
    <3>1. entry.side \in Sides
      BY <1>2 DEF AccountRead, LiveInv, EntryInv, EntryLeg
    <3>2. NewChase(entry.side, Qty) \in ChaseRec
      BY <3>1, ChaseTypes, LiveAssumption
    <3> QED BY <1>2, <3>2, ChaseTypes DEF AccountRead, Tasks, LiveInv, ValuesInv
  <2> QED
    BY <1>0, <1>2, <2>1, IdleType
    DEF AccountRead, EntryEnds, EntryUnchanged, session, Keeps, LiveInv, ValuesInv,
        BeliefInv, NoTasksInv, EntryInv, NewEntryInv, ReversalInv, Down, Alive, Leg, EntryLeg,
        ActiveEntry, ActiveStop, EntryPcs,
        Protocol!protocolVars, Protocol!Next, Protocol!Abandon
<1>3. CASE ReversalStarts
  <2>1. chase' \in [Tasks -> ChaseRec]
    BY <1>3, ReversalChaseType, ChaseTypes DEF ReversalStarts, Tasks, LiveInv, ValuesInv
  <2> QED
    BY <1>0, <1>3, <2>1, IdleType
    DEF ReversalStarts, EntryEnds, EntryUnchanged, session, Keeps, LiveInv, ValuesInv,
        BeliefInv, NoTasksInv, EntryInv, NewEntryInv, ReversalInv, Down, Alive, Leg, EntryLeg,
        ActiveEntry, ActiveStop, EntryPcs,
        Protocol!protocolVars, Protocol!Next, Protocol!Abandon
<1>4. CASE PositionAnswered
  <2>1. CASE GoesOn(net)
    <3>1. net \in Int /\ entry.pc \in {"asking", "told"}
      BY <1>4 DEF PositionAnswered, LiveInv, ValuesInv
    <3> QED BY <1>0, <2>1, <3>1, GoesOnKeeps
  <2>2. CASE ~GoesOn(net)
    BY <1>0, <1>4, <2>2, IdleType
    DEF PositionAnswered, EntryEnds, EntryUnchanged, session, Keeps, LiveInv, ValuesInv,
        BeliefInv, NoTasksInv, EntryInv, NewEntryInv, ReversalInv, Down, Alive, Leg, EntryLeg,
        ActiveEntry, ActiveStop, EntryPcs,
        Protocol!protocolVars, Protocol!Next, Protocol!Abandon
  <2> QED BY <2>1, <2>2
<1>5. CASE PositionTold
  <2>1. entry.got \in Int /\ entry.pc \in {"asking", "told"} /\ GoesOn(entry.got)
    BY <1>5 DEF PositionTold, LiveInv, ValuesInv
  <2> QED BY <1>0, <2>1, GoesOnKeeps
<1>6. CASE ChaseStep("entry")
  BY <1>0, <1>6, ChaseStepKeeps DEF Tasks
<1> QED BY <1>1, <1>2, <1>3, <1>4, <1>5, <1>6 DEF EntryStep

LEMMA StopStepKeeps == ASSUME LiveInv, StopStep PROVE Keeps
<1>0. proc \in {"running", "stopping"} /\ ~Down /\ proc # "account"
  BY DEF StopStep, Down
<1>1. CASE StopStarts
  <2>1. chase' \in [Tasks -> ChaseRec]
    BY <1>1, ReversalChaseType, ChaseTypes DEF StopStarts, Tasks, LiveInv, ValuesInv
  <2> QED
    BY <1>0, <1>1, <2>1
    DEF StopStarts, StopEnds, session, Keeps, LiveInv, ValuesInv, BeliefInv, NoTasksInv,
        EntryInv, NewEntryInv, ReversalInv, Down, Alive, Leg, EntryLeg, ActiveEntry,
        ActiveStop, StopPcs, Protocol!protocolVars, Protocol!Next, Protocol!Stopped
<1>2. CASE ChaseStep("stop")
  BY <1>0, <1>2, ChaseStepKeeps DEF Tasks
<1> QED BY <1>1, <1>2 DEF StopStep
-----------------------------------------------------------------------------
(***************************************************************************)
(* The steps of the session.                                               *)
(***************************************************************************)

\* A process that ends leaves the marker, and no task survives it.
LEMMA GoneKeeps ==
  ASSUME LiveInv, Gone, UNCHANGED <<marker, net>>,
         entry'.pc = "idle", stop' = "idle", entry' \in [pc : EntryPcs, side : Sides \cup {0}, got : Int],
         chase' \in [Tasks -> ChaseRec]
  PROVE  Keeps
BY DEF Gone, Keeps, LiveInv, ValuesInv, BeliefInv, NoTasksInv, EntryInv, NewEntryInv,
       ReversalInv, Down, Alive, Leg, EntryLeg, ActiveEntry, ActiveStop, StopPcs,
       Protocol!protocolVars, Protocol!Next, Protocol!End

LEMMA GatesKeep ==
  ASSUME LiveInv, Start \/ OpenOrdersGate \/ PositionGate \/ AccountGate
  PROVE  Keeps
<1> USE DEF Gone, TasksUnchanged, Keeps, LiveInv, ValuesInv, BeliefInv, NoTasksInv, EntryInv,
      NewEntryInv, ReversalInv, Down, Alive, Leg, EntryLeg, ActiveEntry, ActiveStop
<1>1. CASE Start
  BY <1>1 DEF Start, Protocol!protocolVars
<1>2. CASE OpenOrdersGate
  BY <1>2 DEF OpenOrdersGate, Protocol!protocolVars
<1>3. CASE PositionGate
  BY <1>3
  DEF PositionGate, WriteMarker, Protocol!protocolVars, Protocol!Next, Protocol!Start,
      Protocol!Believe
<1>4. CASE AccountGate
  BY <1>4 DEF AccountGate, Protocol!protocolVars, Protocol!Next, Protocol!End
<1> QED BY <1>1, <1>2, <1>3, <1>4

\* A breakout that is accepted opens nothing yet; against a position it begins the
\* protocol's close, with or without a stop that the same price sets off.
LEMMA BookTickerKeeps ==
  ASSUME LiveInv, NEW breakout \in BOOLEAN, NEW s \in Sides \cup {0}, NEW stopHit \in BOOLEAN,
         breakout => s \in Sides, BookTicker(breakout, s, stopHit)
  PROVE  Keeps
<1>0. /\ proc \in {"running", "stopping"}
      /\ UNCHANGED <<proc, position, marker, fills, chase, net, orphans>>
  BY DEF BookTicker, session
<1> USE <1>0, IdleType
    DEF Keeps, LiveInv, ValuesInv, BeliefInv, NoTasksInv, EntryInv, NewEntryInv,
        ReversalInv, Down, Alive, Leg, EntryLeg, ActiveEntry, ActiveStop, StopPcs
<1>1. CASE breakout
  <2>1. ~ActiveEntry /\ ~ActiveStop /\ s \in Sides
    BY <1>1 DEF BookTicker, BreakoutAccepted
  <2>2. /\ entry' \in [pc : EntryPcs, side : Sides \cup {0}, got : Int]
        /\ entry'.pc = IF position = 0 THEN "new_entry" ELSE "new_reversal"
        /\ entry'.side = s
    BY <1>1, <2>1 DEF BookTicker, Idle, EntryPcs
  <2>3. CASE stopHit
    <3>1. position # 0 /\ stop' = "new"
      BY <2>3 DEF BookTicker, StopAccepted
    <3> QED BY <2>1, <2>2, <3>1 DEF Protocol!Next, Protocol!StartClose
  <2>4. CASE ~stopHit
    <3>1. UNCHANGED stop
      BY <2>4 DEF BookTicker
    <3>2. CASE position = 0
      BY <2>1, <2>2, <3>1, <3>2 DEF Protocol!protocolVars
    <3>3. CASE position # 0
      BY <2>1, <2>2, <3>1, <3>3 DEF Protocol!Next, Protocol!StartClose
    <3> QED BY <3>2, <3>3
  <2> QED BY <2>3, <2>4
<1>2. CASE ~breakout
  <2>1. UNCHANGED entry /\ position # 0 /\ ~ActiveStop /\ stop' = "new"
    BY <1>2 DEF BookTicker, StopAccepted
  <2> QED BY <2>1 DEF Protocol!Next, Protocol!StartStop
<1> QED BY <1>1, <1>2

LEMMA EndsKeep ==
  ASSUME LiveInv, Crash \/ Shutdown \/ (\E t \in Tasks : Unwinds(t)) \/ Stopped
  PROVE  Keeps
<1>1. CASE Crash
  <2>1. chase' \in [Tasks -> ChaseRec]
    BY <1>1, ChaseTypes DEF Crash
  <2> QED BY <1>1, <2>1, IdleType, GoneKeeps DEF Crash
<1>2. CASE Shutdown
  BY <1>2
  DEF Shutdown, Keeps, LiveInv, ValuesInv, BeliefInv, NoTasksInv, EntryInv, NewEntryInv,
      ReversalInv, Down, Alive, Leg, EntryLeg, ActiveEntry, ActiveStop, StopPcs,
      Protocol!protocolVars, Protocol!Next, Protocol!Stopped
<1>3. CASE \E t \in Tasks : Unwinds(t)
  BY <1>3, DiesKeeps DEF Unwinds, Down
<1>4. CASE Stopped
  BY <1>4, GoneKeeps
  DEF Stopped, TasksUnchanged, ActiveEntry, ActiveStop, LiveInv, ValuesInv
<1> QED BY <1>1, <1>2, <1>3, <1>4

LEMMA SessionStepKeeps == ASSUME LiveInv, SessionStep PROVE Keeps
<1>1. CASE \E s \in Sides, hit \in BOOLEAN : BookTicker(TRUE, s, hit)
  BY <1>1, BookTickerKeeps
<1>2. CASE BookTicker(FALSE, 0, TRUE)
  BY <1>2, BookTickerKeeps
<1> QED BY <1>1, <1>2, GatesKeep, EndsKeep DEF SessionStep

LEMMA StepKeeps == LiveInv /\ [Next]_vars => Keeps
<1> SUFFICES ASSUME LiveInv, [Next]_vars PROVE Keeps
  OBVIOUS
<1>1. CASE UNCHANGED vars
  BY <1>1, SilentKeeps DEF vars, session, LiveInv, ValuesInv
<1>2. CASE Next
  BY <1>2, EntryStepKeeps, StopStepKeeps, SessionStepKeeps, ExchangeKeeps DEF Next
<1> QED BY <1>1, <1>2
-----------------------------------------------------------------------------
\* The inductive invariant holds (run_live_strategy).
THEOREM Invariance == Spec => []LiveInv
<1>1. LiveInv /\ [Next]_vars => LiveInv'
  BY StepKeeps DEF Keeps
<1> QED BY InitKeeps, <1>1, PTL DEF Spec

\* The session implements PositionProtocol whatever is disturbed: every step of
\* the process, its tasks and the exchange is one step of the protocol or none.
THEOREM Implements == Spec => ImplementsProtocol
<1>1. Init => Protocol!Init
  BY InitKeeps
<1>2. LiveInv /\ [Next]_vars => [Protocol!Next]_(Protocol!protocolVars)
  BY StepKeeps DEF Keeps
<1> QED BY <1>1, <1>2, Invariance, PTL DEF Spec, ImplementsProtocol, Protocol!Spec

\* No entry is at work beside a stop or while a position is believed in, and the
\* marker file describes that belief (risk_manager.py, live_position_state.py).
THEOREM EntryIsAlone == Spec => [](Protocol!EntryAlone /\ Protocol!MarkerIsBelief)
<1>1. LiveInv => Protocol!EntryAlone /\ Protocol!MarkerIsBelief
  BY DEF LiveInv, EntryInv, BeliefInv, Leg, Protocol!EntryAlone, Protocol!MarkerIsBelief
<1> QED BY <1>1, Invariance, PTL
-----------------------------------------------------------------------------
(***************************************************************************)
(* The fill limit and the gates.                                           *)
(***************************************************************************)

\* A task that may still fill an entry was started below the limit.
LimitInv ==
  MaxEntryFills > 0 =>
    fills <= MaxEntryFills /\ (ActiveEntry => fills < MaxEntryFills)

\* Behind the first gate nothing rests, and without a resting order and a task
\* the position of the account stays what the second gate read.
GateInv ==
  /\ proc \in {"position", "account"} => orphans = <<>>
  /\ proc = "account" => position = net

LEMMA EntryStepLimit == ASSUME LiveInv, LimitInv, EntryStep PROVE LimitInv'
<1> USE LiveAssumption DEF LimitInv, ActiveEntry, LiveInv, ValuesInv
<1>1. CASE EntryStarts \/ AccountRead \/ ReversalStarts \/ PositionAnswered \/ PositionTold
  <2>1. UNCHANGED fills /\ ActiveEntry
    BY <1>1
    DEF EntryStarts, AccountRead, ReversalStarts, PositionAnswered, PositionTold, GoesOn,
        EntryUnchanged, session
  <2> QED BY <2>1
<1>2. CASE ChaseStep("entry")
  <2>1. Chasing("entry") /\ ActiveEntry
    BY <1>2
    DEF ChaseStep, Places, Queries, SeesFilled, CancelRefused, ChaseFails, MakerChaseEnds,
        MayConclude, Chasing
  <2>2. CASE UNCHANGED fills
    BY <2>1, <2>2
  <2>3. CASE \E success \in BOOLEAN, filled \in Nat : Returns("entry", success, filled)
    <3>1. UNCHANGED fills \/ (fills' = (IF MaxEntryFills > 0 THEN fills + 1 ELSE fills) /\ EntryEnds)
      BY <2>3 DEF Returns, EntryResult
    <3> QED BY <2>1, <3>1 DEF EntryEnds, Idle
  <2>4. UNCHANGED fills \/ \E success \in BOOLEAN, filled \in Nat : Returns("entry", success, filled)
    <3>1. chase["entry"].size \in Nat /\ Reported("entry") \in Nat
      BY ReportedType DEF ChaseRec, Tasks
    <3>2. (Reported("entry") > 0) \in BOOLEAN
      OBVIOUS
    <3>3. CASE SeesFilled("entry") \/ MakerChaseEnds
      BY <3>1, <3>2, <3>3 DEF SeesFilled, MakerChaseEnds
    <3>4. CASE Places("entry") \/ Queries("entry") \/ CancelRefused("entry") \/ ChaseFails("entry")
      BY <3>4 DEF Places, Queries, CancelRefused, ChaseFails, Dies, session
    <3> QED BY <1>2, <3>3, <3>4 DEF ChaseStep
  <2> QED BY <2>2, <2>3, <2>4
<1> QED BY <1>1, <1>2 DEF EntryStep

\* Only a return touches the count, and a stop does not return an entry.
LEMMA StopStepLimit == ASSUME LiveInv, LimitInv, StopStep PROVE LimitInv'
<1>1. UNCHANGED <<fills, entry>>
  BY DEF StopStep, StopStarts, ChaseStep, Places, Queries, SeesFilled, CancelRefused,
         ChaseFails, StopChaseEnds, Returns, Dies, StopResult, session
<1> QED BY <1>1 DEF LimitInv, ActiveEntry

LEMMA OtherStepLimit ==
  ASSUME LiveInv, LimitInv, SessionStep \/ ExchangeStep
  PROVE  LimitInv'
<1> USE LiveAssumption DEF LimitInv, ActiveEntry, LiveInv, ValuesInv, NoTasksInv
<1>1. CASE ExchangeStep
  BY <1>1
  DEF ExchangeStep, Fill, OrderEnds, OrphanFills, OrphanExpires, Operator, session
<1>2. CASE Start \/ OpenOrdersGate \/ AccountGate \/ Shutdown \/ Stopped
  BY <1>2
  DEF Start, OpenOrdersGate, AccountGate, Shutdown, Stopped, Gone, TasksUnchanged
<1>3. CASE PositionGate
  BY <1>3 DEF PositionGate, Gone, TasksUnchanged, Down
<1>4. CASE \E t \in Tasks : Unwinds(t)
  BY <1>4 DEF Unwinds, Dies, EntryEnds, Idle, session
<1>5. CASE Crash
  BY <1>5 DEF Crash, Gone, Idle
<1>6. CASE \E s \in Sides, hit \in BOOLEAN : BookTicker(TRUE, s, hit)
  BY <1>6 DEF BookTicker, BreakoutAccepted, session
<1>7. CASE BookTicker(FALSE, 0, TRUE)
  BY <1>7 DEF BookTicker, session
<1> QED BY <1>1, <1>2, <1>3, <1>4, <1>5, <1>6, <1>7 DEF SessionStep

LEMMA GateStep == ASSUME LiveInv, GateInv, [Next]_vars PROVE GateInv'
<1> USE DEF GateInv
<1>1. CASE UNCHANGED vars
  BY <1>1 DEF vars
<1>2. CASE EntryStep \/ StopStep
  <2>1. proc \in {"running", "stopping"} /\ UNCHANGED proc
    BY <1>2
    DEF EntryStep, StopStep, EntryStarts, AccountRead, ReversalStarts, PositionAnswered,
        PositionTold, GoesOn, EntryUnchanged, StopStarts, ChaseStep, Places, Queries,
        SeesFilled, CancelRefused, ChaseFails, MakerChaseEnds, StopChaseEnds, Returns, Dies,
        session
  <2> QED BY <2>1
<1>3. CASE ExchangeStep
  <2>1. UNCHANGED <<proc, position>>
    BY <1>3
    DEF ExchangeStep, Fill, OrderEnds, OrphanFills, OrphanExpires, Operator, session
  <2>2. CASE proc \in {"position", "account"}
    <3>1. \A t \in Tasks : ~Chasing(t)
      BY <2>2 DEF LiveInv, NoTasksInv, Chasing, ActiveEntry, ActiveStop, Down
    <3>2. DOMAIN orphans = {}
      BY <2>2
    <3> QED
      BY <1>3, <2>2, <3>1, <3>2 DEF ExchangeStep, Fill, OrderEnds, Operator
  <2> QED BY <2>1, <2>2
<1>4. CASE SessionStep
  <2>1. CASE \E s \in Sides, hit \in BOOLEAN : BookTicker(TRUE, s, hit)
    BY <2>1 DEF BookTicker, session
  <2>2. CASE BookTicker(FALSE, 0, TRUE)
    BY <2>2 DEF BookTicker, session
  <2>3. CASE \E t \in Tasks : Unwinds(t)
    BY <2>3 DEF Unwinds, Dies, session
  <2>4. CASE Start \/ OpenOrdersGate \/ AccountGate \/ Crash \/ Shutdown \/ Stopped
    BY <2>4
    DEF Start, OpenOrdersGate, AccountGate, Crash, Shutdown, Stopped, Gone, TasksUnchanged
  <2>5. CASE PositionGate
    BY <2>5 DEF PositionGate, Gone, TasksUnchanged
  <2> QED BY <1>4, <2>1, <2>2, <2>3, <2>4, <2>5 DEF SessionStep
<1> QED BY <1>1, <1>2, <1>3, <1>4 DEF Next

\* No session fills more entries than it is configured for, a resumed position
\* included (live_entry_fill_limit_reached, main.py:380-381).
THEOREM FillLimitHolds == Spec => []FillLimit
<1>1. Init => LimitInv
  BY LiveAssumption DEF Init, LimitInv, ActiveEntry, Idle
<1>2. LiveInv /\ LimitInv /\ [Next]_vars => LimitInv'
  <2> SUFFICES ASSUME LiveInv, LimitInv, [Next]_vars PROVE LimitInv'
    OBVIOUS
  <2>1. CASE UNCHANGED vars
    BY <2>1 DEF vars, LimitInv, ActiveEntry
  <2> QED BY <2>1, EntryStepLimit, StopStepLimit, OtherStepLimit DEF Next
<1>3. LimitInv => FillLimit
  BY DEF LimitInv, FillLimit
<1> QED BY <1>1, <1>2, <1>3, Invariance, PTL DEF Spec

\* A session that passed its gates begins with the position of the account and
\* with no order of a former process (main.py:121-147).
THEOREM StartAgrees == Spec => StartsInAgreement
<1>1. Init => GateInv
  BY DEF Init, GateInv
<1>2. LiveInv /\ GateInv /\ [Next]_vars => GateInv'
  BY GateStep
<1>3. GateInv /\ [Next]_vars =>
        [proc = "account" /\ proc' = "running" => position = net /\ orphans = <<>>]_vars
  BY DEF GateInv
<1> QED BY <1>1, <1>2, <1>3, Invariance, PTL DEF Spec, StartsInAgreement
-----------------------------------------------------------------------------
(***************************************************************************)
(* The quantities of the chases and the orders left behind.                *)
(***************************************************************************)
OrphanRec == [dir : Sides, left : Nat \ {0}, reduce : BOOLEAN]

\* What an order executed and what rests of it make up its size, as long as it rests;
\* one that the exchange ended executed less.  One that is not placed is neither.
InOrder(c) ==
  /\ c.dir \in Sides /\ c.size > 0 /\ c.seen <= c.done
  /\ IF c.placed
     THEN c.left + c.done <= c.size /\ (c.left > 0 => c.left + c.done = c.size)
     ELSE c.left = 0 /\ c.done = 0

ChaseInv(t) == IF Chasing(t) THEN InOrder(chase[t]) ELSE chase[t] = NoChase

CancelledInv == stop = "cancelled" => proc = "stopping"

QuantityInv == (\A t \in Tasks : ChaseInv(t)) /\ orphans \in Seq(OrphanRec)
-----------------------------------------------------------------------------
LEMMA InitQuantity == Init => QuantityInv
BY DEF Init, QuantityInv, ChaseInv, Chasing, Idle, Tasks

\* A stop is cancelled by the shutdown, and nothing starts in that process any more.
LEMMA StepCancelled == CancelledInv /\ [Next]_vars => CancelledInv'
<1> SUFFICES ASSUME CancelledInv, [Next]_vars PROVE CancelledInv'
  OBVIOUS
<1> USE DEF CancelledInv
<1>1. CASE UNCHANGED vars
  BY <1>1 DEF vars
<1>2. CASE EntryStep
  BY <1>2
  DEF EntryStep, EntryStarts, AccountRead, ReversalStarts, PositionAnswered, PositionTold, GoesOn,
      EntryUnchanged, ChaseStep, Places, Queries, SeesFilled, CancelRefused, ChaseFails,
      MakerChaseEnds, Returns, Dies, session
<1>3. CASE StopStep
  BY <1>3
  DEF StopStep, StopStarts, StopEnds, ChaseStep, Places, Queries, SeesFilled, CancelRefused,
      ChaseFails, StopChaseEnds, Returns, StopResult, Dies, session
<1>4. CASE ExchangeStep
  BY <1>4 DEF ExchangeStep, Fill, OrderEnds, OrphanFills, OrphanExpires, Operator, session
<1>5. CASE \E s \in Sides, hit \in BOOLEAN : BookTicker(TRUE, s, hit)
  BY <1>5 DEF BookTicker, session
<1>6. CASE BookTicker(FALSE, 0, TRUE)
  BY <1>6 DEF BookTicker, session
<1>7. CASE \E t \in Tasks : Unwinds(t)
  BY <1>7 DEF Unwinds, Dies, StopEnds, session
<1>8. CASE Start \/ OpenOrdersGate \/ PositionGate \/ AccountGate \/ Crash \/ Shutdown \/ Stopped
  BY <1>8
  DEF Start, OpenOrdersGate, PositionGate, AccountGate, Crash, Shutdown, Stopped, Gone,
      TasksUnchanged, ActiveStop
<1> QED BY <1>1, <1>2, <1>3, <1>4, <1>5, <1>6, <1>7, <1>8 DEF Next, SessionStep

\* A task that does not chase is unconcerned by what becomes of its program counter.
LEMMA SameChases ==
  ASSUME QuantityInv, UNCHANGED chase, orphans' \in Seq(OrphanRec),
         \A t \in Tasks : Chasing(t)' = Chasing(t)
  PROVE  QuantityInv'
BY DEF QuantityInv, ChaseInv, InOrder

\* One chase changes, and is in order.
LEMMA OneChase ==
  ASSUME LiveInv, QuantityInv, NEW t \in Tasks, NEW c, chase' = [chase EXCEPT ![t] = c],
         orphans' \in Seq(OrphanRec),
         \A u \in Tasks \ {t} : Chasing(u)' = Chasing(u),
         IF Chasing(t)' THEN InOrder(c) ELSE c = NoChase
  PROVE  QuantityInv'
<1>1. chase'[t] = c /\ \A u \in Tasks \ {t} : chase'[u] = chase[u]
  BY DEF LiveInv, ValuesInv
<1>2. ChaseInv(t)'
  BY <1>1 DEF ChaseInv, InOrder
<1>3. \A u \in Tasks \ {t} : ChaseInv(u)'
  BY <1>1 DEF QuantityInv, ChaseInv, InOrder
<1> QED BY <1>2, <1>3 DEF QuantityInv

LEMMA DiesQuantity ==
  ASSUME LiveInv, QuantityInv, NEW t \in Tasks, Dies(t), orphans' \in Seq(OrphanRec)
  PROVE  QuantityInv'
<1>1. ~Chasing(t)' /\ \A u \in Tasks \ {t} : Chasing(u)' = Chasing(u)
  BY IdleType DEF Dies, EntryEnds, StopEnds, Chasing, Tasks
<1> QED BY <1>1, OneChase DEF Dies

LEMMA ReturnsQuantity ==
  ASSUME LiveInv, QuantityInv, NEW t \in Tasks, Chasing(t), NEW success, NEW filled,
         Returns(t, success, filled)
  PROVE  QuantityInv'
<1>1. ~Chasing(t)' /\ \A u \in Tasks \ {t} : Chasing(u)' = Chasing(u)
  BY IdleType
  DEF Returns, EntryResult, StopResult, EntryEnds, StopEnds, Chasing, Tasks, LiveInv, ValuesInv
<1>2. chase' = [chase EXCEPT ![t] = NoChase] /\ orphans' = orphans
  BY DEF Returns
<1>3. orphans' \in Seq(OrphanRec)
  BY <1>2 DEF QuantityInv
<1> QED BY <1>1, <1>2, <1>3, OneChase

\* What a task leaves behind is an order with something left to trade.
LEMMA OrphaningQuantity ==
  ASSUME LiveInv, QuantityInv, NEW T, Orphaning(T)
  PROVE  orphans' \in Seq(OrphanRec)
<1>1. ASSUME NEW t \in Tasks, NEW o \in Remains(t) PROVE o \in Seq(OrphanRec)
  <2>1. chase[t] \in ChaseRec /\ ChaseInv(t) /\ ReduceOnly(t) \in BOOLEAN
    BY DEF LiveInv, ValuesInv, QuantityInv, ReduceOnly
  <2>2. <<>> \in Seq(OrphanRec)
    OBVIOUS
  <2>3. ASSUME NEW n \in Nat \ {0}, Chasing(t)
        PROVE  <<[dir |-> chase[t].dir, left |-> n, reduce |-> ReduceOnly(t)]>> \in Seq(OrphanRec)
    BY <2>1, <2>3 DEF ChaseInv, InOrder, OrphanRec
  <2>4. Chasing(t) => chase[t].size \in Nat \ {0}
    BY <2>1 DEF ChaseInv, InOrder, ChaseRec
  <2>5. chase[t].left > 0 => chase[t].left \in Nat \ {0}
    BY <2>1 DEF ChaseRec
  <2> QED BY <1>1, <2>2, <2>3, <2>4, <2>5 DEF Remains
<1>2. \A e, u \in Seq(OrphanRec) : orphans \o e \o u \in Seq(OrphanRec)
  BY DEF QuantityInv
<1>3. <<>> \in Seq(OrphanRec)
  OBVIOUS
<1> QED BY <1>1, <1>2, <1>3 DEF Orphaning, Tasks

LEMMA WithoutType ==
  ASSUME QuantityInv, NEW i \in DOMAIN orphans
  PROVE  Without(i) \in Seq(OrphanRec) /\ orphans[i] \in OrphanRec
<1>1. orphans \in Seq(OrphanRec) /\ i \in 1..Len(orphans)
  BY DEF QuantityInv
<1>2. SubSeq(orphans, 1, i - 1) \in Seq(OrphanRec) /\ SubSeq(orphans, i + 1, Len(orphans)) \in Seq(OrphanRec)
  BY <1>1
<1> QED BY <1>1, <1>2 DEF Without

LEMMA ExchangeQuantity == ASSUME LiveInv, QuantityInv, ExchangeStep PROVE QuantityInv'
<1>0. orphans \in Seq(OrphanRec) /\ \A t \in Tasks : chase[t] \in ChaseRec /\ ChaseInv(t)
  BY DEF QuantityInv, LiveInv, ValuesInv
<1>1. ASSUME NEW t \in Tasks, NEW n \in 1..MaxNet, Fill(t, n) PROVE QuantityInv'
  <2> DEFINE c == [chase[t] EXCEPT !.left = @ - n, !.done = @ + n]
  <2>1. chase' = [chase EXCEPT ![t] = c] /\ UNCHANGED <<entry, stop, orphans>> /\ Chasing(t) /\ n <= chase[t].left
    BY <1>0, <1>1 DEF Fill, LiveInv, ValuesInv
  <2>2. \A u \in Tasks : Chasing(u)' = Chasing(u)
    BY <2>1 DEF Chasing
  <2>3. InOrder(c)
    BY <1>0, <2>1, LiveAssumption DEF ChaseInv, InOrder, ChaseRec
  <2> HIDE DEF c
  <2> QED BY <1>0, <2>1, <2>2, <2>3, OneChase
<1>2. ASSUME NEW t \in Tasks, OrderEnds(t) PROVE QuantityInv'
  <2> DEFINE c == [chase[t] EXCEPT !.left = 0]
  <2>1. chase' = [chase EXCEPT ![t] = c] /\ UNCHANGED <<entry, stop, orphans>> /\ Chasing(t)
    BY <1>0, <1>2 DEF OrderEnds, LiveInv, ValuesInv
  <2>2. \A u \in Tasks : Chasing(u)' = Chasing(u)
    BY <2>1 DEF Chasing
  <2>3. InOrder(c)
    BY <1>0, <2>1 DEF ChaseInv, InOrder, ChaseRec
  <2> HIDE DEF c
  <2> QED BY <1>0, <2>1, <2>2, <2>3, OneChase
<1>3. ASSUME UNCHANGED <<entry, stop, chase>>, orphans' \in Seq(OrphanRec) PROVE QuantityInv'
  <2>1. \A u \in Tasks : Chasing(u)' = Chasing(u)
    BY <1>3 DEF Chasing
  <2> QED BY <1>3, <2>1, SameChases
<1>4. ASSUME NEW i \in DOMAIN orphans, OrphanFills(i) \/ OrphanExpires(i) PROVE QuantityInv'
  BY <1>3, <1>4, WithoutType DEF OrphanFills, OrphanExpires
<1>5. CASE Operator
  <2>1. <<>> \in Seq(OrphanRec)
    OBVIOUS
  <2> QED BY <1>3, <1>5, <2>1 DEF Operator
<1> QED BY <1>1, <1>2, <1>4, <1>5 DEF ExchangeStep

LEMMA ChaseStepQuantity ==
  ASSUME LiveInv, QuantityInv, NEW t \in Tasks, ChaseStep(t) PROVE QuantityInv'
<1>0. orphans \in Seq(OrphanRec) /\ \A u \in Tasks : chase[u] \in ChaseRec /\ ChaseInv(u)
  BY DEF QuantityInv, LiveInv, ValuesInv
<1>1. ASSUME Dies(t), UNCHANGED orphans PROVE QuantityInv'
  BY <1>0, <1>1, DiesQuantity
<1>2. ASSUME NEW c, Chasing(t), chase' = [chase EXCEPT ![t] = c], UNCHANGED <<entry, stop, orphans>>,
             InOrder(c)
      PROVE  QuantityInv'
  <2>1. \A u \in Tasks : Chasing(u)' = Chasing(u)
    BY <1>2 DEF Chasing
  <2> QED BY <1>0, <1>2, <2>1, OneChase
<1>3. CASE Places(t)
  <2>1. CASE Dies(t) /\ UNCHANGED orphans
    BY <1>1, <2>1
  <2>2. CASE /\ chase' = [chase EXCEPT ![t] =
                            [NewChase(@.dir, @.size) EXCEPT !.placed = TRUE, !.left = chase[t].size]]
             /\ UNCHANGED <<session, entry, stop, net, orphans>>
    <3> DEFINE c == PlacedChase(chase[t].dir, chase[t].size)
    <3>1. chase' = [chase EXCEPT ![t] = c] /\ Chasing(t)
      BY <1>3, <2>2 DEF Places, PlacedChase
    <3>2. chase[t].dir \in Sides /\ chase[t].size \in Nat /\ chase[t].size > 0
      BY <1>0, <3>1 DEF ChaseInv, InOrder, ChaseRec
    <3>3. InOrder(c)
      BY <3>2, PlacedType DEF InOrder
    <3> HIDE DEF c
    <3> QED BY <1>2, <2>2, <3>1, <3>3
  <2> QED BY <1>3, <2>1, <2>2 DEF Places
<1>4. CASE Queries(t)
  <2> DEFINE c == [chase[t] EXCEPT !.seen = chase[t].done]
  <2>1. chase' = [chase EXCEPT ![t] = c] /\ Chasing(t) /\ UNCHANGED <<entry, stop, orphans>>
    BY <1>4 DEF Queries, LiveInv, ValuesInv
  <2>2. InOrder(c)
    BY <1>0, <1>4 DEF Queries, ChaseInv, InOrder, ChaseRec
  <2> HIDE DEF c
  <2> QED BY <1>2, <2>1, <2>2
<1>5. CASE SeesFilled(t)
  BY <1>5, ReturnsQuantity DEF SeesFilled
<1>6. CASE CancelRefused(t)
  BY <1>1, <1>6 DEF CancelRefused
<1>7. CASE ChaseFails(t)
  BY <1>7, DiesQuantity, OrphaningQuantity DEF ChaseFails
<1>8. CASE t = "entry" /\ MakerChaseEnds
  BY <1>8, ReturnsQuantity DEF MakerChaseEnds, MayConclude
<1>9. CASE t = "stop" /\ StopChaseEnds
  BY <1>1, <1>9, ReturnsQuantity DEF StopChaseEnds, MayConclude
<1> QED BY <1>3, <1>4, <1>5, <1>6, <1>7, <1>8, <1>9 DEF ChaseStep

LEMMA SizedToBelief ==
  ASSUME LiveInv, position # 0
  PROVE  -Sign(position) \in Sides /\ Abs(position) \in Nat \ {0}
<1>1. position \in Int
  BY DEF LiveInv, ValuesInv
<1>2. Sign(position) = 1 \/ Sign(position) = -1
  BY <1>1 DEF Sign
<1>3. -Sign(position) \in Sides
  BY <1>2 DEF Sides
<1>4. Abs(position) \in Nat \ {0}
  BY <1>1 DEF Abs
<1> QED BY <1>3, <1>4

LEMMA EntryStepQuantity == ASSUME LiveInv, QuantityInv, EntryStep PROVE QuantityInv'
<1>0. orphans \in Seq(OrphanRec) /\ entry \in [pc : EntryPcs, side : Sides \cup {0}, got : Int]
  BY DEF QuantityInv, LiveInv, ValuesInv
<1>1. ASSUME UNCHANGED <<stop, chase, orphans>>, ~Chasing("entry"), ~Chasing("entry")'
      PROVE  QuantityInv'
  <2>1. \A u \in Tasks : Chasing(u)' = Chasing(u)
    BY <1>1 DEF Chasing, Tasks
  <2> QED BY <1>0, <1>1, <2>1, SameChases
<1>2. ASSUME NEW d \in Sides, NEW n \in Nat \ {0}, UNCHANGED <<stop, orphans>>, Chasing("entry")',
             chase' = [chase EXCEPT !["entry"] = NewChase(d, n)]
      PROVE  QuantityInv'
  <2>1. \A u \in Tasks \ {"entry"} : Chasing(u)' = Chasing(u)
    BY <1>2 DEF Chasing, Tasks
  <2> DEFINE c == NewChase(d, n)
  <2>2. InOrder(c)
    BY DEF InOrder, NewChase, NoChase
  <2> HIDE DEF c
  <2>3. chase' = [chase EXCEPT !["entry"] = c] /\ "entry" \in Tasks
    BY <1>2 DEF c, Tasks
  <2> QED BY <1>0, <1>2, <2>1, <2>2, <2>3, OneChase
<1>3. CASE EntryStarts
  BY <1>0, <1>1, <1>3, IdleType DEF EntryStarts, EntryEnds, EntryUnchanged, Chasing
<1>4. CASE AccountRead
  <2>1. CASE EntryEnds /\ UNCHANGED chase
    BY <1>0, <1>1, <1>4, <2>1, IdleType DEF AccountRead, EntryEnds, EntryUnchanged, Chasing
  <2>2. CASE entry' = [entry EXCEPT !.pc = "entering"] /\ chase' = [chase EXCEPT !["entry"] = NewChase(entry.side, Qty)]
    <3>1. entry.side \in Sides /\ Qty \in Nat \ {0}
      BY <1>4, LiveAssumption DEF AccountRead, LiveInv, EntryInv, EntryLeg
    <3>2. UNCHANGED <<stop, orphans>> /\ Chasing("entry")'
      BY <1>0, <1>4, <2>2 DEF AccountRead, EntryUnchanged, Chasing
    <3> QED BY <1>2, <2>2, <3>1, <3>2
  <2> QED BY <1>4, <2>1, <2>2 DEF AccountRead
<1>5. CASE ReversalStarts
  <2>1. CASE position = 0
    BY <1>0, <1>1, <1>5, <2>1, IdleType DEF ReversalStarts, EntryEnds, EntryUnchanged, Chasing
  <2>2. CASE position # 0
    <3>1. -Sign(position) \in Sides /\ Abs(position) \in Nat \ {0}
      BY <2>2, SizedToBelief
    <3>2. UNCHANGED <<stop, orphans>> /\ Chasing("entry")'
          /\ chase' = [chase EXCEPT !["entry"] = NewChase(-Sign(position), Abs(position))]
      BY <1>0, <1>5, <2>2 DEF ReversalStarts, EntryUnchanged, Chasing
    <3> QED BY <1>2, <3>1, <3>2
  <2> QED BY <2>1, <2>2
<1>6. CASE PositionAnswered \/ PositionTold
  <2>1. UNCHANGED <<stop, chase, orphans>> /\ ~Chasing("entry") /\ ~Chasing("entry")'
    BY <1>0, <1>6, IdleType
    DEF PositionAnswered, PositionTold, GoesOn, EntryEnds, EntryUnchanged, Chasing
  <2> QED BY <1>1, <2>1
<1>7. CASE ChaseStep("entry")
  BY <1>7, ChaseStepQuantity DEF Tasks
<1> QED BY <1>3, <1>4, <1>5, <1>6, <1>7 DEF EntryStep

LEMMA StopStepQuantity == ASSUME LiveInv, QuantityInv, StopStep PROVE QuantityInv'
<1>0. orphans \in Seq(OrphanRec)
  BY DEF QuantityInv
<1>1. CASE StopStarts
  <2>1. CASE position = 0
    <3>1. \A u \in Tasks : Chasing(u)' = Chasing(u)
      BY <1>1, <2>1 DEF StopStarts, StopEnds, Chasing, Tasks
    <3> QED BY <1>0, <1>1, <2>1, <3>1, SameChases DEF StopStarts
  <2>2. CASE position # 0
    <3> DEFINE c == NewChase(-Sign(position), Abs(position))
    <3>1. chase' = [chase EXCEPT !["stop"] = c] /\ "stop" \in Tasks /\ orphans' = orphans
          /\ \A u \in Tasks \ {"stop"} : Chasing(u)' = Chasing(u)
      BY <1>1, <2>2 DEF StopStarts, Chasing, Tasks
    <3>2. InOrder(c)
      BY <2>2, SizedToBelief DEF InOrder, NewChase, NoChase
    <3>3. Chasing("stop")'
      BY <1>1, <2>2 DEF StopStarts, Chasing
    <3> HIDE DEF c
    <3> QED BY <1>0, <3>1, <3>2, <3>3, OneChase
  <2> QED BY <2>1, <2>2
<1>2. CASE ChaseStep("stop")
  BY <1>2, ChaseStepQuantity DEF Tasks
<1> QED BY <1>1, <1>2 DEF StopStep

LEMMA SessionStepQuantity ==
  ASSUME LiveInv, CancelledInv, QuantityInv, SessionStep PROVE QuantityInv'
<1>0. orphans \in Seq(OrphanRec)
  BY DEF QuantityInv
<1>1. ASSUME UNCHANGED <<chase, orphans>>, \A u \in Tasks : Chasing(u)' = Chasing(u)
      PROVE  QuantityInv'
  BY <1>0, <1>1, SameChases
<1>2. CASE Start \/ OpenOrdersGate \/ PositionGate \/ AccountGate \/ Stopped
  BY <1>1, <1>2 DEF Start, OpenOrdersGate, PositionGate, AccountGate, Stopped, TasksUnchanged, Chasing
<1>3. ASSUME NEW b \in BOOLEAN, NEW s \in Sides \cup {0}, NEW hit \in BOOLEAN, BookTicker(b, s, hit)
      PROVE  QuantityInv'
  <2>1. UNCHANGED <<chase, orphans>> /\ (hit => ~ActiveStop /\ stop' = "new") /\ (~hit => stop' = stop)
    BY <1>3 DEF BookTicker, StopAccepted
  <2>2. (b => ~ActiveEntry /\ entry'.pc \in {"new_entry", "new_reversal"}) /\ (~b => entry' = entry)
    BY <1>3 DEF BookTicker, BreakoutAccepted, Idle
  <2>3. \A u \in Tasks : Chasing(u)' = Chasing(u)
    BY <2>1, <2>2 DEF Chasing, Tasks, ActiveEntry, ActiveStop
  <2> QED BY <1>1, <2>1, <2>3
<1>4. CASE \E s \in Sides, hit \in BOOLEAN : BookTicker(TRUE, s, hit)
  BY <1>3, <1>4
<1>5. CASE BookTicker(FALSE, 0, TRUE)
  BY <1>3, <1>5
<1>6. CASE Crash
  <2>1. \A u \in Tasks : ~Chasing(u)' /\ chase'[u] = NoChase
    BY <1>6, IdleType DEF Crash, Chasing
  <2>2. orphans' \in Seq(OrphanRec)
    BY <1>6, OrphaningQuantity DEF Crash
  <2> QED BY <2>1, <2>2 DEF QuantityInv, ChaseInv
<1>7. CASE Shutdown
  BY <1>1, <1>7 DEF Shutdown, Chasing, CancelledInv
<1>8. CASE \E t \in Tasks : Unwinds(t)
  BY <1>0, <1>8, DiesQuantity, OrphaningQuantity DEF Unwinds
<1> QED BY <1>2, <1>4, <1>5, <1>6, <1>7, <1>8 DEF SessionStep

LEMMA StepQuantity == LiveInv /\ CancelledInv /\ QuantityInv /\ [Next]_vars => QuantityInv'
<1>1. ASSUME QuantityInv, UNCHANGED vars PROVE QuantityInv'
  BY <1>1 DEF vars, QuantityInv, ChaseInv, InOrder, Chasing
<1> QED
  BY <1>1, EntryStepQuantity, StopStepQuantity, SessionStepQuantity, ExchangeQuantity DEF Next

\* Only a process that shuts down has a cancelled stop.
THEOREM CancelledInvariance == Spec => []CancelledInv
<1>1. Init => CancelledInv
  BY DEF Init, CancelledInv
<1> QED BY <1>1, StepCancelled, PTL DEF Spec

\* What an order executed and what rests of it add up, and every order left behind is one
\* that can still trade.
THEOREM QuantityInvariance == Spec => []QuantityInv
<1> QED BY InitQuantity, StepQuantity, Invariance, CancelledInvariance, PTL DEF Spec

\* The variables keep their types; a chase belongs to a task, has something to trade and
\* has seen no more than was executed, whatever fails.
THEOREM TypeCorrect == Spec => []TypeOK
<1>1. LiveInv /\ QuantityInv => TypeOK
  BY DEF LiveInv, ValuesInv, QuantityInv, ChaseInv, InOrder, OrphanRec, Sides, TypeOK
<1> QED BY <1>1, Invariance, QuantityInvariance, PTL
-----------------------------------------------------------------------------
(***************************************************************************)
(* A session in which no request fails and no fill comes late: what it     *)
(* knows of its account.  The exchange may end any order, the process at   *)
(* any step.                                                               *)
(***************************************************************************)
Undisturbed == "error" \notin Disturbances /\ "late_fill" \notin Disturbances

\* Give or take u: n is b, or n lies between nothing and p.
Near(n, b, u) == b - u <= n /\ n <= b + u
Within(n, p, u) ==
  /\ (IF p < 0 THEN p ELSE 0) - u <= n
  /\ n <= (IF p > 0 THEN p ELSE 0) + u

\* m is what is left of n.
PartOf(m, n) == (0 <= m /\ m <= n) \/ (n <= m /\ m <= 0)

\* Give or take what nobody was told of, an order in direction d closes what is held,
\* and no more than m of it is held.
Against(d) == IF d = 1 THEN net <= untold ELSE 0 - untold <= net
Closes(d, m) == Against(d) /\ IF d = 1 THEN 0 - m - untold <= net ELSE net <= m + untold

\* An entry at work owns what is held.
OwnInv ==
  entry.pc = "entering" =>
    /\ orphans = <<>> /\ chase["entry"].dir = entry.side
    /\ Near(net, IF entry.side = 1 THEN chase["entry"].done ELSE -chase["entry"].done, untold)

\* What is held is part of what is believed, and nobody works behind the session.
HoldInv ==
  proc = "running" =>
    /\ orphans = <<>>
    /\ ~EntryLeg => Within(net, position, untold)
    /\ entry.pc = "account" => Near(net, 0, untold)
    /\ entry.pc = "closing" => Against(chase["entry"].dir)
    /\ entry.pc = "told" => Within(net, entry.got, untold)
    /\ stop = "chasing" => Closes(chase["stop"].dir, chase["stop"].size - chase["stop"].done)

\* A part of it is held only while somebody is at work who will end that, or when a
\* close died of the end of its order.
WholeInv ==
  proc = "running" /\ ~ActiveStop /\ ~refused =>
    /\ ~ActiveEntry => Near(net, 0, untold) \/ Near(net, position, untold)
    /\ entry.pc = "told" => Near(net, 0, untold) \/ Near(net, entry.got, untold)

\* An entry that has not begun was accepted from flat, and nothing else opens.
FlatInv == entry.pc = "new_entry" => position = 0

CleanInv == untold \in Nat /\ OwnInv /\ HoldInv /\ WholeInv /\ FlatInv

\* What a step that neither settles nor ends the process leaves of the history.
Grown ==
  /\ untold' \in Nat /\ untold <= untold'
  /\ refused /\ ~ActiveStop' => refused'
-----------------------------------------------------------------------------
LEMMA NearFacts ==
  ASSUME NEW n \in Int, NEW u \in Nat
  PROVE  /\ \A p \in Int : Near(n, 0, u) => Within(n, p, u)
         /\ \A p \in Int : Near(n, p, u) => Within(n, p, u)
         /\ Within(n, 0, u) => Near(n, 0, u)
         /\ \A p \in Int, w \in Nat : u <= w /\ Near(n, p, u) => Near(n, p, w)
         /\ \A p \in Int, w \in Nat, m \in Int :
              u <= w /\ Within(n, p, u) /\ PartOf(m, n) => Within(m, p, w)
         /\ \A m \in Int : PartOf(m, n) /\ Near(n, 0, u) => Near(m, 0, u)
         /\ PartOf(n, n)
BY DEF Near, Within, PartOf

LEMMA ClosableIs ==
  ASSUME net \in Int, NEW d \in Sides
  PROVE  /\ d = 1 => Closable(d) = IF net < 0 THEN -net ELSE 0
         /\ d = -1 => Closable(d) = IF net > 0 THEN net ELSE 0
<1>1. net < 0 => Sign(net) = -1 /\ Abs(net) = -net
  BY DEF Sign, Abs
<1>2. net > 0 => Sign(net) = 1 /\ Abs(net) = net
  BY DEF Sign, Abs
<1>3. net = 0 => Sign(net) = 0
  BY DEF Sign
<1>4. d # 1 => -d = 1
  BY DEF Sides
<1> QED BY <1>1, <1>2, <1>3, <1>4 DEF Closable

\* What a closing order fills brings the position closer to flat, and not beyond.
LEMMA FillShrinks ==
  ASSUME net \in Int, untold \in Nat, NEW d \in Sides, NEW n \in Nat \ {0}, n <= Closable(d),
         NEW m \in Int
  PROVE  /\ PartOf(net + d * n, net)
         /\ Closes(d, m) => IF d = 1 THEN 0 - (m - n) - untold <= net + d * n
                            ELSE net + d * n <= (m - n) + untold
<1>1. CASE d = 1
  <2>1. net < 0 /\ n <= -net
    BY <1>1, ClosableIs
  <2> QED BY <1>1, <2>1 DEF PartOf, Closes
<1>2. CASE d = -1
  <2>1. net > 0 /\ n <= net
    BY <1>2, ClosableIs
  <2>2. d * n = -n
    BY <1>2
  <2> QED BY <1>2, <2>1, <2>2 DEF PartOf, Closes
<1> QED BY <1>1, <1>2 DEF Sides

LEMMA NothingToClose ==
  ASSUME net \in Int, untold \in Nat, NEW d \in Sides, Against(d), Closable(d) = 0
  PROVE  Near(net, 0, untold)
<1>1. CASE d = 1
  BY <1>1, ClosableIs DEF Against, Near
<1>2. CASE d = -1
  BY <1>2, ClosableIs DEF Against, Near
<1> QED BY <1>1, <1>2 DEF Sides

\* An order that is against the position stays so while the position shrinks.
LEMMA SmallerClosed ==
  ASSUME net \in Int, net' \in Int, PartOf(net', net), untold \in Nat, untold' \in Nat,
         untold <= untold', NEW d \in Sides, NEW m \in Nat, NEW k \in Nat, m <= k
  PROVE  /\ Against(d) => IF d = 1 THEN net' <= untold' ELSE 0 - untold' <= net'
         /\ Closes(d, m) => IF d = 1 THEN net' <= untold' /\ 0 - k - untold' <= net'
                            ELSE 0 - untold' <= net' /\ net' <= k + untold'
<1>1. ASSUME NEW n \in Int, NEW o \in Int, NEW u \in Nat, NEW w \in Nat, u <= w, PartOf(o, n)
      PROVE  /\ n <= u => o <= w
             /\ 0 - u <= n => 0 - w <= o
             /\ 0 - m - u <= n /\ n <= u => 0 - k - w <= o
             /\ n <= m + u /\ 0 - u <= n => o <= k + w
  BY <1>1 DEF PartOf
<1>2. /\ net <= untold => net' <= untold'
      /\ 0 - untold <= net => 0 - untold' <= net'
      /\ 0 - m - untold <= net /\ net <= untold => 0 - k - untold' <= net'
      /\ net <= m + untold /\ 0 - untold <= net => net' <= k + untold'
  BY <1>1
<1> QED BY <1>2 DEF Against, Closes

\* What the rest of a stop is sent for covers all that is known to be held.
LEMMA MarketCloses ==
  ASSUME net \in Int, untold \in Nat, NEW d \in Sides, NEW m \in Nat, Closes(d, m)
  PROVE  Near(net + d * Least(m, Closable(d)), 0, untold)
<1>1. CASE d = 1
  BY <1>1, ClosableIs DEF Least, Closes, Against, Near
<1>2. CASE d = -1
  <2>1. \A k \in Int : d * k = -k
    BY <1>2
  <2>2. Least(m, Closable(d)) \in Int
    BY <1>2, ClosableIs DEF Least
  <2>3. net + d * Least(m, Closable(d)) = net - Least(m, Closable(d))
    BY <2>1, <2>2
  <2> QED BY <1>2, <2>3, ClosableIs DEF Least, Closes, Against, Near
<1> QED BY <1>1, <1>2 DEF Sides

\* A chase sized to the belief closes all that is known to be held.
LEMMA BeliefCloses ==
  ASSUME net \in Int, untold \in Nat, position \in Int, position # 0, Within(net, position, untold)
  PROVE  Closes(-Sign(position), Abs(position))
<1>1. CASE position > 0
  <2>1. Sign(position) = 1 /\ Abs(position) = position /\ -1 # 1
    BY <1>1 DEF Sign, Abs
  <2> QED BY <1>1, <2>1 DEF Closes, Against, Within
<1>2. CASE position < 0
  <2>1. Sign(position) = -1 /\ Abs(position) = -position
    BY <1>2 DEF Sign, Abs
  <2>2. -Sign(position) = 1
    <3>1. Sign(position) + 1 = 0 /\ Sign(position) \in Int
      BY <2>1
    <3>2. \A k \in Int : k + 1 = 0 => -k = 1
      OBVIOUS
    <3> QED BY <3>1, <3>2, Zenon
  <2>3. 0 - Abs(position) = position
    BY <1>2, <2>1
  <2> QED BY <1>2, <2>2, <2>3 DEF Closes, Against, Within
<1> QED BY <1>1, <1>2

LEMMA CleanTypes ==
  ASSUME LiveInv, QuantityInv
  PROVE  /\ net \in Int /\ position \in Int /\ entry.got \in Int /\ chase \in [Tasks -> ChaseRec]
         /\ entry \in [pc : EntryPcs, side : Sides \cup {0}, got : Int]
         /\ \A t \in Tasks :
              /\ chase[t].size \in Nat /\ chase[t].done \in Nat /\ chase[t].seen \in Nat
              /\ chase[t].left \in Nat /\ chase[t].placed \in BOOLEAN
              /\ ChaseInv(t)
              /\ Chasing(t) => InOrder(chase[t]) /\ chase[t].dir \in Sides
         /\ EntryLeg => entry.side \in Sides /\ position = 0 /\ ~ActiveStop
BY DEF LiveInv, ValuesInv, QuantityInv, ChaseInv, InOrder, ChaseRec, EntryInv

\* Out of a running session, only an entry at work is looked at.
LEMMA OffClean ==
  ASSUME proc' # "running", untold' \in Nat, OwnInv', FlatInv'
  PROVE  CleanInv'
BY DEF CleanInv, HoldInv, WholeInv

\* More that nobody was told of leaves what an entry owns within it.
LEMMA StillOwns ==
  ASSUME LiveInv, QuantityInv, CleanInv, Grown, UNCHANGED <<net, orphans>>,
         entry'.pc = "entering" =>
           /\ entry.pc = "entering" /\ entry'.side = entry.side
           /\ chase'["entry"].dir = chase["entry"].dir /\ chase'["entry"].done = chase["entry"].done
  PROVE  OwnInv'
<1>1. \A n, b, u, w \in Int : u <= w /\ Near(n, b, u) => Near(n, b, w)
  BY DEF Near
<1>2. SUFFICES ASSUME entry'.pc = "entering" PROVE OwnInv'
  BY DEF OwnInv
<1>3. chase["entry"].done \in Nat
  BY CleanTypes DEF Tasks
<1> DEFINE b == IF entry.side = 1 THEN chase["entry"].done ELSE -chase["entry"].done
<1>4. b \in Int /\ Near(net, b, untold)
  BY <1>2, <1>3 DEF CleanInv, OwnInv
<1>5. Near(net, b, untold')
  BY <1>1, <1>4, CleanTypes DEF Grown, CleanInv
<1> QED BY <1>2, <1>5 DEF OwnInv, CleanInv

\* A chase that closes goes on, and takes nothing but from what is held.
LEMMA ShrinkClean ==
  ASSUME LiveInv, QuantityInv, CleanInv, Grown, UNCHANGED <<session, entry, stop, orphans>>,
         NEW t \in Tasks, Chasing(t), ReduceOnly(t), net' \in Int, PartOf(net', net),
         NEW c, chase' = [chase EXCEPT ![t] = c], c.dir = chase[t].dir, c.size = chase[t].size,
         proc = "running" /\ t = "stop" =>
           IF c.dir = 1 THEN 0 - (c.size - c.done) - untold' <= net'
           ELSE net' <= (c.size - c.done) + untold'
  PROVE  CleanInv'
<1>0. /\ UNCHANGED <<proc, position, entry, stop, orphans>>
      /\ ~EntryLeg /\ (t = "entry" => entry.pc = "closing") /\ (t = "stop" => ActiveStop)
      /\ untold \in Nat /\ untold' \in Nat /\ untold <= untold'
  BY CleanTypes DEF session, Chasing, ReduceOnly, EntryLeg, ActiveStop, Tasks, Grown, CleanInv
<1>1. OwnInv' /\ FlatInv'
  BY <1>0 DEF OwnInv, FlatInv, CleanInv, EntryLeg
<1>2. CASE proc # "running"
  BY <1>0, <1>1, <1>2, OffClean
<1>3. CASE proc = "running"
  <2>1. /\ orphans = <<>> /\ Within(net, position, untold) /\ entry.pc # "account"
        /\ entry.pc = "closing" => Against(chase["entry"].dir)
        /\ entry.pc = "told" => Within(net, entry.got, untold)
        /\ stop = "chasing" => Closes(chase["stop"].dir, chase["stop"].size - chase["stop"].done)
    BY <1>0, <1>3 DEF CleanInv, HoldInv, EntryLeg
  <2>2. Within(net', position, untold') /\ (entry.pc = "told" => Within(net', entry.got, untold'))
    BY <1>0, <2>1, NearFacts, CleanTypes
  <2>3. /\ chase'[t] = c /\ \A u \in Tasks \ {t} : chase'[u] = chase[u]
        /\ "entry" \in Tasks /\ "stop" \in Tasks
    BY CleanTypes DEF Tasks
  <2>4. entry.pc = "closing" => Against(chase["entry"].dir)'
    <3>1. SUFFICES ASSUME entry.pc = "closing" PROVE Against(chase["entry"].dir)'
      OBVIOUS
    <3>2. chase'["entry"].dir = chase["entry"].dir /\ chase["entry"].dir \in Sides
      BY <2>3, <3>1, CleanTypes DEF Chasing
    <3> QED BY <1>0, <2>1, <3>1, <3>2, SmallerClosed, CleanTypes DEF Against
  <2>5. stop = "chasing" => Closes(chase["stop"].dir, chase["stop"].size - chase["stop"].done)'
    <3>1. SUFFICES ASSUME stop = "chasing"
                   PROVE  Closes(chase["stop"].dir, chase["stop"].size - chase["stop"].done)'
      OBVIOUS
    <3> DEFINE m == chase["stop"].size - chase["stop"].done
    <3>2. chase["stop"].dir \in Sides /\ m \in Nat /\ chase'["stop"].dir = chase["stop"].dir
      BY <2>3, <3>1, CleanTypes DEF InOrder, Chasing
    <3>3. m <= m
      BY <3>2
    <3>4. IF chase["stop"].dir = 1 THEN net' <= untold' /\ 0 - m - untold' <= net'
          ELSE 0 - untold' <= net' /\ net' <= m + untold'
      <4> HIDE DEF m
      <4>1. Closes(chase["stop"].dir, m)
        BY <2>1, <3>1 DEF m
      <4> QED BY <1>0, <3>2, <3>3, <4>1, SmallerClosed, CleanTypes
    <3>5. CASE t = "stop"
      BY <1>3, <2>3, <3>2, <3>4, <3>5 DEF Closes, Against
    <3>6. CASE t # "stop"
      BY <2>3, <3>2, <3>4, <3>6 DEF Closes, Against
    <3> QED BY <3>5, <3>6
  <2>6. HoldInv'
    BY <1>0, <2>1, <2>2, <2>4, <2>5 DEF HoldInv, EntryLeg
  <2>7. WholeInv'
    BY <1>0 DEF WholeInv, ActiveEntry, ActiveStop, Tasks
  <2> QED BY <1>0, <1>1, <2>6, <2>7 DEF CleanInv
<1> QED BY <1>2, <1>3

\* The chase of an entry goes on.
LEMMA EnteringClean ==
  ASSUME LiveInv, QuantityInv, CleanInv, Grown, UNCHANGED <<session, entry, stop, orphans>>,
         entry.pc = "entering", NEW c, chase' = [chase EXCEPT !["entry"] = c],
         c.dir = chase["entry"].dir,
         Near(net', IF entry.side = 1 THEN c.done ELSE -c.done, untold')
  PROVE  CleanInv'
<1>1. chase'["entry"] = c /\ EntryLeg /\ ~ActiveStop
  BY CleanTypes DEF Tasks, EntryLeg
<1>2. UNCHANGED <<proc, position, entry, stop, orphans>> /\ untold' \in Nat
  BY DEF session, Grown
<1>3. OwnInv'
  BY <1>1, <1>2 DEF OwnInv, CleanInv
<1> QED
  BY <1>1, <1>2, <1>3
  DEF CleanInv, HoldInv, WholeInv, FlatInv, EntryLeg, ActiveEntry, ActiveStop

\* A chase goes on and executes nothing: what a new order has not executed of what the
\* last one did is told to nobody.
LEMMA SameNetClean ==
  ASSUME LiveInv, CancelledInv, QuantityInv, CleanInv, Grown,
         UNCHANGED <<session, entry, stop, net, orphans>>,
         NEW t \in Tasks, Chasing(t), NEW c, chase' = [chase EXCEPT ![t] = c],
         c.dir = chase[t].dir, c.size = chase[t].size, c.done \in Nat, c.done <= chase[t].done,
         entry.pc = "entering" => untold + (chase[t].done - c.done) <= untold'
  PROVE  CleanInv'
<1>0. /\ untold \in Nat /\ untold' \in Nat /\ untold <= untold'
      /\ net \in Int /\ net' = net /\ chase[t].done \in Nat /\ chase[t].size \in Nat
      /\ chase[t].left \in Nat
      /\ InOrder(chase[t]) /\ chase[t].dir \in Sides
  BY CleanTypes DEF Grown, CleanInv
<1>1. CASE ReduceOnly(t)
  <2>1. PartOf(net', net) /\ net' \in Int
    BY <1>0, NearFacts
  <2>2. ASSUME proc = "running", t = "stop"
        PROVE  IF c.dir = 1 THEN 0 - (c.size - c.done) - untold' <= net'
               ELSE net' <= (c.size - c.done) + untold'
    <3>1. stop = "chasing" \/ stop = "cancelled"
      BY <2>2 DEF Chasing
    <3> DEFINE m == chase[t].size - chase[t].done
               k == c.size - c.done
    <3>2. m \in Nat /\ k \in Nat /\ m <= k
      BY <1>0 DEF InOrder
    <3>3. CASE stop = "chasing"
      <4>1. Closes(chase[t].dir, m)
        BY <2>2, <3>3 DEF CleanInv, HoldInv
      <4>2. IF chase[t].dir = 1 THEN net' <= untold' /\ 0 - k - untold' <= net'
            ELSE 0 - untold' <= net' /\ net' <= k + untold'
        <5> HIDE DEF m, k
        <5> QED BY <1>0, <2>1, <3>2, <4>1, SmallerClosed
      <4> QED BY <4>2
    <3>4. CASE stop = "cancelled"
      BY <2>2, <3>4 DEF CancelledInv
    <3> QED BY <3>1, <3>3, <3>4
  <2> QED BY <1>1, <2>1, <2>2, ShrinkClean
<1>2. CASE ~ReduceOnly(t)
  <2>1. t = "entry" /\ entry.pc = "entering" /\ entry.side \in Sides
    BY <1>2, CleanTypes DEF ReduceOnly, Chasing, Tasks, EntryLeg
  <2>2. Near(net, IF entry.side = 1 THEN chase["entry"].done ELSE -chase["entry"].done, untold)
    BY <2>1 DEF CleanInv, OwnInv
  <2>3. Near(net', IF entry.side = 1 THEN c.done ELSE -c.done, untold')
    BY <1>0, <2>1, <2>2 DEF Near
  <2> QED BY <2>1, <2>3, EnteringClean
<1> QED BY <1>1, <1>2

\* An order that closes has the position on its other side while the session runs.
LEMMA ClosingAgainst ==
  ASSUME LiveInv, CancelledInv, QuantityInv, CleanInv, NEW t \in Tasks, Chasing(t), ReduceOnly(t),
         proc = "running"
  PROVE  /\ Against(chase[t].dir)
         /\ t = "stop" => Closes(chase[t].dir, chase[t].size - chase[t].done)
<1>1. CASE t = "stop"
  <2>1. stop = "chasing"
    BY <1>1 DEF Chasing, CancelledInv
  <2> QED BY <1>1, <2>1 DEF CleanInv, HoldInv, Closes
<1>2. CASE t = "entry"
  BY <1>2 DEF Chasing, ReduceOnly, CleanInv, HoldInv
<1> QED BY <1>1, <1>2 DEF Tasks

LEMMA FillClean ==
  ASSUME LiveInv, CancelledInv, QuantityInv, CleanInv, Grown,
         NEW t \in Tasks, NEW n \in 1..MaxNet, Fill(t, n)
  PROVE  CleanInv'
<1> DEFINE c == [chase[t] EXCEPT !.left = @ - n, !.done = @ + n]
<1>1. /\ chase' = [chase EXCEPT ![t] = c] /\ Chasing(t) /\ n <= chase[t].left
      /\ ReduceOnly(t) => n <= Closable(chase[t].dir)
      /\ net' = net + chase[t].dir * n
      /\ UNCHANGED <<session, entry, stop, orphans>>
  BY CleanTypes DEF Fill
<1>2. /\ n \in Nat \ {0} /\ chase[t].dir \in Sides /\ net' \in Int /\ net \in Int
      /\ untold \in Nat /\ untold' \in Nat /\ untold <= untold'
      /\ chase[t].size \in Nat /\ chase[t].done \in Nat
  BY <1>1, CleanTypes, LiveAssumption DEF Sides, CleanInv, Grown
<1>3. c.dir = chase[t].dir /\ c.size = chase[t].size /\ c.done = chase[t].done + n
  BY CleanTypes DEF ChaseRec
<1>4. chase'[t] = c
  BY <1>1, CleanTypes
<1> HIDE DEF c
<1>5. CASE ReduceOnly(t)
  <2>1. PartOf(net', net)
    BY <1>1, <1>2, <1>5, FillShrinks
  <2>2. ASSUME proc = "running", t = "stop"
        PROVE  IF c.dir = 1 THEN 0 - (c.size - c.done) - untold' <= net'
               ELSE net' <= (c.size - c.done) + untold'
    <3> DEFINE m == chase[t].size - chase[t].done
    <3>1. Closes(chase[t].dir, m) /\ m \in Int
      BY <1>1, <1>2, <1>5, <2>2, ClosingAgainst
    <3>2. IF chase[t].dir = 1 THEN 0 - (m - n) - untold <= net' ELSE net' <= (m - n) + untold
      <4> HIDE DEF m
      <4> QED BY <1>1, <1>2, <1>5, <3>1, FillShrinks
    <3>3. m - n = c.size - c.done
      BY <1>2, <1>3
    <3>4. ASSUME NEW k \in Int, NEW o \in Int, NEW u \in Nat, NEW w \in Nat, u <= w
          PROVE  /\ 0 - k - u <= o => 0 - k - w <= o
                 /\ o <= k + u => o <= k + w
      BY <3>4
    <3>5. m - n \in Int
      BY <1>2, <3>1
    <3> HIDE DEF m
    <3> QED BY <1>2, <1>3, <3>2, <3>3, <3>4, <3>5
  <2> QED BY <1>1, <1>2, <1>3, <1>5, <2>1, <2>2, ShrinkClean
<1>6. CASE ~ReduceOnly(t)
  <2>1. t = "entry" /\ entry.pc = "entering" /\ entry.side \in Sides
    BY <1>1, <1>6, CleanTypes DEF ReduceOnly, Chasing, EntryLeg, Tasks
  <2>2. chase[t].dir = entry.side
        /\ Near(net, IF entry.side = 1 THEN chase[t].done ELSE -chase[t].done, untold)
    BY <2>1 DEF CleanInv, OwnInv
  <2>3. Near(net', IF entry.side = 1 THEN c.done ELSE -c.done, untold')
    BY <1>1, <1>2, <1>3, <2>1, <2>2 DEF Near, Sides
  <2> QED BY <1>1, <1>3, <2>1, <2>3, EnteringClean
<1> QED BY <1>5, <1>6

LEMMA ExchangeClean ==
  ASSUME LiveInv, CancelledInv, QuantityInv, CleanInv, Grown, ExchangeStep
  PROVE  CleanInv'
<1>1. ASSUME NEW t \in Tasks, NEW n \in 1..MaxNet, Fill(t, n) PROVE CleanInv'
  BY <1>1, FillClean
<1>2. ASSUME NEW t \in Tasks, OrderEnds(t) PROVE CleanInv'
  <2> DEFINE c == [chase[t] EXCEPT !.left = 0]
  <2>1. /\ chase' = [chase EXCEPT ![t] = c] /\ Chasing(t)
        /\ UNCHANGED <<session, entry, stop, net, orphans>>
    BY <1>2, CleanTypes DEF OrderEnds
  <2>2. c.dir = chase[t].dir /\ c.size = chase[t].size /\ c.done = chase[t].done
        /\ chase[t].done \in Nat
    BY CleanTypes DEF ChaseRec
  <2> HIDE DEF c
  <2>3. c.done <= chase[t].done /\ untold + (chase[t].done - c.done) <= untold'
    BY <2>2 DEF Grown, CleanInv
  <2> QED BY <2>1, <2>2, <2>3, SameNetClean
<1>3. ASSUME NEW i \in DOMAIN orphans, OrphanFills(i) \/ OrphanExpires(i) PROVE CleanInv'
  <2>1. orphans # <<>>
    BY <1>3
  <2>2. proc # "running" /\ entry.pc # "entering"
    BY <2>1 DEF CleanInv, OwnInv, HoldInv
  <2>3. UNCHANGED <<proc, position, entry>>
    BY <1>3 DEF OrphanFills, OrphanExpires, session
  <2> QED BY <2>2, <2>3, OffClean DEF OwnInv, FlatInv, CleanInv, Grown
<1>4. CASE Operator
  <2>1. UNCHANGED <<proc, position, entry>> /\ proc = "down" /\ entry.pc = "idle"
    BY <1>4 DEF Operator, session, LiveInv, NoTasksInv, Down, ActiveEntry
  <2> QED BY <2>1, OffClean DEF OwnInv, FlatInv, Grown
<1> QED BY <1>1, <1>2, <1>3, <1>4 DEF ExchangeStep
-----------------------------------------------------------------------------
(***************************************************************************)
(* The ends of the chases.                                                 *)
(***************************************************************************)

\* What a step that neither settles nor ends the process adds to the history.
Told ==
  /\ Grown
  /\ EntryLoses => untold + chase["entry"].done <= untold'
  /\ ~ActiveStop' /\ (DiesOfEnd("stop") \/ (entry.pc = "closing" /\ DiesOfEnd("entry"))) => refused'

LEMMA GrownTypes ==
  ASSUME LiveInv, QuantityInv, CleanInv, Grown
  PROVE  /\ untold \in Nat /\ untold' \in Nat /\ untold <= untold'
         /\ \A b \in Int : Near(net, b, untold) => Near(net, b, untold')
         /\ \A p \in Int : Within(net, p, untold) => Within(net, p, untold')
<1>1. untold \in Nat /\ untold' \in Nat /\ untold <= untold' /\ net \in Int
  BY CleanTypes DEF Grown, CleanInv
<1>2. ASSUME NEW n \in Int, NEW b \in Int, NEW u \in Nat, NEW w \in Nat, u <= w
      PROVE  /\ Near(n, b, u) => Near(n, b, w)
             /\ Within(n, b, u) => Within(n, b, w)
  BY <1>2 DEF Near, Within
<1> QED BY <1>1, <1>2

\* With the position as it was, what closes it still does.
LEMMA HoldKept ==
  ASSUME LiveInv, QuantityInv, CleanInv, Grown, proc = "running",
         UNCHANGED <<proc, net, orphans>>,
         ~EntryLeg' => Within(net, position', untold'),
         entry'.pc = "account" => Near(net, 0, untold'),
         entry'.pc = "closing" => entry.pc = "closing" /\ chase'["entry"].dir = chase["entry"].dir,
         entry'.pc = "told" => Within(net, entry'.got, untold'),
         stop' = "chasing" => stop = "chasing" /\ chase'["stop"] = chase["stop"]
  PROVE  HoldInv'
<1>1. /\ orphans = <<>> /\ net \in Int
      /\ entry.pc = "closing" => Against(chase["entry"].dir)
      /\ stop = "chasing" => Closes(chase["stop"].dir, chase["stop"].size - chase["stop"].done)
  BY CleanTypes DEF CleanInv, HoldInv
<1>2. ASSUME NEW n \in Int, NEW k \in Int, NEW u \in Nat, NEW w \in Nat, u <= w
      PROVE  /\ n <= u => n <= w
             /\ 0 - u <= n => 0 - w <= n
             /\ 0 - k - u <= n => 0 - k - w <= n
             /\ n <= k + u => n <= k + w
  BY <1>2
<1>3. entry'.pc = "closing" => Against(chase["entry"].dir)'
  BY <1>1, <1>2, GrownTypes DEF Against
<1>4. stop' = "chasing" => Closes(chase["stop"].dir, chase["stop"].size - chase["stop"].done)'
  <2>1. SUFFICES ASSUME stop' = "chasing"
                 PROVE  Closes(chase["stop"].dir, chase["stop"].size - chase["stop"].done)'
    OBVIOUS
  <2>2. chase["stop"].size - chase["stop"].done \in Int
    BY CleanTypes DEF Tasks
  <2> QED BY <1>1, <1>2, <2>1, <2>2, GrownTypes DEF Closes, Against
<1> QED BY <1>1, <1>3, <1>4 DEF HoldInv

\* With nothing known to be held, nothing is wrong about a stop that ends.
LEMMA StopEndsClean ==
  ASSUME LiveInv, QuantityInv, CleanInv, Grown, stop' = "idle", UNCHANGED <<proc, entry, orphans>>,
         chase'["entry"] = chase["entry"], ~EntryLeg, net' \in Int, position' \in {0, position},
         proc = "running" => Near(net', 0, untold')
  PROVE  CleanInv'
<1>1. FlatInv' /\ OwnInv' /\ untold' \in Nat
  BY DEF FlatInv, OwnInv, CleanInv, EntryLeg, Grown
<1>2. CASE proc # "running"
  BY <1>1, <1>2, OffClean
<1>3. CASE proc = "running"
  <2>1. \A p \in Int : Within(net', p, untold')
    BY <1>1, <1>3, NearFacts
  <2>2. position' \in Int /\ entry.got \in Int
    BY CleanTypes
  <2>3. entry.pc = "closing" => Against(chase["entry"].dir)'
    <3>1. \A n \in Int, u \in Nat : Near(n, 0, u) => n <= u /\ 0 - u <= n
      BY DEF Near
    <3>2. net' <= untold' /\ 0 - untold' <= net'
      BY <1>1, <1>3, <3>1
    <3> QED BY <3>2 DEF Against
  <2>4. HoldInv'
    BY <1>3, <2>1, <2>2, <2>3 DEF HoldInv, CleanInv, EntryLeg
  <2>5. WholeInv'
    BY <1>3 DEF WholeInv
  <2> QED BY <1>1, <2>4, <2>5 DEF CleanInv
<1> QED BY <1>2, <1>3

\* A task whose close dies leaves nothing, or somebody who knows.
LEMMA DiesClean ==
  ASSUME LiveInv, QuantityInv, CleanInv, Grown, NEW t \in Tasks, Chasing(t), ReduceOnly(t),
         Dies(t), UNCHANGED orphans, proc \in {"running", "stopping"},
         proc = "running" /\ ~ActiveStop' => refused' \/ Near(net, 0, untold)
  PROVE  CleanInv'
<1>1. UNCHANGED <<proc, position, net>> /\ ~EntryLeg
  BY CleanTypes DEF Dies, session, Chasing, ReduceOnly, EntryLeg, ActiveStop, Tasks
<1>2. /\ entry' = entry \/ entry'.pc = "idle"
      /\ entry'.pc = "closing" => entry' = entry /\ chase'["entry"] = chase["entry"]
      /\ stop' = "chasing" => stop' = stop /\ chase'["stop"] = chase["stop"]
  BY IdleType, CleanTypes DEF Dies, EntryEnds, StopEnds, Tasks
<1>3. FlatInv' /\ OwnInv' /\ untold' \in Nat
  BY <1>1, <1>2 DEF FlatInv, CleanInv, OwnInv, EntryLeg, Grown
<1>4. CASE proc = "running"
  <2>1. Within(net, position, untold) /\ (entry.pc = "told" => Within(net, entry.got, untold))
    BY <1>1, <1>4 DEF CleanInv, HoldInv
  <2>2. Within(net, position', untold') /\ (entry.pc = "told" => Within(net, entry.got, untold'))
    BY <1>1, <2>1, GrownTypes, CleanTypes
  <2>3. HoldInv'
    BY <1>1, <1>2, <1>4, <2>2, HoldKept DEF EntryLeg
  <2>4. WholeInv'
    <3>1. SUFFICES ASSUME ~ActiveStop', ~refused'
                   PROVE  WholeInv'
      BY DEF WholeInv
    <3>2. Near(net', 0, untold')
      BY <1>1, <1>4, <3>1, GrownTypes
    <3> QED BY <3>2 DEF WholeInv
  <2> QED BY <1>3, <2>3, <2>4 DEF CleanInv
<1>5. CASE proc # "running"
  BY <1>1, <1>3, <1>5, OffClean
<1> QED BY <1>4, <1>5

\* A stop that returns has closed everything that is known to be held.
LEMMA StopReturnsClean ==
  ASSUME LiveInv, QuantityInv, CleanInv, Grown, Chasing("stop"), NEW filled, net' \in Int,
         Returns("stop", TRUE, filled), proc = "running" => Near(net', 0, untold')
  PROVE  CleanInv'
<1>1. /\ UNCHANGED <<proc, entry, orphans>> /\ position' = 0 /\ stop' = "idle" /\ ~EntryLeg
      /\ chase'["entry"] = chase["entry"]
  BY CleanTypes DEF Returns, StopResult, StopEnds, Chasing, ActiveStop, Tasks
<1> QED BY <1>1, StopEndsClean

\* A close of the entry that returns leaves what is held for the question that follows.
LEMMA CloseReturnsClean ==
  ASSUME LiveInv, QuantityInv, CleanInv, Grown, entry.pc = "closing", proc = "running",
         NEW success, NEW filled, Returns("entry", success, filled), UNCHANGED net
  PROVE  CleanInv'
<1>1. /\ entry' = [entry EXCEPT !.pc = "asking"] /\ UNCHANGED <<proc, position, stop, orphans, net>>
      /\ chase' = [chase EXCEPT !["entry"] = NoChase]
  BY DEF Returns
<1>2. entry'.pc = "asking" /\ chase'["stop"] = chase["stop"]
  BY <1>1, CleanTypes DEF Tasks
<1>3. OwnInv' /\ FlatInv' /\ WholeInv' /\ untold' \in Nat
  BY <1>1, <1>2 DEF OwnInv, FlatInv, WholeInv, ActiveEntry, Grown
<1>4. Within(net, position', untold')
  BY <1>1, GrownTypes, CleanTypes DEF CleanInv, HoldInv, EntryLeg
<1>5. HoldInv'
  BY <1>1, <1>2, <1>4, HoldKept
<1> QED BY <1>3, <1>5 DEF CleanInv

\* Nothing of an entry is left at work, and what it leaves is believed or told to nobody.
LEMMA EntryOverClean ==
  ASSUME LiveInv, QuantityInv, CleanInv, Grown, entry.pc = "entering", proc = "running",
         UNCHANGED <<proc, stop, net, orphans>>, entry'.pc = "idle", position' \in Int,
         Near(net, position', untold')
  PROVE  CleanInv'
<1>1. stop = "idle" /\ orphans = <<>>
  BY CleanTypes DEF CleanInv, HoldInv, ActiveStop, EntryLeg
<1>2. untold' \in Nat /\ Within(net, position', untold')
  BY NearFacts, CleanTypes DEF Grown
<1> QED
  BY <1>1, <1>2
  DEF CleanInv, OwnInv, HoldInv, WholeInv, FlatInv, EntryLeg, ActiveEntry, ActiveStop

\* An entry that returns is believed to hold what its last order executed.
LEMMA EntryReturnsClean ==
  ASSUME LiveInv, QuantityInv, CleanInv, Grown, entry.pc = "entering", proc = "running",
         NEW success, Returns("entry", success, chase["entry"].done), UNCHANGED net,
         chase["entry"].done > 0 => success
  PROVE  CleanInv'
<1> DEFINE n == chase["entry"].done
<1>1. UNCHANGED <<proc, stop, orphans, net>> /\ entry' = Idle /\ entry'.pc = "idle"
  BY IdleType DEF Returns, EntryResult, EntryEnds
<1>2. position = 0 /\ entry.side \in Sides /\ n \in Nat
      /\ Near(net, IF entry.side = 1 THEN n ELSE -n, untold)
  BY CleanTypes DEF CleanInv, OwnInv, EntryLeg, Tasks
<1>3. position' = IF n > 0 THEN entry.side * n ELSE 0
  BY <1>2 DEF Returns, EntryResult
<1>4. position' \in Int /\ Near(net, position', untold)
  <2> HIDE DEF n
  <2>1. CASE n = 0
    BY <1>2, <1>3, <2>1, CleanTypes DEF Near, CleanInv
  <2>2. CASE n > 0 /\ entry.side = 1
    BY <1>2, <1>3, <2>2
  <2>3. CASE n > 0 /\ entry.side = -1
    <3>1. position' = -n /\ -n \in Int /\ entry.side # 1
      BY <1>2, <1>3, <2>3
    <3> QED BY <1>2, <3>1
  <2> QED BY <1>2, <2>1, <2>2, <2>3 DEF Sides
<1>5. Near(net, position', untold')
  BY <1>4, GrownTypes
<1> QED BY <1>1, <1>4, <1>5, EntryOverClean

\* With no fill that comes late, a chase that concludes reports all its order executed.
LEMMA ReportedAll ==
  ASSUME LiveInv, QuantityInv, Undisturbed, NEW t \in Tasks, MayConclude(t)
  PROVE  Reported(t) = chase[t].done /\ Chasing(t)
<1>1. Chasing(t) /\ InOrder(chase[t]) /\ chase[t].done \in Nat /\ chase[t].seen \in Nat
      /\ chase[t].left \in Nat
  BY CleanTypes DEF MayConclude
<1> QED BY <1>1 DEF MayConclude, Reported, Ended, InOrder, Undisturbed

LEMMA PlacesClean ==
  ASSUME LiveInv, CancelledInv, QuantityInv, CleanInv, Told, NEW t \in Tasks, Places(t),
         proc \in {"running", "stopping"}
  PROVE  CleanInv'
<1>0. Grown /\ Chasing(t) /\ untold \in Nat /\ untold' \in Nat /\ untold <= untold'
      /\ chase[t].done \in Nat /\ chase[t].size \in Nat /\ chase[t].dir \in Sides
  BY CleanTypes, GrownTypes DEF Told, Places
<1>1. CASE ReduceOnly(t) /\ Closable(chase[t].dir) = 0
  <2>1. proc = "running" => Near(net, 0, untold)
    BY <1>0, <1>1, ClosingAgainst, NothingToClose, CleanTypes
  <2> QED BY <1>0, <1>1, <2>1, DiesClean DEF Places
<1>2. CASE ~(ReduceOnly(t) /\ Closable(chase[t].dir) = 0)
  <2> DEFINE c == PlacedChase(chase[t].dir, chase[t].size)
  <2>1. chase' = [chase EXCEPT ![t] = c] /\ UNCHANGED <<session, entry, stop, net, orphans>>
    BY <1>2 DEF Places, PlacedChase
  <2>2. c.dir = chase[t].dir /\ c.size = chase[t].size /\ c.done = 0
    BY <1>0, PlacedType
  <2>3. ASSUME entry.pc = "entering" PROVE untold + chase[t].done <= untold'
    <3>1. t = "entry"
      BY <1>0, <2>3, CleanTypes DEF Chasing, EntryLeg, ActiveStop, Tasks
    <3>2. CASE chase[t].placed
      <4>1. Ended("entry")
        BY <3>1, <3>2 DEF Places
      <4> QED BY <2>3, <3>1, <4>1 DEF EntryLoses, Told
    <3>3. CASE ~chase[t].placed
      <4>1. chase[t].done = 0
        BY <1>0, <3>3, CleanTypes DEF InOrder
      <4> QED BY <1>0, <4>1
    <3> QED BY <3>2, <3>3
  <2>4. c.done \in Nat /\ c.done <= chase[t].done /\ chase[t].done - c.done = chase[t].done
    BY <1>0, <2>2
  <2> HIDE DEF c
  <2> QED BY <1>0, <2>1, <2>2, <2>3, <2>4, SameNetClean
<1> QED BY <1>1, <1>2

LEMMA RefusedClean ==
  ASSUME LiveInv, CancelledInv, QuantityInv, CleanInv, Undisturbed, Told, NEW t \in Tasks,
         CancelRefused(t), proc \in {"running", "stopping"}, t = "entry" => proc = "running"
  PROVE  CleanInv'
<1>0. Grown /\ Dies(t) /\ UNCHANGED orphans /\ Chasing(t)
      /\ chase[t].placed /\ chase[t].left = 0 /\ chase[t].done # chase[t].size
      /\ InOrder(chase[t]) /\ chase[t].done \in Nat /\ chase[t].size \in Nat
      /\ chase[t].dir \in Sides
  BY CleanTypes DEF Told, CancelRefused, Undisturbed
<1>1. Ended(t)
  BY <1>0 DEF Ended, InOrder
<1>2. CASE ReduceOnly(t)
  <2>1. SUFFICES ASSUME proc = "running", ~ActiveStop', ~(refused')
                 PROVE  Near(net, 0, untold)
    BY <1>0, <1>2, DiesClean
  <2>2. ~(Closable(chase[t].dir) > 0)
    BY <1>0, <1>1, <1>2, <2>1 DEF DiesOfEnd, Told, ReduceOnly, Tasks
  <2>3. Closable(chase[t].dir) = 0
    BY <1>0, <2>2, ClosableType DEF Sides
  <2> QED BY <1>0, <1>2, <2>1, <2>3, ClosingAgainst, NothingToClose, CleanTypes DEF CleanInv
<1>3. CASE ~ReduceOnly(t)
  <2>1. t = "entry" /\ entry.pc = "entering" /\ EntryLeg /\ proc = "running"
    BY <1>0, <1>3, CleanTypes DEF ReduceOnly, Chasing, EntryLeg, Tasks
  <2>2. untold + chase["entry"].done <= untold'
    BY <1>1, <2>1 DEF EntryLoses, Told
  <2>3. UNCHANGED <<proc, position, stop, net, orphans>> /\ entry'.pc = "idle"
    BY <1>0, <2>1, IdleType DEF Dies, EntryEnds, session
  <2>4. position = 0 /\ position' \in Int
    BY <2>1, <2>3, CleanTypes
  <2>5. Near(net, 0, untold')
    <3>1. Near(net, IF entry.side = 1 THEN chase["entry"].done ELSE -chase["entry"].done, untold)
      BY <2>1 DEF CleanInv, OwnInv
    <3>2. ASSUME NEW n \in Int, NEW d \in Nat, NEW u \in Nat, NEW w \in Nat, u + d <= w,
                 NEW s \in Sides, Near(n, IF s = 1 THEN d ELSE -d, u)
          PROVE  Near(n, 0, w)
      BY <3>2 DEF Near, Sides
    <3>3. net \in Int /\ untold \in Nat /\ untold' \in Nat /\ entry.side \in Sides
      BY <1>0, <2>1, CleanTypes, GrownTypes
    <3> QED BY <1>0, <2>1, <2>2, <3>1, <3>2, <3>3
  <2> QED BY <1>0, <2>1, <2>3, <2>4, <2>5, EntryOverClean
<1> QED BY <1>2, <1>3

LEMMA FilledClean ==
  ASSUME LiveInv, CancelledInv, QuantityInv, CleanInv, Grown, NEW t \in Tasks, SeesFilled(t),
         proc \in {"running", "stopping"}, t = "entry" => proc = "running"
  PROVE  CleanInv'
<1>1. /\ Chasing(t) /\ chase[t].done = chase[t].size /\ UNCHANGED net
      /\ Returns(t, TRUE, chase[t].done) /\ chase[t].done \in Nat /\ net \in Int
  BY CleanTypes DEF SeesFilled
<1>2. CASE t = "stop"
  <2>1. ASSUME proc = "running" PROVE Near(net', 0, untold')
    <3>1. Closes(chase["stop"].dir, chase["stop"].size - chase["stop"].done)
      BY <1>1, <1>2, <2>1, ClosingAgainst DEF ReduceOnly
    <3>2. chase["stop"].size - chase["stop"].done = 0
      BY <1>1, <1>2
    <3>3. \A d \in Int : Closes(d, 0) => Near(net, 0, untold)
      BY <1>1 DEF Closes, Against, Near, CleanInv
    <3>4. Near(net, 0, untold)
      BY <1>1, <1>2, <3>1, <3>2, <3>3, CleanTypes DEF Sides
    <3> QED BY <1>1, <3>4, GrownTypes
  <2> QED BY <1>1, <1>2, <2>1, StopReturnsClean
<1>3. CASE t = "entry" /\ entry.pc = "closing"
  BY <1>1, <1>3, CloseReturnsClean
<1>4. CASE t = "entry" /\ entry.pc = "entering"
  BY <1>1, <1>4, EntryReturnsClean
<1> QED BY <1>1, <1>2, <1>3, <1>4 DEF Chasing, Tasks

LEMMA ChaseStepClean ==
  ASSUME LiveInv, CancelledInv, QuantityInv, CleanInv, Undisturbed, Told, NEW t \in Tasks,
         ChaseStep(t), proc \in {"running", "stopping"}, t = "entry" => proc = "running"
  PROVE  CleanInv'
<1>0. Grown
  BY DEF Told
<1>1. CASE Places(t)
  BY <1>1, PlacesClean
<1>2. CASE Queries(t)
  <2> DEFINE c == [chase[t] EXCEPT !.seen = chase[t].done]
  <2>1. chase' = [chase EXCEPT ![t] = c] /\ UNCHANGED <<session, entry, stop, net, orphans>>
        /\ Chasing(t)
    BY <1>2, CleanTypes DEF Queries
  <2>2. c.dir = chase[t].dir /\ c.size = chase[t].size /\ c.done = chase[t].done
        /\ chase[t].done \in Nat
    BY CleanTypes DEF ChaseRec
  <2> HIDE DEF c
  <2>3. c.done <= chase[t].done /\ untold + (chase[t].done - c.done) <= untold'
    BY <1>0, <2>2, GrownTypes
  <2> QED BY <1>0, <2>1, <2>2, <2>3, SameNetClean
<1>3. CASE SeesFilled(t)
  BY <1>0, <1>3, FilledClean
<1>4. CASE CancelRefused(t)
  BY <1>4, RefusedClean
<1>5. CASE ChaseFails(t)
  BY <1>5 DEF ChaseFails, Undisturbed
<1>6. CASE t = "entry" /\ MakerChaseEnds
  <2>1. /\ Chasing("entry") /\ UNCHANGED net /\ chase["entry"].done \in Nat
        /\ Returns("entry", chase["entry"].done > 0, chase["entry"].done)
    BY <1>6, ReportedAll, CleanTypes DEF MakerChaseEnds
  <2>2. CASE entry.pc = "closing"
    BY <1>0, <1>6, <2>1, <2>2, CloseReturnsClean
  <2>3. CASE entry.pc = "entering"
    BY <1>0, <1>6, <2>1, <2>3, EntryReturnsClean
  <2> QED BY <2>1, <2>2, <2>3 DEF Chasing
<1>7. CASE t = "stop" /\ StopChaseEnds
  <2> DEFINE c == chase["stop"]
  <2>1. Chasing("stop") /\ ReduceOnly("stop") /\ Reported("stop") = c.done
    BY <1>7, ReportedAll DEF StopChaseEnds, ReduceOnly
  <2>2. CASE Closable(c.dir) = 0
    <3>1. c.dir \in Sides
      BY <1>7, <2>1, CleanTypes
    <3>2. proc = "running" => Near(net, 0, untold)
      BY <1>7, <2>1, <2>2, <3>1, ClosingAgainst, NothingToClose, CleanTypes DEF CleanInv
    <3> QED BY <1>0, <1>7, <2>1, <2>2, <3>2, DiesClean DEF StopChaseEnds
  <2>3. CASE Closable(c.dir) # 0
    <3>1. net' = net + c.dir * Least(c.size - c.done, Closable(c.dir)) /\ Returns("stop", TRUE, c.size)
      BY <1>7, <2>1, <2>3 DEF StopChaseEnds
    <3>2. c.dir \in Sides /\ InOrder(c) /\ c.size \in Nat /\ c.done \in Nat /\ c.left \in Nat
      BY <1>7, <2>1, CleanTypes
    <3>3. c.size - c.done \in Nat
      BY <3>2 DEF InOrder
    <3>4. net' \in Int
      <4>1. c.dir \in Int /\ Closable(c.dir) \in Nat
        BY <3>2, ClosableType DEF Sides
      <4>2. Least(c.size - c.done, Closable(c.dir)) \in Int
        BY <3>3, <4>1 DEF Least
      <4> HIDE DEF c
      <4> QED BY <3>1, <4>1, <4>2, CleanTypes
    <3>5. ASSUME proc = "running" PROVE Near(net', 0, untold')
      <4>1. Closes(c.dir, c.size - c.done)
        BY <1>7, <2>1, <3>5, ClosingAgainst
      <4> HIDE DEF c
      <4>2. Near(net', 0, untold)
        BY <3>1, <3>2, <3>3, <4>1, MarketCloses, CleanTypes DEF CleanInv
      <4>3. ASSUME NEW n \in Int, NEW u \in Nat, NEW w \in Nat, u <= w, Near(n, 0, u)
            PROVE  Near(n, 0, w)
        BY <4>3 DEF Near
      <4> QED BY <1>0, <3>4, <4>2, <4>3, GrownTypes
    <3> QED BY <1>0, <2>1, <3>1, <3>4, <3>5, StopReturnsClean
  <2> QED BY <2>2, <2>3
<1> QED BY <1>1, <1>2, <1>3, <1>4, <1>5, <1>6, <1>7 DEF ChaseStep
-----------------------------------------------------------------------------
(***************************************************************************)
(* The other steps.                                                        *)
(***************************************************************************)

\* The session takes over what it was told.
LEMMA GoesOnClean ==
  ASSUME LiveInv, QuantityInv, CleanInv, Grown, proc = "running", entry.pc \in {"asking", "told"},
         NEW v \in Int, GoesOn(v), Within(net, v, untold),
         ~ActiveStop /\ ~refused => Near(net, 0, untold) \/ Near(net, v, untold)
  PROVE  CleanInv'
<1>1. /\ UNCHANGED <<proc, stop, chase, net, orphans>> /\ position' = v
      /\ untold' \in Nat /\ (refused /\ ~ActiveStop' => refused')
  BY DEF GoesOn, BelieveTold, Grown
<1>2. Within(net, position', untold')
  BY <1>1, GrownTypes
<1>3. ~ActiveStop /\ ~refused => Near(net, 0, untold') \/ Near(net, position', untold')
  BY <1>1, GrownTypes
<1>4. CASE v = 0 /\ ~ActiveStop
  <2>1. entry'.pc = "account" /\ Near(net, 0, untold')
    BY <1>1, <1>2, <1>4, NearFacts, CleanTypes DEF GoesOn
  <2>2. HoldInv'
    BY <1>1, <1>2, <2>1, HoldKept
  <2> QED BY <1>1, <2>1, <2>2 DEF CleanInv, OwnInv, WholeInv, FlatInv, ActiveEntry
<1>5. CASE ~(v = 0 /\ ~ActiveStop)
  <2>1. entry'.pc = "idle"
    BY <1>5, IdleType DEF GoesOn, EntryEnds
  <2>2. HoldInv'
    BY <1>1, <1>2, <2>1, HoldKept
  <2>3. WholeInv'
    BY <1>1, <1>3, <2>1 DEF WholeInv, ActiveStop
  <2> QED BY <1>1, <2>1, <2>2, <2>3 DEF CleanInv, OwnInv, FlatInv
<1> QED BY <1>4, <1>5

LEMMA EntryStepClean ==
  ASSUME LiveInv, CancelledInv, QuantityInv, CleanInv, Undisturbed, Told, EntryStep
  PROVE  CleanInv'
<1>0. proc = "running" /\ Grown /\ untold' \in Nat /\ (~EntryLeg => Within(net, position, untold))
      /\ (refused /\ ~ActiveStop' => refused')
  BY DEF EntryStep, CleanInv, HoldInv, Told, Grown
<1>1. CASE EntryStarts
  <2>1. UNCHANGED <<proc, position, stop, chase, net, orphans>> /\ position = 0 /\ ~EntryLeg
    BY <1>0, <1>1 DEF EntryStarts, EntryUnchanged, session, CleanInv, FlatInv, EntryLeg
  <2>2. Near(net, 0, untold') /\ Within(net, position', untold')
    BY <1>0, <2>1, NearFacts, GrownTypes, CleanTypes
  <2>3. entry'.pc \in {"account", "idle"} /\ (entry'.pc = "account" => stop = "idle")
    BY <1>1, IdleType, CleanTypes DEF EntryStarts, MayEnter, EntryEnds, ActiveStop
  <2>4. HoldInv'
    BY <1>0, <2>1, <2>2, <2>3, HoldKept
  <2>5. WholeInv'
    BY <2>1, <2>2, <2>3 DEF WholeInv
  <2> QED BY <1>0, <2>3, <2>4, <2>5 DEF CleanInv, OwnInv, FlatInv
<1>2. CASE AccountRead
  <2>1. /\ entry' = [entry EXCEPT !.pc = "entering"]
        /\ chase' = [chase EXCEPT !["entry"] = NewChase(entry.side, Qty)]
        /\ entry.pc = "account" /\ EntryLeg
        /\ UNCHANGED <<proc, position, stop, net, orphans>>
    BY <1>2 DEF AccountRead, EntryUnchanged, session, Undisturbed, EntryLeg
  <2>2. /\ entry'.pc = "entering" /\ entry'.side = entry.side
        /\ chase'["entry"].dir = entry.side /\ chase'["entry"].done = 0
        /\ stop = "idle" /\ entry.side \in Sides
    BY <1>0, <2>1, CleanTypes DEF NewChase, NoChase, ActiveStop, Tasks
  <2>3. Near(net', 0, untold') /\ orphans = <<>>
    BY <1>0, <2>1, GrownTypes DEF CleanInv, HoldInv
  <2>4. OwnInv'
    <3>1. ASSUME NEW n \in Int, NEW d \in Nat, NEW u \in Nat, d = 0, Near(n, 0, u)
          PROVE  Near(n, d, u) /\ Near(n, -d, u)
      BY <3>1 DEF Near
    <3>2. net' \in Int /\ chase'["entry"].done \in Nat
      BY <2>1, <2>2, CleanTypes
    <3>3. Near(net', IF entry'.side = 1 THEN chase'["entry"].done ELSE -chase'["entry"].done, untold')
      BY <1>0, <2>2, <2>3, <3>1, <3>2
    <3> QED BY <2>1, <2>2, <2>3, <3>3 DEF OwnInv
  <2> QED
    BY <1>0, <2>1, <2>2, <2>3, <2>4 DEF CleanInv, HoldInv, WholeInv, FlatInv, EntryLeg, ActiveEntry
<1>3. CASE ReversalStarts
  <2>1. /\ UNCHANGED <<proc, position, stop, net, orphans>> /\ ~EntryLeg
        /\ chase'["stop"] = chase["stop"]
    BY <1>0, <1>3, CleanTypes
    DEF ReversalStarts, EntryUnchanged, session, EntryLeg, Tasks
  <2>2. Within(net, position, untold')
    BY <1>0, <2>1, GrownTypes, CleanTypes
  <2>3. CASE position = 0
    <3>1. entry'.pc = "idle" /\ Near(net, 0, untold')
      BY <1>0, <1>3, <2>2, <2>3, IdleType, NearFacts, CleanTypes DEF ReversalStarts, EntryEnds
    <3>2. HoldInv'
      BY <1>0, <2>1, <2>2, <3>1, HoldKept
    <3> QED BY <1>0, <2>1, <3>1, <3>2 DEF CleanInv, OwnInv, WholeInv, FlatInv
  <2>4. CASE position # 0
    <3>1. entry'.pc = "closing" /\ chase'["entry"].dir = -Sign(position)
      BY <1>3, <2>4, CleanTypes DEF ReversalStarts, NewChase, NoChase, Tasks
    <3>2. Closes(-Sign(position), Abs(position))
      BY <1>0, <2>1, <2>4, BeliefCloses, CleanTypes DEF CleanInv
    <3>3. Against(chase["entry"].dir)'
      <4>1. -Sign(position) \in Sides /\ Abs(position) \in Nat /\ PartOf(net', net) /\ net' \in Int
        BY <2>1, <2>4, SizedToBelief, NearFacts, CleanTypes
      <4>2. IF -Sign(position) = 1 THEN net' <= untold' ELSE 0 - untold' <= net'
        BY <1>0, <3>2, <4>1, SmallerClosed, GrownTypes, CleanTypes DEF Closes
      <4> QED BY <3>1, <4>2 DEF Against
    <3>4. stop' = "chasing" => Closes(chase["stop"].dir, chase["stop"].size - chase["stop"].done)'
      <4>1. SUFFICES ASSUME stop' = "chasing"
                     PROVE  Closes(chase["stop"].dir, chase["stop"].size - chase["stop"].done)'
        OBVIOUS
      <4> DEFINE m == chase["stop"].size - chase["stop"].done
      <4>2. chase["stop"].dir \in Sides /\ m \in Nat /\ PartOf(net', net) /\ net' \in Int
        BY <2>1, <4>1, CleanTypes, NearFacts DEF InOrder, Chasing, Tasks
      <4>3. Closes(chase["stop"].dir, m)
        BY <1>0, <2>1, <4>1 DEF CleanInv, HoldInv
      <4>4. IF chase["stop"].dir = 1 THEN net' <= untold' /\ 0 - m - untold' <= net'
            ELSE 0 - untold' <= net' /\ net' <= m + untold'
        <5>1. m <= m
          BY <4>2
        <5> HIDE DEF m
        <5> QED BY <1>0, <4>2, <4>3, <5>1, SmallerClosed, GrownTypes, CleanTypes
      <4> QED BY <2>1, <4>4 DEF Closes, Against
    <3>5. orphans = <<>>
      BY <1>0 DEF CleanInv, HoldInv
    <3> QED
      BY <1>0, <2>1, <2>2, <3>1, <3>3, <3>4, <3>5
      DEF CleanInv, OwnInv, HoldInv, WholeInv, FlatInv, ActiveEntry, EntryLeg
  <2> QED BY <2>3, <2>4
<1>4. CASE PositionAnswered
  <2>1. entry.pc = "asking" /\ Near(net, net, untold) /\ Within(net, net, untold)
        /\ Near(net, net, untold') /\ Within(net, net, untold')
    <3>1. ASSUME NEW n \in Int, NEW u \in Nat PROVE Near(n, n, u) /\ Within(n, n, u)
      BY DEF Near, Within
    <3> QED BY <1>0, <1>4, <3>1, CleanTypes DEF PositionAnswered, CleanInv
  <2>2. CASE GoesOn(net)
    BY <1>0, <2>1, <2>2, GoesOnClean, CleanTypes
  <2>3. CASE ~GoesOn(net)
    <3>1. /\ entry' = [entry EXCEPT !.pc = "told", !.got = net]
          /\ UNCHANGED <<proc, position, stop, chase, net, orphans>>
      BY <1>4, <2>3 DEF PositionAnswered, EntryUnchanged, session, Undisturbed
    <3>2. entry'.pc = "told" /\ entry'.got = net
      BY <3>1, CleanTypes
    <3>3. Within(net, position', untold')
      BY <1>0, <2>1, <3>1, GrownTypes, CleanTypes DEF EntryLeg
    <3>4. HoldInv'
      BY <1>0, <2>1, <3>1, <3>2, <3>3, HoldKept
    <3>5. WholeInv'
      BY <2>1, <3>1, <3>2 DEF WholeInv, ActiveEntry
    <3> QED BY <1>0, <3>2, <3>4, <3>5 DEF CleanInv, OwnInv, FlatInv
  <2> QED BY <2>2, <2>3
<1>5. CASE PositionTold
  <2>1. entry.pc = "told" /\ GoesOn(entry.got) /\ Within(net, entry.got, untold)
        /\ (~ActiveStop /\ ~refused => Near(net, 0, untold) \/ Near(net, entry.got, untold))
    BY <1>0, <1>5 DEF PositionTold, CleanInv, HoldInv, WholeInv
  <2> QED BY <1>0, <2>1, GoesOnClean, CleanTypes
<1>6. CASE ChaseStep("entry")
  BY <1>0, <1>6, ChaseStepClean DEF Tasks
<1> QED BY <1>1, <1>2, <1>3, <1>4, <1>5, <1>6 DEF EntryStep

LEMMA StopStepClean ==
  ASSUME LiveInv, CancelledInv, QuantityInv, CleanInv, Undisturbed, Told, StopStep
  PROVE  CleanInv'
<1>0. proc \in {"running", "stopping"} /\ Grown /\ untold' \in Nat
  BY DEF StopStep, Told, Grown
<1>1. CASE StopStarts
  <2>1. /\ UNCHANGED <<proc, position, entry, net, orphans>> /\ ~EntryLeg /\ stop = "new"
        /\ chase'["entry"] = chase["entry"]
    BY <1>1, CleanTypes DEF StopStarts, session, ActiveStop, Tasks
  <2>2. CASE position = 0
    <3>1. stop' = "idle" /\ net' \in Int
      BY <1>1, <2>1, <2>2, CleanTypes DEF StopStarts, StopEnds
    <3>2. proc = "running" => Near(net, 0, untold)
      BY <2>1, <2>2, NearFacts, CleanTypes DEF CleanInv, HoldInv
    <3>3. proc = "running" => Near(net', 0, untold')
      BY <1>0, <2>1, <3>2, GrownTypes
    <3> QED BY <1>0, <2>1, <3>1, <3>3, StopEndsClean
  <2>3. CASE position # 0
    <3>1. /\ stop' = "chasing" /\ chase'["stop"] = NewChase(-Sign(position), Abs(position))
      BY <1>1, <2>1, <2>3, CleanTypes DEF StopStarts, Tasks
    <3>2. OwnInv' /\ FlatInv'
      BY <2>1 DEF OwnInv, FlatInv, CleanInv, EntryLeg
    <3>3. CASE proc # "running"
      BY <1>0, <2>1, <3>2, <3>3, OffClean
    <3>4. CASE proc = "running"
      <4>1. Within(net, position, untold) /\ Within(net, position, untold') /\ orphans = <<>>
        BY <1>0, <2>1, <3>4, GrownTypes, CleanTypes DEF CleanInv, HoldInv
      <4>2. -Sign(position) \in Sides /\ Abs(position) \in Nat /\ PartOf(net', net) /\ net' \in Int
            /\ Abs(position) <= Abs(position)
        BY <2>1, <2>3, SizedToBelief, NearFacts, CleanTypes
      <4>3. Closes(-Sign(position), Abs(position))
        BY <2>3, <4>1, BeliefCloses, CleanTypes DEF CleanInv
      <4>4. IF -Sign(position) = 1 THEN net' <= untold' /\ 0 - Abs(position) - untold' <= net'
            ELSE 0 - untold' <= net' /\ net' <= Abs(position) + untold'
        BY <1>0, <4>2, <4>3, SmallerClosed, GrownTypes, CleanTypes
      <4>5. chase'["stop"].dir = -Sign(position) /\ chase'["stop"].size - chase'["stop"].done = Abs(position)
        BY <3>1, <4>2 DEF NewChase, NoChase
      <4>6. Closes(chase["stop"].dir, chase["stop"].size - chase["stop"].done)'
        BY <4>4, <4>5 DEF Closes, Against
      <4>7. entry.pc = "closing" => Against(chase["entry"].dir)'
        <5>1. SUFFICES ASSUME entry.pc = "closing" PROVE Against(chase["entry"].dir)'
          OBVIOUS
        <5>2. Against(chase["entry"].dir)
          BY <3>4, <5>1 DEF CleanInv, HoldInv
        <5>3. ASSUME NEW n \in Int, NEW u \in Nat, NEW w \in Nat, u <= w
              PROVE  (n <= u => n <= w) /\ (0 - u <= n => 0 - w <= n)
          BY <5>3
        <5> QED BY <1>0, <2>1, <5>2, <5>3, GrownTypes, CleanTypes DEF Against
      <4>8. entry.pc = "told" => Within(net, entry.got, untold')
        BY <1>0, <3>4, GrownTypes, CleanTypes DEF CleanInv, HoldInv
      <4>9. HoldInv'
        BY <2>1, <4>1, <4>6, <4>7, <4>8 DEF HoldInv, EntryLeg
      <4>10. WholeInv'
        BY <3>1 DEF WholeInv, ActiveStop
      <4> QED BY <1>0, <3>2, <4>9, <4>10 DEF CleanInv
    <3> QED BY <3>3, <3>4
  <2> QED BY <2>2, <2>3
<1>2. CASE ChaseStep("stop")
  BY <1>0, <1>2, ChaseStepClean DEF Tasks
<1> QED BY <1>1, <1>2 DEF StopStep

LEMMA SessionStepClean ==
  ASSUME LiveInv, CancelledInv, QuantityInv, GateInv, CleanInv, Grown, SessionStep
  PROVE  CleanInv'
<1>0. untold' \in Nat
  BY DEF Grown
<1>1. ASSUME proc' # "running", entry'.pc \notin {"entering", "new_entry"} PROVE CleanInv'
  BY <1>0, <1>1, OffClean DEF OwnInv, FlatInv
<1>2. CASE Start \/ OpenOrdersGate \/ PositionGate
  <2>1. entry'.pc = "idle" /\ proc' # "running"
    BY <1>2
    DEF Start, OpenOrdersGate, PositionGate, Gone, TasksUnchanged, LiveInv, NoTasksInv, Down, ActiveEntry
  <2> QED BY <1>1, <2>1
<1>3. CASE AccountGate
  <2>1. /\ entry'.pc = "idle" /\ stop' = "idle" /\ UNCHANGED <<net, orphans>>
        /\ proc' = "running" => position' = position
        /\ orphans = <<>> /\ position = net
    BY <1>3
    DEF AccountGate, Gone, TasksUnchanged, LiveInv, NoTasksInv, ActiveEntry, ActiveStop, GateInv
  <2>2. Near(net, net, untold') /\ Within(net, net, untold')
    <3>1. ASSUME NEW n \in Int, NEW u \in Nat PROVE Near(n, n, u) /\ Within(n, n, u)
      BY DEF Near, Within
    <3> QED BY <1>0, <3>1, CleanTypes
  <2> QED BY <1>0, <2>1, <2>2 DEF CleanInv, OwnInv, HoldInv, WholeInv, FlatInv
<1>4. ASSUME NEW b \in BOOLEAN, NEW s \in Sides \cup {0}, NEW hit \in BOOLEAN, BookTicker(b, s, hit)
      PROVE  CleanInv'
  <2>1. UNCHANGED <<proc, position, chase, net, orphans>>
    BY <1>4 DEF BookTicker, session
  <2>2. IF b THEN /\ entry.pc = "idle" /\ entry'.pc \in {"new_entry", "new_reversal"}
                  /\ entry'.pc = "new_entry" => position = 0
             ELSE entry' = entry
    BY <1>4 DEF BookTicker, BreakoutAccepted, ActiveEntry, Idle
  <2>3. IF hit THEN stop' = "new" /\ position # 0 ELSE stop' = stop
    BY <1>4 DEF BookTicker, StopAccepted
  <2>4. b \/ hit
    BY <1>4 DEF BookTicker
  <2>5. hit => ~EntryLeg
    BY <2>3, CleanTypes
  <2>6. FlatInv'
    BY <2>1, <2>2 DEF FlatInv, CleanInv
  <2>7. OwnInv'
    BY <2>1, <2>2, StillOwns
  <2>8. CASE proc # "running"
    BY <1>0, <2>1, <2>6, <2>7, <2>8, OffClean
  <2>9. CASE proc = "running"
    <3>1. /\ ~EntryLeg => Within(net, position, untold')
          /\ entry.pc = "account" => Near(net, 0, untold')
          /\ entry.pc = "told" => Within(net, entry.got, untold')
      BY <2>9, GrownTypes, CleanTypes DEF CleanInv, HoldInv
    <3>2. HoldInv'
      BY <2>1, <2>2, <2>3, <2>9, <3>1, HoldKept DEF EntryLeg
    <3>3. WholeInv'
      BY <2>2, <2>3, <2>4 DEF WholeInv, ActiveEntry, ActiveStop
    <3> QED BY <1>0, <2>6, <2>7, <3>2, <3>3 DEF CleanInv
  <2> QED BY <2>8, <2>9
<1>5. CASE \E s \in Sides, hit \in BOOLEAN : BookTicker(TRUE, s, hit)
  BY <1>4, <1>5
<1>6. CASE BookTicker(FALSE, 0, TRUE)
  BY <1>4, <1>6
<1>7. CASE Crash
  BY <1>1, <1>7, IdleType DEF Crash, Gone
<1>8. CASE Shutdown
  <2>1. proc' = "stopping" /\ UNCHANGED <<position, entry, chase, net, orphans>>
    BY <1>8 DEF Shutdown
  <2>2. OwnInv'
    BY <2>1, StillOwns
  <2> QED BY <1>0, <2>1, <2>2, OffClean DEF CleanInv, FlatInv
<1>9. CASE \E t \in Tasks : Unwinds(t)
  <2>1. PICK t \in Tasks : Unwinds(t)
    BY <1>9
  <2>2. proc' = "stopping" /\ position' = position
    BY <2>1 DEF Unwinds, Dies, session
  <2>3. CASE t = "entry"
    <3>1. entry'.pc = "idle"
      BY <2>1, <2>3, IdleType DEF Unwinds, Dies, EntryEnds
    <3> QED BY <1>1, <2>2, <3>1
  <2>4. CASE t = "stop"
    <3>1. entry' = entry /\ ~EntryLeg
      BY <2>1, <2>4, CleanTypes DEF Unwinds, Dies
    <3> QED BY <1>0, <2>2, <3>1, OffClean DEF CleanInv, OwnInv, FlatInv, EntryLeg
  <2> QED BY <2>3, <2>4 DEF Tasks
<1>10. CASE Stopped
  BY <1>1, <1>10 DEF Stopped, Gone, TasksUnchanged, ActiveEntry
<1> QED BY <1>2, <1>3, <1>5, <1>6, <1>7, <1>8, <1>9, <1>10 DEF SessionStep

\* While the session runs it leaves no order behind.
LEMMA NoOrphans ==
  ASSUME LiveInv, GateInv, CleanInv, Undisturbed, [Next]_vars, proc' = "running"
  PROVE  orphans' = <<>>
<1>0. (proc = "running" => orphans = <<>>) /\ (proc = "account" => orphans = <<>>)
  BY DEF CleanInv, HoldInv, GateInv
<1>1. CASE UNCHANGED vars
  BY <1>0, <1>1 DEF vars, session
<1>2. CASE EntryStep
  BY <1>0, <1>2
  DEF EntryStep, EntryStarts, AccountRead, ReversalStarts, PositionAnswered, PositionTold, GoesOn,
      EntryUnchanged, ChaseStep, Places, Queries, SeesFilled, CancelRefused, ChaseFails,
      MakerChaseEnds, Returns, session, Undisturbed
<1>3. CASE StopStep
  <2>1. proc = "running" /\ UNCHANGED orphans
    BY <1>3
    DEF StopStep, StopStarts, ChaseStep, Places, Queries, SeesFilled, CancelRefused, ChaseFails,
        StopChaseEnds, Returns, Dies, session, Undisturbed
  <2> QED BY <1>0, <2>1
<1>4. CASE ExchangeStep
  <2>0. UNCHANGED proc
    BY <1>4 DEF ExchangeStep, Fill, OrderEnds, OrphanFills, OrphanExpires, Operator, session
  <2>1. proc = "running" /\ DOMAIN orphans = {}
    BY <1>0, <2>0
  <2> QED BY <1>0, <1>4, <2>1 DEF ExchangeStep, Fill, OrderEnds, Operator
<1>5. CASE \E s \in Sides, hit \in BOOLEAN : BookTicker(TRUE, s, hit)
  BY <1>0, <1>5 DEF BookTicker, session
<1>6. CASE BookTicker(FALSE, 0, TRUE)
  BY <1>0, <1>6 DEF BookTicker, session
<1>7. CASE \E t \in Tasks : Unwinds(t)
  BY <1>7 DEF Unwinds, Dies, session
<1>8. CASE Start \/ OpenOrdersGate \/ PositionGate \/ AccountGate \/ Crash \/ Shutdown \/ Stopped
  BY <1>0, <1>8
  DEF Start, OpenOrdersGate, PositionGate, AccountGate, Crash, Shutdown, Stopped, Gone,
      TasksUnchanged
<1> QED BY <1>1, <1>2, <1>3, <1>4, <1>5, <1>6, <1>7, <1>8 DEF Next, SessionStep

\* The history of one step.
LEMMA RecordedTold ==
  ASSUME LiveInv, QuantityInv, CleanInv, Recorded, proc' # "down", ~(Settled')
  PROVE  Told
<1>1. chase["entry"].done \in Nat /\ untold \in Nat
  BY CleanTypes DEF CleanInv, Tasks
<1>2. untold' = IF EntryLoses THEN untold + chase["entry"].done ELSE untold
  BY DEF Recorded
<1>3. refused' = (\/ DiesOfEnd("stop")
                  \/ (refused \/ (entry.pc = "closing" /\ DiesOfEnd("entry"))) /\ ~(ActiveStop'))
  BY DEF Recorded
<1>4. untold' \in Nat /\ untold <= untold' /\ (EntryLoses => untold + chase["entry"].done <= untold')
  BY <1>1, <1>2
<1> QED BY <1>3, <1>4 DEF Told, Grown

LEMMA StepClean ==
  Undisturbed /\ LiveInv /\ CancelledInv /\ QuantityInv /\ GateInv /\ CleanInv
    /\ [LedgerNext]_ledgerVars => CleanInv'
<1> SUFFICES ASSUME Undisturbed, LiveInv, CancelledInv, QuantityInv, GateInv, CleanInv,
                    [LedgerNext]_ledgerVars
             PROVE  CleanInv'
  OBVIOUS
<1>1. CASE UNCHANGED ledgerVars
  BY <1>1
  DEF ledgerVars, vars, session, CleanInv, OwnInv, HoldInv, WholeInv, FlatInv, EntryLeg,
      ActiveEntry, ActiveStop, Against, Closes
<1>2. CASE LedgerNext
  <2>1. [Next]_vars /\ Next /\ Recorded /\ LiveInv'
    BY <1>2, StepKeeps DEF LedgerNext, Keeps
  <2>2. CASE proc' = "down"
    <3>1. untold' = 0 /\ entry'.pc = "idle"
      BY <2>1, <2>2 DEF Recorded, LiveInv, NoTasksInv, Down, ActiveEntry
    <3> QED BY <2>2, <3>1, OffClean DEF OwnInv, FlatInv
  <2>3. CASE Settled'
    <3>1. untold' = 0 /\ entry'.pc = "idle" /\ stop' = "idle" /\ net' = position' /\ net' \in Int
      BY <2>1, <2>3 DEF Recorded, Settled, ActiveEntry, ActiveStop, LiveInv, ValuesInv
    <3>2. Near(net', position', untold') /\ Within(net', position', untold')
      <4>1. ASSUME NEW n \in Int PROVE Near(n, n, 0) /\ Within(n, n, 0)
        BY DEF Near, Within
      <4> QED BY <3>1, <4>1
    <3>3. proc' = "running" => orphans' = <<>>
      BY <2>1, NoOrphans
    <3> QED BY <3>1, <3>2, <3>3 DEF CleanInv, OwnInv, HoldInv, WholeInv, FlatInv
  <2>4. CASE proc' # "down" /\ ~(Settled')
    <3>1. Told /\ Grown
      BY <2>1, <2>4, RecordedTold DEF Told
    <3> QED
      BY <2>1, <3>1, EntryStepClean, StopStepClean, SessionStepClean, ExchangeClean DEF Next
  <2> QED BY <2>2, <2>3, <2>4
<1> QED BY <1>1, <1>2

LEMMA GateInvariance == Spec => []GateInv
<1>1. Init => GateInv
  BY DEF Init, GateInv
<1>2. LiveInv /\ GateInv /\ [Next]_vars => GateInv'
  BY GateStep
<1> QED BY <1>1, <1>2, Invariance, PTL DEF Spec

\* The history restrains nothing but what the exchange ends.
LEMMA LedgerIsSession == LedgerSpec => Spec
<1>1. LedgerInit => Init
  BY DEF LedgerInit
<1>2. [LedgerNext]_ledgerVars => [Next]_vars
  BY DEF LedgerNext, ledgerVars
<1> QED BY <1>1, <1>2, PTL DEF LedgerSpec, Spec
-----------------------------------------------------------------------------
\* Whatever crashes, restarts, shutdowns, late answers and ends of orders there are, while no
\* request fails and no fill comes late the session keeps its account: an entry owns what it
\* executed, and what is held is part of what is believed, give or take what ended orders of
\* entries executed and nobody was told (run_live_strategy, live_strategy_runner.py).
THEOREM CleanInvariance == ASSUME Undisturbed PROVE LedgerSpec => []CleanInv
<1>1. LedgerInit => CleanInv
  BY DEF LedgerInit, Init, CleanInv, OwnInv, HoldInv, WholeInv, FlatInv, Idle
<1>2. LiveInv /\ CancelledInv /\ QuantityInv /\ GateInv /\ CleanInv /\ [LedgerNext]_ledgerVars
        => CleanInv'
  BY StepClean
<1> QED
  BY <1>1, <1>2, LedgerIsSession, Invariance, CancelledInvariance, QuantityInvariance,
     GateInvariance, PTL
  DEF LedgerSpec

LEMMA NearAbs ==
  ASSUME NEW n \in Int, NEW b \in Int, NEW u \in Nat
  PROVE  Near(n, b, u) <=> Abs(n - b) <= u
<1>1. CASE n - b < 0
  BY <1>1 DEF Near, Abs
<1>2. CASE ~(n - b < 0)
  BY <1>2 DEF Near, Abs
<1> QED BY <1>1, <1>2

\* An entry at work owns the whole position of the account, but for what ended orders of
\* entries executed and nobody was told: nothing else was held when it began
\* (docs/trading_rules.md:119), with no request failing and no fill coming late.
THEOREM EntryOwns == ASSUME Undisturbed PROVE LedgerSpec => []EntryOwnsPosition
<1>1. LiveInv /\ QuantityInv /\ CleanInv => EntryOwnsPosition
  <2>1. ASSUME NEW s \in Sides, NEW n \in Nat
        PROVE  (IF s = 1 THEN n ELSE -n) = s * n /\ s * n \in Int
    BY DEF Sides
  <2>2. SUFFICES ASSUME LiveInv, QuantityInv, CleanInv, entry.pc = "entering"
                 PROVE  Abs(net - entry.side * chase["entry"].done) <= untold
    BY DEF EntryOwnsPosition
  <2>3. entry.side \in Sides /\ chase["entry"].done \in Nat /\ net \in Int /\ untold \in Nat
    BY <2>2, CleanTypes DEF EntryLeg, Tasks, CleanInv
  <2>4. Near(net, entry.side * chase["entry"].done, untold)
    BY <2>1, <2>2, <2>3 DEF CleanInv, OwnInv
  <2> QED BY <2>1, <2>3, <2>4, NearAbs
<1> QED
  BY <1>1, LedgerIsSession, Invariance, QuantityInvariance, CleanInvariance, PTL

\* When no task is at work the account holds what is believed or nothing, never a position
\* nobody knows of, beyond what ended orders of entries executed and nobody was told; after a
\* close that died of the end of its order, a part of what is believed (main.py:269), with no
\* request failing and no fill coming late.
THEOREM HeldIsKnown == ASSUME Undisturbed PROVE LedgerSpec => []NothingUnknownHeld
<1>1. LiveInv /\ QuantityInv /\ CleanInv => NothingUnknownHeld
  <2>1. SUFFICES ASSUME LiveInv, QuantityInv, CleanInv, proc = "running", ~ActiveEntry, ~ActiveStop
                 PROVE  \E b \in IF refused THEN Between(0, position) ELSE {0, position} :
                          Abs(net - b) <= untold
    BY DEF NothingUnknownHeld
  <2>2. net \in Int /\ position \in Int /\ untold \in Nat
    BY <2>1, CleanTypes DEF CleanInv
  <2>3. CASE ~refused
    <3>1. Near(net, 0, untold) \/ Near(net, position, untold)
      BY <2>1, <2>3 DEF CleanInv, WholeInv
    <3>2. Abs(net - 0) <= untold \/ Abs(net - position) <= untold
      BY <2>2, <3>1, NearAbs
    <3> QED BY <2>3, <3>2
  <2>4. CASE refused
    <3>1. Within(net, position, untold)
      BY <2>1 DEF CleanInv, HoldInv, EntryLeg, ActiveEntry
    <3>2. ASSUME NEW n \in Int, NEW p \in Int, NEW u \in Nat, Within(n, p, u)
          PROVE  \E b \in Between(0, p) : Near(n, b, u)
      <4>1. CASE n \in Between(0, p)
        <5>1. Near(n, n, u)
          BY DEF Near
        <5> QED BY <4>1, <5>1
      <4>2. CASE n \notin Between(0, p)
        <5>1. 0 \in Between(0, p) /\ p \in Between(0, p)
          BY DEF Between
        <5>2. Near(n, 0, u) \/ Near(n, p, u)
          BY <3>2, <4>2 DEF Between, Near, Within
        <5> QED BY <5>1, <5>2
      <4> QED BY <4>1, <4>2
    <3>3. \A b \in Between(0, position) : b \in Int
      BY <2>2 DEF Between
    <3>4. PICK b \in Between(0, position) : Near(net, b, untold)
      BY <2>2, <3>1, <3>2
    <3>5. Abs(net - b) <= untold
      BY <2>2, <3>3, <3>4, NearAbs
    <3> QED BY <2>4, <3>4, <3>5
  <2> QED BY <2>3, <2>4
<1> QED
  BY <1>1, LedgerIsSession, Invariance, QuantityInvariance, CleanInvariance, PTL
=============================================================================
