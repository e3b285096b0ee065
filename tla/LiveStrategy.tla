---------------------------- MODULE LiveStrategy ---------------------------
(***************************************************************************)
(* run_live_strategy (src/bot/main.py:105-377) with the runner's entry,    *)
(* stop and close (src/bot/live_strategy_runner.py) and the marker file    *)
(* (src/bot/live_position_state.py): one process, restarted by systemd,    *)
(* with at most one entry task and one stop task, and the exchange.        *)
(*                                                                         *)
(* Positions are signed: long > 0, short < 0, flat = 0.  A chase appears   *)
(* with the steps its caller can tell apart (MakerChaser has the rest): it *)
(* places its order, queries it, and ends with a result or an exception.   *)
(* Of a price tick only what it sets off is kept: a breakout, a stop.      *)
(***************************************************************************)
EXTENDS Integers, Sequences, FiniteSets

CONSTANTS
  Qty,           \* the quantity an entry is sized to, in quantity steps
  MaxEntryFills, \* live_strategy_max_entry_fills, 0 for no limit
  StopLoss,      \* stop_loss_enabled
  ResumeAllowed, \* live_strategy_resume_existing_position
  Disturbances,  \* what may go wrong: a subset of AllDisturbances
  MaxNet,        \* bound: the exchange fills nothing beyond this position
  MaxOrphans     \* bound: orders left behind at one time

AllDisturbances == {"late_fill", "error", "expire", "crash", "shutdown", "late_answer"}

ASSUME LiveAssumption ==
  /\ Qty \in Nat \ {0}
  /\ MaxEntryFills \in Nat
  /\ StopLoss \in BOOLEAN /\ ResumeAllowed \in BOOLEAN
  /\ Disturbances \subseteq AllDisturbances
  /\ MaxNet \in Nat /\ MaxOrphans \in Nat

VARIABLES
  proc,      \* where the process is: down, a startup gate, running, stopping
  position,  \* the nonlocal `position`
  marker,    \* the managed-position marker file, 0 when there is none
  fills,     \* live_entry_fill_count
  entry,     \* entry_task: what it is doing and for which side
  stop,      \* stop_task: what it is doing
  chase,     \* chase["entry"], chase["stop"]: the chase of the task
  net,       \* the exchange's position
  orphans    \* resting orders of this account that no task knows of

session == <<proc, position, marker, fills>>
vars == <<proc, position, marker, fills, entry, stop, chase, net, orphans>>
-----------------------------------------------------------------------------
Tasks == {"entry", "stop"}
Sides == {1, -1}
Sign(n) == IF n > 0 THEN 1 ELSE IF n < 0 THEN -1 ELSE 0
Abs(n) == IF n < 0 THEN -n ELSE n
Least(a, b) == IF a < b THEN a ELSE b

EntryPcs == {"idle", "new_entry", "new_reversal", "account", "entering",
             "closing", "asking", "told"}
StopPcs == {"idle", "new", "chasing", "cancelled"}
Idle == [pc |-> "idle", side |-> 0, got |-> 0]

\* left is what rests at the exchange, done what it executed, seen the part of
\* done that the last query showed.
NoChase == [dir |-> 0, size |-> 0, placed |-> FALSE, left |-> 0, done |-> 0, seen |-> 0]
NewChase(d, n) == [NoChase EXCEPT !.dir = d, !.size = n]

ActiveEntry == entry.pc # "idle"
ActiveStop == stop # "idle"
EntryLeg == entry.pc \in {"account", "entering"}

Chasing(t) == IF t = "entry" THEN entry.pc \in {"entering", "closing"} ELSE stop \in {"chasing", "cancelled"}
ReduceOnly(t) == t = "stop" \/ entry.pc = "closing"

\* The exchange has ended the order of t before all of it was executed.
Ended(t) == Chasing(t) /\ chase[t].placed /\ chase[t].left = 0 /\ chase[t].done < chase[t].size

\* What a reduce-only order of direction d may still close.
Closable(d) == IF Sign(net) = -d THEN Abs(net) ELSE 0
-----------------------------------------------------------------------------
(***************************************************************************)
(* The exchange.                                                           *)
(***************************************************************************)
Fill(t, n) ==
  /\ Chasing(t)
  /\ n <= chase[t].left
  /\ ReduceOnly(t) => n <= Closable(chase[t].dir)
  /\ net' = net + chase[t].dir * n
  /\ net' \in -MaxNet..MaxNet
  /\ chase' = [chase EXCEPT ![t].left = @ - n, ![t].done = @ + n]
  /\ UNCHANGED <<session, entry, stop, orphans>>

Without(i) == SubSeq(orphans, 1, i - 1) \o SubSeq(orphans, i + 1, Len(orphans))

OrphanFills(i) ==
  LET o == orphans[i]
      n == IF o.reduce THEN Least(o.left, Closable(o.dir)) ELSE o.left
  IN /\ n > 0
     /\ net' = net + o.dir * n
     /\ net' \in -MaxNet..MaxNet
     /\ orphans' = Without(i)
     /\ UNCHANGED <<session, entry, stop, chase>>

\* The exchange ends an order by itself: a reduce-only one that nothing is left
\* for, an amended GTX order that would take, a cancel by hand.
OrderEnds(t) ==
  /\ Chasing(t) /\ chase[t].left > 0
  /\ "expire" \in Disturbances \/ (ReduceOnly(t) /\ Closable(chase[t].dir) = 0)
  /\ chase' = [chase EXCEPT ![t].left = 0]
  /\ UNCHANGED <<session, entry, stop, net, orphans>>

OrphanExpires(i) ==
  /\ "expire" \in Disturbances \/ (orphans[i].reduce /\ Closable(orphans[i].dir) = 0)
  /\ orphans' = Without(i)
  /\ UNCHANGED <<session, entry, stop, chase, net>>

\* A person cancels what rests and closes what is held while the bot is down.
Operator ==
  /\ proc = "down"
  /\ net' = 0 /\ orphans' = <<>>
  /\ UNCHANGED <<session, entry, stop, chase>>

\* The order of t when no task looks after it any more: the one that rests, or
\* one whose placement was under way and that may still reach the exchange.
Remains(t) ==
  LET o(n) == <<[dir |-> chase[t].dir, left |-> n, reduce |-> ReduceOnly(t)]>> IN
  IF ~Chasing(t) THEN {<<>>}
  ELSE IF ~chase[t].placed \/ Ended(t) THEN {<<>>, o(chase[t].size)}
  ELSE IF chase[t].left > 0 THEN {o(chase[t].left)}
  ELSE {<<>>}

Orphaning(T) ==
  \E e \in IF "entry" \in T THEN Remains("entry") ELSE {<<>>},
     s \in IF "stop" \in T THEN Remains("stop") ELSE {<<>>} :
    orphans' = orphans \o e \o s /\ Len(orphans') <= MaxOrphans
-----------------------------------------------------------------------------
(***************************************************************************)
(* How the tasks end.                                                      *)
(***************************************************************************)
WriteMarker(p) == marker' = p

EntryEnds == entry' = Idle
StopEnds == stop' = "idle"

\* run_live_entry with the result of its chase.  Without a limit nothing reads
\* the count, and it is left at 0.
EntryResult(success, filled) ==
  /\ EntryEnds
  /\ IF success /\ filled > 0
     THEN /\ fills' = IF MaxEntryFills > 0 THEN fills + 1 ELSE fills
          /\ position' = entry.side * filled
          /\ WriteMarker(position')
     ELSE UNCHANGED <<position, marker, fills>>

\* run_live_stop with the result of its chase.
StopResult(success) ==
  /\ StopEnds
  /\ IF success
     THEN position' = 0 /\ WriteMarker(0)
     ELSE UNCHANGED <<position, marker>>
  /\ UNCHANGED fills

\* The chase of t returns.  A close goes on to ask for the position.
Returns(t, success, filled) ==
  /\ chase' = [chase EXCEPT ![t] = NoChase]
  /\ IF t = "stop"
     THEN StopResult(success) /\ UNCHANGED entry
     ELSE /\ IF entry.pc = "entering"
             THEN EntryResult(success, filled)
             ELSE entry' = [entry EXCEPT !.pc = "asking"] /\ UNCHANGED <<position, marker, fills>>
          /\ UNCHANGED stop
  /\ UNCHANGED <<proc, orphans>>

\* Task t dies of an exception that nobody looks at before the shutdown.
Dies(t) ==
  /\ IF t = "stop" THEN StopEnds /\ UNCHANGED entry ELSE EntryEnds /\ UNCHANGED stop
  /\ chase' = [chase EXCEPT ![t] = NoChase]
  /\ UNCHANGED <<session, net>>
-----------------------------------------------------------------------------
(***************************************************************************)
(* The chase of task t.                                                    *)
(***************************************************************************)

\* The first order, or another one for the whole quantity when the last one has
\* ended: what that one executed is forgotten (execution_maker_chaser.py:194).  A
\* reduce-only order with nothing to reduce is refused, which is an exception.
Places(t) ==
  /\ Chasing(t)
  /\ chase[t].placed => Ended(t)
  /\ IF ReduceOnly(t) /\ Closable(chase[t].dir) = 0
     THEN Dies(t) /\ UNCHANGED orphans
     ELSE /\ chase' = [chase EXCEPT ![t] =
                         [NewChase(@.dir, @.size) EXCEPT !.placed = TRUE, !.left = chase[t].size]]
          /\ UNCHANGED <<session, entry, stop, net, orphans>>

Queries(t) ==
  /\ Chasing(t) /\ chase[t].placed
  /\ chase[t].seen # chase[t].done
  /\ chase[t].left > 0
  /\ chase' = [chase EXCEPT ![t].seen = chase[t].done]
  /\ UNCHANGED <<session, entry, stop, net, orphans>>

SeesFilled(t) ==
  /\ Chasing(t) /\ chase[t].placed /\ chase[t].done = chase[t].size
  /\ Returns(t, TRUE, chase[t].size)
  /\ UNCHANGED net

\* The time is over, or enough is filled: the order is cancelled, or was seen
\* CANCELED.  What the cancel finds executed is what the last query showed, unless
\* fills come late.
MayConclude(t) ==
  /\ Chasing(t)
  /\ chase[t].placed =>
       \/ Ended(t)
       \/ chase[t].left > 0 /\ (chase[t].seen = chase[t].done \/ "late_fill" \in Disturbances)

\* order.executed_qty of the last order.
Reported(t) == IF Ended(t) THEN chase[t].done ELSE chase[t].seen

MakerChaseEnds ==
  /\ MayConclude("entry")
  /\ Returns("entry", Reported("entry") > 0, Reported("entry"))
  /\ UNCHANGED net

\* Mutant: a stop whose time is over gives up, like an entry.
StopChaseGivesUp ==
  /\ MayConclude("stop")
  /\ Returns("stop", FALSE, Reported("stop"))
  /\ UNCHANGED net

\* The stop sends the rest as a MARKET reduce-only order.
StopChaseEnds ==
  LET c == chase["stop"]
      n == Least(c.size - Reported("stop"), Closable(c.dir))
  IN /\ MayConclude("stop")
     /\ IF Closable(c.dir) = 0
        THEN Dies("stop") /\ UNCHANGED orphans
        ELSE net' = net + c.dir * n /\ Returns("stop", TRUE, c.size)

\* The order was over before the amendment or the cancel that followed the last
\* query, or was seen EXPIRED and is cancelled all the same: the exchange refuses.
CancelRefused(t) ==
  /\ Chasing(t) /\ chase[t].placed /\ chase[t].left = 0
  /\ chase[t].done = chase[t].size => "late_fill" \in Disturbances
  /\ Dies(t)
  /\ UNCHANGED orphans

\* A ticker read, a placement, an amendment, a query or a cancel fails.
ChaseFails(t) ==
  /\ "error" \in Disturbances
  /\ Chasing(t)
  /\ Dies(t)
  /\ Orphaning({t})

ChaseStep(t) ==
  \/ Places(t) \/ Queries(t) \/ SeesFilled(t) \/ CancelRefused(t) \/ ChaseFails(t)
  \/ t = "entry" /\ MakerChaseEnds
  \/ t = "stop" /\ StopChaseEnds
-----------------------------------------------------------------------------
(***************************************************************************)
(* The rest of the two tasks.                                              *)
(***************************************************************************)
EntryUnchanged == UNCHANGED <<session, stop, net, orphans>>

\* assert_can_start_entry(position, active_entry=False, active_stop=...).
MayEnter == position = 0 /\ ~ActiveStop

\* The first step of run_live_entry.
EntryStarts ==
  /\ entry.pc = "new_entry"
  /\ IF MayEnter THEN entry' = [entry EXCEPT !.pc = "account"] ELSE EntryEnds
  /\ UNCHANGED chase /\ EntryUnchanged

\* client.account() answered: the entry is sized and its chase begins.
AccountRead ==
  /\ entry.pc = "account"
  /\ \/ /\ entry' = [entry EXCEPT !.pc = "entering"]
        /\ chase' = [chase EXCEPT !["entry"] = NewChase(entry.side, Qty)]
     \/ "error" \in Disturbances /\ EntryEnds /\ UNCHANGED chase
  /\ EntryUnchanged

\* The first step of run_live_reversal: a close of the position as it is now.
ReversalStarts ==
  /\ entry.pc = "new_reversal"
  /\ IF position = 0
     THEN EntryEnds /\ UNCHANGED chase
     ELSE /\ entry' = [entry EXCEPT !.pc = "closing"]
          /\ chase' = [chase EXCEPT !["entry"] = NewChase(-Sign(position), Abs(position))]
  /\ EntryUnchanged

\* Mutant: a position that is still there is not written down.
BelieveUnsaved(v) ==
  /\ position' = v
  /\ UNCHANGED marker

\* The reversal takes over the position it was told.
BelieveTold(v) == position' = v /\ WriteMarker(v)

\* Mutant: a close that returned is taken for a complete one.
GoesOnAsClosed(v) ==
  /\ BelieveTold(0)
  /\ IF ~ActiveStop
     THEN entry' = [entry EXCEPT !.pc = "account", !.got = 0]
     ELSE EntryEnds
  /\ UNCHANGED <<proc, fills, stop, chase, net, orphans>>

\* Mutant: the entry after a close does not look at the stop.
GoesOnBesideStop(v) ==
  /\ BelieveTold(v)
  /\ IF v = 0
     THEN entry' = [entry EXCEPT !.pc = "account", !.got = 0]
     ELSE EntryEnds
  /\ UNCHANGED <<proc, fills, stop, chase, net, orphans>>

\* After get_position: the entry follows when the position is flat.
GoesOn(v) ==
  /\ BelieveTold(v)
  /\ IF v = 0 /\ ~ActiveStop
     THEN entry' = [entry EXCEPT !.pc = "account", !.got = 0]
     ELSE EntryEnds
  /\ UNCHANGED <<proc, fills, stop, chase, net, orphans>>

\* The exchange answers get_position; the answer may take a while to arrive.
PositionAnswered ==
  /\ entry.pc = "asking"
  /\ \/ GoesOn(net)
     \/ /\ "late_answer" \in Disturbances
        /\ entry' = [entry EXCEPT !.pc = "told", !.got = net]
        /\ UNCHANGED chase /\ EntryUnchanged
     \/ /\ "error" \in Disturbances
        /\ EntryEnds /\ UNCHANGED chase /\ EntryUnchanged

PositionTold == entry.pc = "told" /\ GoesOn(entry.got)

\* Mutant: a stop does not look whether there is still a position.
StopStartsFlat ==
  /\ stop = "new"
  /\ stop' = "chasing"
  /\ chase' = [chase EXCEPT !["stop"] = NewChase(-Sign(position), Abs(position))]
  /\ UNCHANGED <<session, entry, net, orphans>>

\* The first step of run_live_stop.
StopStarts ==
  /\ stop = "new"
  /\ IF position = 0
     THEN StopEnds /\ UNCHANGED chase
     ELSE /\ stop' = "chasing"
          /\ chase' = [chase EXCEPT !["stop"] = NewChase(-Sign(position), Abs(position))]
  /\ UNCHANGED <<session, entry, net, orphans>>

EntryStep ==
  /\ proc = "running"
  /\ \/ EntryStarts \/ AccountRead \/ ReversalStarts \/ PositionAnswered \/ PositionTold
     \/ ChaseStep("entry")

\* A stop that was set off during the shutdown still runs until it is cancelled.
StopStep ==
  /\ proc \in {"running", "stopping"}
  /\ stop # "cancelled"
  /\ StopStarts \/ ChaseStep("stop")
-----------------------------------------------------------------------------
(***************************************************************************)
(* Start, ticks and end of a session.                                      *)
(***************************************************************************)
TasksUnchanged == UNCHANGED <<entry, stop, chase, net, orphans>>

\* The process is gone; systemd starts it again.
Gone == proc' = "down" /\ position' = 0 /\ fills' = 0

Start ==
  /\ proc = "down"
  /\ proc' = "open_orders"
  /\ UNCHANGED <<position, marker, fills>> /\ TasksUnchanged

\* Mutant: orders that rest at startup are not looked at.
OpenOrdersGateSkipped ==
  /\ proc = "open_orders"
  /\ proc' = "position"
  /\ UNCHANGED <<position, marker, fills>> /\ TasksUnchanged

\* Zero open orders are required.
OpenOrdersGate ==
  /\ proc = "open_orders"
  /\ IF orphans # <<>>
     THEN Gone /\ UNCHANGED marker
     ELSE proc' = "position" /\ UNCHANGED <<position, marker, fills>>
  /\ TasksUnchanged

\* Start flat, or resume exactly the position the marker describes.
PositionGate ==
  /\ proc = "position"
  /\ IF net = 0
     THEN proc' = "account" /\ position' = 0 /\ fills' = 0 /\ WriteMarker(0)
     ELSE /\ IF ResumeAllowed /\ marker = net
             THEN proc' = "account" /\ position' = net /\ fills' = 1
             ELSE Gone
          /\ UNCHANGED marker
  /\ TasksUnchanged

AccountGate ==
  /\ proc = "account"
  /\ \/ proc' = "running" /\ UNCHANGED <<position, marker, fills>>
     \/ "error" \in Disturbances /\ Gone /\ UNCHANGED marker
  /\ TasksUnchanged

\* Mutant: the fill limit is looked at only before the first entry.
BreakoutAcceptedUnlimited(s) == ~ActiveEntry /\ Sign(position) # s /\ ~ActiveStop

\* The TriggerMonitor fires no trigger beside an active entry or for the side
\* that is held; handle_strategy_events then looks at the fill limit and at the
\* stop.
BreakoutAccepted(s) ==
  /\ ~ActiveEntry /\ Sign(position) # s
  /\ ~(MaxEntryFills > 0 /\ fills >= MaxEntryFills)
  /\ ~ActiveStop

StopAccepted == StopLoss /\ position # 0 /\ ~ActiveStop

\* update_live_bookticker: one price may set off a breakout of side s, a stop,
\* or both.  The shutdown ends the feed last, after the tasks.
BookTicker(breakout, s, stopHit) ==
  /\ \/ proc = "running"
     \/ proc = "stopping" /\ (ActiveEntry \/ ActiveStop)
  /\ breakout \/ stopHit
  /\ IF breakout
     THEN /\ BreakoutAccepted(s)
          /\ entry' = [Idle EXCEPT !.pc = IF position = 0 THEN "new_entry" ELSE "new_reversal",
                                   !.side = s]
     ELSE UNCHANGED entry
  /\ IF stopHit
     THEN StopAccepted /\ stop' = "new"
     ELSE UNCHANGED stop
  /\ UNCHANGED <<session, chase, net, orphans>>

\* SIGTERM, which nothing handles, a kill, or the machine.
Crash ==
  /\ "crash" \in Disturbances
  /\ proc # "down"
  /\ Gone
  /\ entry' = Idle /\ stop' = "idle"
  /\ chase' = [t \in Tasks |-> NoChase]
  /\ Orphaning(Tasks)
  /\ UNCHANGED <<marker, net>>

\* An exception or a cancellation ends the candle loop, and the finally block
\* cancels both tasks; one that has not taken its first step never will.
Shutdown ==
  /\ "shutdown" \in Disturbances
  /\ proc = "running"
  /\ proc' = "stopping"
  /\ stop' = IF stop = "chasing" THEN "cancelled" ELSE "idle"
  /\ UNCHANGED <<position, marker, fills, entry, chase, net, orphans>>

\* A cancelled task cancels the order it knows of and ends; a placement or a
\* cancel that is under way may be cut off.  What was set off meanwhile is
\* cancelled at the end of the event loop.
Unwinds(t) ==
  /\ proc = "stopping"
  /\ IF t = "entry" THEN ActiveEntry ELSE ActiveStop
  /\ Dies(t)
  /\ Orphaning({t}) \/ UNCHANGED orphans

Stopped ==
  /\ proc = "stopping" /\ ~ActiveEntry /\ ~ActiveStop
  /\ Gone
  /\ UNCHANGED marker /\ TasksUnchanged

SessionStep ==
  \/ Start \/ OpenOrdersGate \/ PositionGate \/ AccountGate
  \/ \E s \in Sides, hit \in BOOLEAN : BookTicker(TRUE, s, hit)
  \/ BookTicker(FALSE, 0, TRUE)
  \/ Crash \/ Shutdown \/ \E t \in Tasks : Unwinds(t)
  \/ Stopped

ExchangeStep ==
  \/ \E t \in Tasks, n \in 1..MaxNet : Fill(t, n)
  \/ \E t \in Tasks : OrderEnds(t)
  \/ \E i \in DOMAIN orphans : OrphanFills(i) \/ OrphanExpires(i)
  \/ Operator

Init ==
  /\ proc = "down"
  /\ position = 0 /\ marker = 0 /\ fills = 0
  /\ entry = Idle /\ stop = "idle"
  /\ chase = [t \in Tasks |-> NoChase]
  /\ net = 0
  /\ orphans = <<>>

Next == EntryStep \/ StopStep \/ SessionStep \/ ExchangeStep

Spec == Init /\ [][Next]_vars
-----------------------------------------------------------------------------
(***************************************************************************)
(* Properties.                                                             *)
(***************************************************************************)
ChaseRec == [dir : Sides \cup {0}, size : Nat, placed : BOOLEAN,
             left : Nat, done : Nat, seen : Nat]

\* The values the state may have.  A chase belongs to a task, has something to
\* trade, and has seen no more than was executed.
TypeOK ==
  /\ proc \in {"down", "open_orders", "position", "account", "running", "stopping"}
  /\ position \in Int /\ marker \in Int /\ net \in Int
  /\ fills \in Nat
  /\ entry \in [pc : EntryPcs, side : Sides \cup {0}, got : Int]
  /\ stop \in StopPcs
  /\ chase \in [Tasks -> ChaseRec]
  /\ \A t \in Tasks :
       IF Chasing(t)
       THEN chase[t].dir # 0 /\ chase[t].size > 0 /\ chase[t].seen <= chase[t].done
       ELSE chase[t] = NoChase
  /\ orphans \in Seq([dir : Sides, left : Nat \ {0}, reduce : BOOLEAN])

Alive == proc \in {"account", "running", "stopping"}

Leg ==
  IF EntryLeg THEN "open"
  ELSE IF entry.pc \in {"idle", "new_entry"} THEN "none" ELSE "close"

Protocol == INSTANCE PositionProtocol WITH
  alive <- Alive, belief <- position, saved <- marker, leg <- Leg, stopping <- ActiveStop

\* The session keeps the protocol of PositionProtocol whatever fails: an entry
\* runs only from flat and with no stop at work, the belief is always the one
\* saved, and a restart takes up only what was saved.
ImplementsProtocol == Protocol!Spec

\* A process fills no more entries than it is configured for, a resumed
\* position counting as one (main.py:132, 301, 381).
FillLimit == MaxEntryFills > 0 => fills <= MaxEntryFills

\* A session that begins knows the position of the account: no order that a
\* former process left behind changes it between the gates (main.py:121-147).
StartsInAgreement ==
  [][ proc = "account" /\ proc' = "running" => position = net /\ orphans = <<>> ]_vars

\* docs/operations_runbook.md:198 "Unknown order mutation result: reconcile
\* before any further mutation.": no order is placed for an entry while an
\* order of unknown outcome may still rest or arrive.
EntryOrderAlone == entry.pc = "entering" /\ chase["entry"].placed => orphans = <<>>
=============================================================================
