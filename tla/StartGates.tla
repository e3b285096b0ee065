----------------------------- MODULE StartGates -----------------------------
(***************************************************************************)
(* How the live strategy comes to run: the signed read-only preflight      *)
(* (scripts/preflight_live_readonly.py) and the order-control canary write *)
(* their reports, the readiness report sums them up, the final gate reads  *)
(* the sum, and the start script starts the service, which has gates of    *)
(* its own (src/bot/main.py:105-146).  A boot starts the service with none *)
(* of the scripts.                                                         *)
(*                                                                         *)
(* One person runs one script at a time, while the service is off.  The    *)
(* service is followed until it runs, from an account without a managed    *)
(* position; LiveStrategy has the rest.                                    *)
(***************************************************************************)
EXTENDS OrderControlCanary

CONSTANT ByHand \* the positions a person may open, per row

ASSUME ByHandAssumption == ByHand \subseteq Int

VARIABLES
  preflight, \* where the preflight is, and what it read
  verdict,   \* the preflight's report says GO
  summary,   \* live_readiness_gate_summary.json
  starter,   \* where the start script is
  service    \* where the live service is

gates == <<preflight, verdict, summary, starter, service>>
vars == <<canaryVars, gates>>
-----------------------------------------------------------------------------
NoPreflight == [pc |-> "off", flat |-> FALSE]
Missing == [preflight |-> FALSE, canary |-> "no_go"]

ShellIdle == preflight.pc = "off" /\ At("off") /\ starter = "off" /\ service = "off"

Lifts(A) == A /\ UNCHANGED gates
-----------------------------------------------------------------------------
(***************************************************************************)
(* run_preflight.                                                          *)
(***************************************************************************)
PreflightStarts ==
  /\ ShellIdle
  /\ preflight' = [NoPreflight EXCEPT !.pc = "position"]
  /\ UNCHANGED <<canaryVars, verdict, summary, starter, service>>

\* position_amount_from_payload adds up the rows of a hedge-mode account.
PreflightReadsPosition ==
  /\ preflight.pc = "position"
  /\ preflight' = [pc |-> "orders", flat |-> Net(held) = 0]
  /\ UNCHANGED <<canaryVars, verdict, summary, starter, service>>

\* The other checks, of the host, the clock and the filters, may fail as well.
PreflightReadsOrders ==
  /\ preflight.pc = "orders"
  /\ \E othersOk \in BOOLEAN :
       verdict' = (othersOk /\ preflight.flat /\ OpenOrders = 0)
  /\ preflight' = NoPreflight
  /\ UNCHANGED <<canaryVars, summary, starter, service>>

\* A request failed: the report says so.
PreflightFails ==
  /\ preflight.pc # "off"
  /\ verdict' = FALSE
  /\ preflight' = NoPreflight
  /\ UNCHANGED <<canaryVars, summary, starter, service>>

\* The configuration is refused, or the script is stopped: the report stays.
PreflightStops ==
  /\ preflight.pc # "off"
  /\ preflight' = NoPreflight
  /\ UNCHANGED <<canaryVars, verdict, summary, starter, service>>
-----------------------------------------------------------------------------
(***************************************************************************)
(* The readiness report, the final gate and the start script.              *)
(***************************************************************************)
\* Of the reports the sum keeps what the gate tells apart.  A report that is
\* missing is no GO, and what else the gate asks of the canary (no open order, no
\* unexpected fill) a GO has.
Summary == [preflight |-> verdict, canary |-> report]

Approved(s) == s.preflight /\ s.canary = "one_way"

\* start_order_control_canary_user_service.sh sums up after the canary; it can
\* be done at any time.
ReadinessReported ==
  /\ ShellIdle
  /\ summary' = Summary
  /\ UNCHANGED <<canaryVars, preflight, verdict, starter, service>>

StarterStarts ==
  /\ ShellIdle
  /\ starter' = "report"
  /\ UNCHANGED <<canaryVars, preflight, verdict, summary, service>>

\* Mutant: the start script does not sum up again.
StarterKeepsSummary ==
  /\ starter = "report"
  /\ starter' = "gate"
  /\ UNCHANGED <<canaryVars, preflight, verdict, summary, service>>

StarterReports ==
  /\ starter = "report"
  /\ summary' = Summary
  /\ starter' = "gate"
  /\ UNCHANGED <<canaryVars, preflight, verdict, service>>

\* final_live_start_gate.py; what it asks of the configuration may fail too.
StarterGate ==
  /\ starter = "gate" /\ NothingInFlight
  /\ starter' = "off"
  /\ service' \in {"off"} \cup IF Approved(summary) THEN {"mode"} ELSE {}
  /\ UNCHANGED <<canaryVars, preflight, verdict, summary>>
-----------------------------------------------------------------------------
(***************************************************************************)
(* The live service, until it runs.                                        *)
(***************************************************************************)
Service(from, to) ==
  /\ service = from /\ service' = to
  /\ UNCHANGED <<canaryVars, preflight, verdict, summary, starter>>

\* systemd starts the service, and again ten seconds after it ended.
ServiceStarts == NothingInFlight /\ Service("down", "mode")

ModeGate == Service("mode", IF dual THEN "down" ELSE "orders")

\* Mutant: the service looks at the open orders only after the position.
OrdersGateSkipped == Service("orders", "position")

OrdersGate == Service("orders", IF OpenOrders # 0 THEN "down" ELSE "position")

\* There is no marker, so a position is not taken up.
PositionGate == Service("position", IF Flat(held) THEN "running" ELSE "down")

ServiceFails == service \in {"mode", "orders", "position", "running"} /\ Service(service, "down")

\* stop_final_live_strategy_user_service.sh
ServiceStopped == service # "off" /\ Service(service, "off")

\* The machine reboots: what ran is gone, and the enabled service comes up.
Boots ==
  /\ service' = "down"
  /\ preflight' = NoPreflight /\ starter' = "off"
  /\ UNCHANGED <<verdict, summary>>
  /\ Killed \/ (At("off") /\ UNCHANGED canaryVars)
-----------------------------------------------------------------------------
(***************************************************************************)
(* The person at the shell and at the exchange's own site.                 *)
(***************************************************************************)
CanaryLaunched == ShellIdle /\ \E approved \in BOOLEAN : Launches(approved)

CleansAccount ==
  /\ ShellIdle
  /\ held' = FlatRows
  /\ orders' = [s \in Sides |-> IF Rests(s) THEN NoOrder ELSE orders[s]]
  /\ UNCHANGED <<dual, script, gates>>

OpensPosition ==
  /\ ShellIdle /\ Flat(held)
  /\ \E s \in Sides, n \in ByHand :
       /\ n * Dir(s) > 0
       /\ held' = [held EXCEPT ![RowOf(s, dual)] = n]
  /\ UNCHANGED <<dual, orders, script, gates>>

\* The exchange changes the mode only of an account without orders and positions.
SwitchesMode ==
  /\ ShellIdle /\ Flat(held) /\ OpenOrders = 0
  /\ dual' = ~dual
  /\ UNCHANGED <<held, orders, script, gates>>

PreflightStep ==
  \/ PreflightStarts \/ PreflightReadsPosition \/ PreflightReadsOrders
  \/ PreflightFails \/ PreflightStops

ServiceStep ==
  \/ ServiceStarts \/ ModeGate \/ OrdersGate \/ PositionGate
  \/ ServiceFails \/ ServiceStopped \/ Boots

ShellStep ==
  \/ ReadinessReported \/ StarterStarts \/ StarterReports \/ StarterGate
  \/ Lifts(CanaryLaunched) \/ CleansAccount \/ OpensPosition \/ SwitchesMode

Init ==
  /\ CanaryInit
  /\ dual \in BOOLEAN
  /\ held = FlatRows
  /\ preflight = NoPreflight /\ verdict = FALSE /\ summary = Missing
  /\ starter = "off" /\ service = "off"

Next ==
  \/ Lifts(ExchangeMoves) \/ Lifts(CanaryStep) \/ Lifts(Killed)
  \/ PreflightStep \/ ShellStep \/ ServiceStep

Spec == Init /\ [][Next]_vars
-----------------------------------------------------------------------------
(***************************************************************************)
(* Properties.                                                             *)
(***************************************************************************)
CanaryPcs == {"off", "account", "orders", "positions", "place", "query", "modify",
              "cancel", "undo", "clean_read", "clean_close", "final_orders",
              "final_positions", "exit"}
Counts == {Unread} \cup 0..2
Verdicts == {"no_go", "one_way", "hedge"}
Payloads == [orders : Counts, mode : {"unread", "one_way", "hedge"}, unexpected : BOOLEAN,
             cleanupError : BOOLEAN, go : BOOLEAN]

\* The values the state may have.  The rows of the other position mode are empty,
\* a resting order has something left, and a report that says GO is complete.
TypeOK ==
  /\ dual \in BOOLEAN
  /\ held \in [Rows -> Int]
  /\ IF dual THEN held["BOTH"] = 0 ELSE held["LONG"] = 0 /\ held["SHORT"] = 0
  /\ orders \in [Sides -> [at : {"none", "flight", "rests", "over"}, left : Nat, done : Nat]]
  /\ \A s \in Sides : Rests(s) => orders[s].left > 0
  /\ canary \in [pc : CanaryPcs, side : Sides, rescuing : BOOLEAN, approved : BOOLEAN,
                 hedge : BOOLEAN, count : Counts, filled : BOOLEAN]
  /\ result \in [Sides -> {"none", "unanswered", "bad", "ok"}]
  /\ closing \in [Rows -> Int]
  /\ payload \in Payloads
  /\ payload.go => payload.orders = 0 /\ ~payload.unexpected /\ payload.mode # "unread"
  /\ report \in Verdicts
  /\ preflight \in [pc : {"off", "position", "orders"}, flat : BOOLEAN]
  /\ verdict \in BOOLEAN
  /\ summary \in [preflight : BOOLEAN, canary : Verdicts]
  /\ starter \in {"off", "report", "gate"}
  /\ service \in {"off", "down", "mode", "orders", "position", "running"}

\* The start script starts the service only on the verdicts that the two reports
\* hold now, however often they were written since the last sum
\* (start_final_live_strategy_user_service.sh:35-38).
StartedOnLatestVerdicts ==
  [][ starter = "gate" /\ service' = "mode" => verdict /\ report = "one_way" ]_vars

\* However it was started, the service begins in one-way mode on a flat account
\* where nothing rests: not the order of a canary that was killed before its
\* cancel, and not what that order executed (src/bot/main.py:119-146).
RunsOnCleanAccount ==
  [][ service = "position" /\ service' = "running" =>
        ~dual /\ Flat(held) /\ OpenOrders = 0 ]_vars
=============================================================================
