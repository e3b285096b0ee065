----------------------------- MODULE LiveMonitor ----------------------------
(***************************************************************************)
(* scripts/live_monitor_status.py beside a live session: every quarter of  *)
(* an hour it reads, one after the other and while the session goes on,    *)
(* the service's state, the open orders, the position, the marker file and *)
(* the event log, and writes a report that says OK or ALERT.  The log is   *)
(* read from the moment the last report was begun.                         *)
(*                                                                         *)
(* Of the abnormal events the model keeps when they were logged and        *)
(* whether a report has counted them. Only events.jsonl is read, and its   *)
(* last 20000 lines: an event that is rotated out, or has so many others   *)
(* after it, is gone for the monitor. The alerts about the market's        *)
(* heartbeat, the unit's settings and its restart count are left out: they *)
(* only turn more reports into ALERT.                                      *)
(***************************************************************************)
EXTENDS LiveStrategy

VARIABLES
  check, \* where the monitor is, and what it has found so far
  log    \* what the file holds of abnormal events that a report may have to count

monitored == <<vars, check, log>>
-----------------------------------------------------------------------------
\* alert: one of the readings so far is an alert.  matched: at some moment of
\* this check the marker described the position, or a reversal held the answer
\* it was about to write down.  rolled: an event of this check fell out of what
\* the monitor reads.
NoCheck == [pc |-> "off", alert |-> FALSE, matched |-> FALSE, rolled |-> FALSE, position |-> 0]

OpenOrders == orphans # <<>> \/ \E t \in Tasks : chase[t].left > 0

Matched == marker = net \/ entry.pc = "told"

\* "since": after the last report was begun; "during": after this check was;
\* "told": found by this check, whenever it was; "before": before the last report
\* was begun, and found by none.
Logged == IF check.pc = "off" THEN "since" ELSE "during"

\* The check goes on, and is told what the step at hand leads to.  Of one that
\* has found an alert nothing more is kept.
Looking(c) ==
  check' = IF c.alert
           THEN [NoCheck EXCEPT !.pc = c.pc, !.alert = TRUE]
           ELSE [c EXCEPT !.matched = @ \/ Matched']
Watching == IF check.pc = "off" THEN UNCHANGED check ELSE Looking(check)
-----------------------------------------------------------------------------
(***************************************************************************)
(* The session, with what it logs.                                         *)
(***************************************************************************)
\* The event of a placement is logged with its answer, which may come after
\* everything the monitor reads, or never.
EntryLogs ==
  /\ proc = "running"
  /\ \/ AccountRead /\ entry'.pc = "entering"
     \/ /\ entry.pc = "entering"
        /\ Places("entry") \/ Queries("entry") \/ SeesFilled("entry") \/ MakerChaseEnds

EntrySilent ==
  /\ proc = "running"
  /\ \/ EntryStarts \/ ReversalStarts \/ PositionAnswered \/ PositionTold
     \/ AccountRead /\ entry'.pc # "entering"
     \/ Places("entry") \/ CancelRefused("entry") \/ ChaseFails("entry")
     \/ entry.pc = "closing" /\ (Queries("entry") \/ SeesFilled("entry") \/ MakerChaseEnds)

\* What the chase of a stop logs of its limit order is not among the abnormal
\* events; its end and its MARKET order are.
StopLogs ==
  /\ proc \in {"running", "stopping"} /\ stop # "cancelled"
  /\ SeesFilled("stop") \/ StopChaseEnds

StopSilent ==
  /\ proc \in {"running", "stopping"} /\ stop # "cancelled"
  /\ \/ StopStarts \/ Places("stop") \/ Queries("stop")
     \/ CancelRefused("stop") \/ ChaseFails("stop")

TickLogs ==
  \/ \E s \in Sides : BookTicker(TRUE, s, TRUE)
  \/ BookTicker(FALSE, 0, TRUE)

\* A breakout that the fill limit or the risk holds back changes nothing else.
BlockedTrigger == proc = "running" /\ UNCHANGED vars

SessionSilent ==
  \/ Start \/ OpenOrdersGate \/ PositionGate \/ AccountGate
  \/ \E s \in Sides : BookTicker(TRUE, s, FALSE)
  \/ Crash \/ Shutdown \/ \E t \in Tasks : Unwinds(t)
  \/ Stopped

SessionGoesOn ==
  \/ (EntryLogs \/ StopLogs \/ TickLogs \/ BlockedTrigger) /\ log' = log \cup {Logged} /\ Watching
  \/ (EntrySilent \/ StopSilent \/ SessionSilent \/ ExchangeStep) /\ UNCHANGED log /\ Watching

\* The session logs so much that events.jsonl is rotated (logging_config.py:56-61),
\* or that older lines are no longer among the last 20000.
FallsOut ==
  /\ proc # "down"
  /\ UNCHANGED vars
  /\ \E S \in SUBSET log \ {{}} :
       /\ log' = log \ S
       /\ IF check.pc = "off"
          THEN UNCHANGED check
          ELSE Looking([check EXCEPT !.rolled = @ \/ "during" \in S])
-----------------------------------------------------------------------------
(***************************************************************************)
(* build_payload and main.                                                 *)
(***************************************************************************)
At(p) == check.pc = p

CheckStarts ==
  /\ At("off")
  /\ UNCHANGED <<vars, log>>
  /\ Looking([NoCheck EXCEPT !.pc = "orders", !.alert = proc = "down"])

ReadsOrders ==
  /\ At("orders")
  /\ UNCHANGED <<vars, log>>
  /\ Looking([check EXCEPT !.pc = "position", !.alert = @ \/ OpenOrders])

ReadsPosition ==
  /\ At("position")
  /\ UNCHANGED <<vars, log>>
  /\ Looking([check EXCEPT !.pc = "marker", !.position = net])

\* Mutant: without a position the marker is not looked at.
ReadsMarkerOfPosition ==
  /\ At("marker")
  /\ UNCHANGED <<vars, log>>
  /\ Looking([check EXCEPT !.pc = "log", !.position = 0,
                           !.alert = @ \/ (check.position # 0 /\ marker # check.position)])

\* compare_marker: a position without its marker, or a marker without it.
ReadsMarker ==
  /\ At("marker")
  /\ UNCHANGED <<vars, log>>
  /\ Looking([check EXCEPT !.pc = "log", !.position = 0, !.alert = @ \/ marker # check.position])

\* read_recent_events
ReadsLog ==
  /\ At("log")
  /\ UNCHANGED vars
  /\ Looking([check EXCEPT !.pc = "write", !.alert = @ \/ log # {}])
  /\ log' = {"told" : e \in log}

\* What a written report has counted is forgotten.  A later report may count it
\* once more, and be an ALERT where the model's says OK.
Uncounted == log \ {"told"}

\* Mutant: checked_at_epoch is the time at which the report is written.
WritesLate ==
  /\ At("write")
  /\ check' = NoCheck
  /\ log' = {"before" : e \in Uncounted}
  /\ UNCHANGED vars

\* The next check counts from the beginning of this one.
Writes ==
  /\ At("write")
  /\ check' = NoCheck
  /\ log' = {IF e = "during" THEN "since" ELSE "before" : e \in Uncounted}
  /\ UNCHANGED vars

\* A request fails or the script is stopped: no report is written, and the next
\* check counts from where this one did.
CheckFails ==
  /\ ~At("off")
  /\ check' = NoCheck
  /\ log' = {"since" : e \in log}
  /\ UNCHANGED vars

MonitorStep ==
  \/ CheckStarts \/ ReadsOrders \/ ReadsPosition \/ ReadsMarker \/ ReadsLog
  \/ Writes \/ CheckFails

MonitorInit == Init /\ check = NoCheck /\ log = {}

MonitorNext == SessionGoesOn \/ FallsOut \/ MonitorStep

MonitorSpec == MonitorInit /\ [][MonitorNext]_monitored
-----------------------------------------------------------------------------
(***************************************************************************)
(* Properties.                                                             *)
(***************************************************************************)

\* A report that says OK was true at some moment of its check: the marker
\* described the position, although the two were read at different moments, and
\* whatever failed in the session.  Only the answer that a reversal holds may
\* make an old position and a new marker agree (live_monitor_status.py:127, 142;
\* live_strategy_runner.py:193-228), or a log that is rotated within the check
\* and takes along the event of the change (logging_config.py:56-61).
OKWasTrue == At("write") /\ ~check.alert => check.matched \/ check.rolled

\* An abnormal event that the file still holds was counted by the report whose
\* cutoff it follows, or will be: none falls between two reports, however long a
\* check takes and however many fail (live_monitor_status.py:162-164, 205).  What
\* is rotated out before it is read is lost, and nothing is said of it.
NoEventMissed == "before" \notin log
=============================================================================
