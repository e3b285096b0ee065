-------------------------- MODULE LiveMonitorProofs -------------------------
(***************************************************************************)
(* The live monitor only watches, misses no event and says OK of nothing   *)
(* that was not so, for every quantity and whatever goes wrong in the      *)
(* session it watches.                                                     *)
(*                                                                         *)
(* It reads the position and the marker at different moments.  That is     *)
(* harmless because of the log: a marker that a task writes on its own     *)
(* account comes with an event, and every other marker is one the exchange *)
(* has just confirmed.  An event of the check that is rotated out before   *)
(* it is read is remembered as such.                                       *)
(***************************************************************************)
EXTENDS LiveMonitor, LiveStrategyProofs

CheckPcs == {"off", "orders", "position", "marker", "log", "write"}

CheckRec == [pc : CheckPcs, alert : BOOLEAN, matched : BOOLEAN, rolled : BOOLEAN, position : Int]

WatchTypes ==
  /\ check \in CheckRec
  /\ log \subseteq {"since", "during", "told"}

\* When the report is written, every event that is not in it came after the log was read,
\* hence after the check was begun.
CountInv == At("write") => log \subseteq {"told", "during"}

\* A check that is under way knows a match that holds now.
MatchInv == ~At("off") /\ ~check.alert /\ Matched => check.matched

\* Without an event since the check was begun, the marker is the position that was read only
\* if there was a moment at which it described the position.
SilentInv ==
  "during" \notin log /\ ~check.rolled /\ ~check.alert /\ ~check.matched =>
    (At("marker") => marker # check.position) /\ ~At("log")

WatchInv == WatchTypes /\ CountInv /\ MatchInv /\ SilentInv /\ OKWasTrue
-----------------------------------------------------------------------------
(***************************************************************************)
(* What the monitor leaves alone.                                          *)
(***************************************************************************)
LEMMA SessionIsNext ==
  ASSUME SessionGoesOn
  PROVE  [Next]_vars /\ Watching /\ log' \in {log, log \cup {Logged}}
<1>1. Watching /\ log' \in {log, log \cup {Logged}}
  BY DEF SessionGoesOn
<1>2. ASSUME EntryLogs \/ EntrySilent PROVE [Next]_vars
  BY <1>2 DEF EntryLogs, EntrySilent, Next, EntryStep, ChaseStep
<1>3. ASSUME StopLogs \/ StopSilent PROVE [Next]_vars
  BY <1>3 DEF StopLogs, StopSilent, Next, StopStep, ChaseStep
<1>4. ASSUME TickLogs PROVE [Next]_vars
  BY <1>4 DEF TickLogs, Next, SessionStep
<1>5. ASSUME SessionSilent PROVE [Next]_vars
  BY <1>5 DEF SessionSilent, Next, SessionStep
<1>6. ASSUME BlockedTrigger \/ ExchangeStep PROVE [Next]_vars
  BY <1>6 DEF BlockedTrigger, Next
<1> QED BY <1>1, <1>2, <1>3, <1>4, <1>5, <1>6 DEF SessionGoesOn

LEMMA CheckTypes ==
  /\ NoCheck \in CheckRec
  /\ \A r \in CheckRec :
       /\ r.pc \in CheckPcs /\ r.alert \in BOOLEAN /\ r.matched \in BOOLEAN
       /\ r.rolled \in BOOLEAN /\ r.position \in Int
  /\ \A r \in CheckRec, p \in CheckPcs, n \in Int : [r EXCEPT !.pc = p, !.position = n] \in CheckRec
  /\ \A r \in CheckRec, p \in CheckPcs, a \in BOOLEAN : [r EXCEPT !.pc = p, !.alert = a] \in CheckRec
  /\ \A r \in CheckRec, p \in CheckPcs, n \in Int, a \in BOOLEAN :
       [r EXCEPT !.pc = p, !.position = n, !.alert = a] \in CheckRec
  /\ \A r \in CheckRec, a \in BOOLEAN : [r EXCEPT !.rolled = a] \in CheckRec
  /\ \A r \in CheckRec, a \in BOOLEAN : [r EXCEPT !.matched = a] \in CheckRec
<1>1. NoCheck \in CheckRec
  BY DEF NoCheck, CheckRec, CheckPcs
<1>2. ASSUME NEW r \in CheckRec
      PROVE  /\ r.pc \in CheckPcs /\ r.alert \in BOOLEAN /\ r.matched \in BOOLEAN
             /\ r.rolled \in BOOLEAN /\ r.position \in Int
  BY DEF CheckRec
<1>7. ASSUME NEW r \in CheckRec, NEW p \in CheckPcs, NEW n \in Int
      PROVE  [r EXCEPT !.pc = p, !.position = n] \in CheckRec
  BY DEF CheckRec
<1>3. ASSUME NEW r \in CheckRec, NEW p \in CheckPcs, NEW a \in BOOLEAN
      PROVE  [r EXCEPT !.pc = p, !.alert = a] \in CheckRec
  BY DEF CheckRec
<1>4. ASSUME NEW r \in CheckRec, NEW p \in CheckPcs, NEW n \in Int, NEW a \in BOOLEAN
      PROVE  [r EXCEPT !.pc = p, !.position = n, !.alert = a] \in CheckRec
  BY DEF CheckRec
<1>5. ASSUME NEW r \in CheckRec, NEW a \in BOOLEAN PROVE [r EXCEPT !.rolled = a] \in CheckRec
  BY DEF CheckRec
<1>6. ASSUME NEW r \in CheckRec, NEW a \in BOOLEAN PROVE [r EXCEPT !.matched = a] \in CheckRec
  BY DEF CheckRec
<1> QED BY <1>1, <1>2, <1>3, <1>4, <1>5, <1>6, <1>7

\* What a reading leaves of a check that goes on.
LEMMA LookingLeaves ==
  ASSUME NEW c \in CheckRec, Looking(c)
  PROVE  /\ check' \in CheckRec
         /\ check'.pc = c.pc /\ check'.alert = c.alert
         /\ IF c.alert
            THEN ~(check'.matched) /\ ~(check'.rolled)
            ELSE /\ check'.position = c.position /\ check'.rolled = c.rolled
                 /\ check'.matched = (c.matched \/ Matched')
<1>1. c.pc \in CheckPcs /\ c.alert \in BOOLEAN /\ TRUE \in BOOLEAN /\ NoCheck \in CheckRec
  BY CheckTypes, Zenon
<1>2. CASE c.alert
  <2>1. check' = [NoCheck EXCEPT !.pc = c.pc, !.alert = TRUE]
    BY <1>2 DEF Looking
  <2>2. check' \in CheckRec
    BY <1>1, <2>1, CheckTypes, Zenon
  <2>3. check'.pc = c.pc /\ check'.alert /\ ~(check'.matched) /\ ~(check'.rolled)
    BY <2>1 DEF NoCheck
  <2> QED BY <1>2, <2>2, <2>3
<1>3. CASE ~c.alert
  <2>1. check' = [c EXCEPT !.matched = c.matched \/ Matched'] /\ (c.matched \/ Matched') \in BOOLEAN
    BY <1>3 DEF Looking
  <2>2. check' \in CheckRec
    BY <2>1, CheckTypes, Zenon
  <2>3. /\ check'.pc = c.pc /\ check'.alert = c.alert
        /\ check'.position = c.position /\ check'.rolled = c.rolled
        /\ check'.matched = (c.matched \/ Matched')
    BY <2>1 DEF CheckRec
  <2> QED BY <1>3, <2>2, <2>3
<1> QED BY <1>2, <1>3

LEMMA MonitorIsSilent == ASSUME MonitorStep PROVE UNCHANGED vars
BY DEF MonitorStep, CheckStarts, ReadsOrders, ReadsPosition, ReadsMarker, ReadsLog, Writes, CheckFails

LEMMA FallingIsSilent == ASSUME FallsOut PROVE UNCHANGED vars
BY DEF FallsOut

\* The monitor changes nothing of what it watches: a session beside it is a session
\* (scripts/live_monitor_status.py sends no order and writes only its report).
THEOREM OnlyWatches == MonitorSpec => Spec
<1>1. MonitorInit => Init
  BY DEF MonitorInit
<1>2. [MonitorNext]_monitored => [Next]_vars
  BY SessionIsNext, FallingIsSilent, MonitorIsSilent DEF MonitorNext, monitored
<1> QED BY <1>1, <1>2, PTL DEF MonitorSpec, Spec

\* What holds of every session holds of one that is watched: its types, the fill limit, the
\* protocol, and a start in agreement with the account.
THEOREM WatchedSession ==
  MonitorSpec => []TypeOK /\ []FillLimit /\ ImplementsProtocol /\ StartsInAgreement
BY OnlyWatches, TypeCorrect, FillLimitHolds, Implements, StartAgrees, PTL
-----------------------------------------------------------------------------
(***************************************************************************)
(* The steps of the session.                                               *)
(***************************************************************************)

\* A step that writes the marker without an event writes what the exchange confirms, or
\* the answer that a reversal was told.
LEMMA SilentMarker ==
  ASSUME SessionGoesOn, ~At("off"), "during" \notin log', marker' # marker
  PROVE  Matched \/ Matched'
<1>1. EntrySilent \/ StopSilent \/ SessionSilent \/ ExchangeStep
  BY DEF SessionGoesOn, Logged, At
<1>2. CASE EntrySilent
  <2>1. CASE PositionAnswered
    BY <2>1
    DEF PositionAnswered, GoesOn, BelieveTold, WriteMarker, EntryUnchanged, session, Matched
  <2>2. CASE PositionTold
    BY <2>2 DEF PositionTold, Matched
  <2>3. CASE entry.pc = "closing" /\ (Queries("entry") \/ SeesFilled("entry") \/ MakerChaseEnds)
    BY <2>3 DEF Queries, SeesFilled, MakerChaseEnds, Returns, session
  <2> QED
    BY <1>2, <2>1, <2>2, <2>3
    DEF EntrySilent, EntryStarts, ReversalStarts, AccountRead, EntryUnchanged, Places,
        CancelRefused, ChaseFails, Dies, session
<1>3. CASE StopSilent
  BY <1>3 DEF StopSilent, StopStarts, Places, Queries, CancelRefused, ChaseFails, Dies, session
<1>4. CASE SessionSilent
  <2>1. CASE PositionGate
    BY <2>1 DEF PositionGate, WriteMarker, TasksUnchanged, Matched
  <2>2. CASE \E s \in Sides : BookTicker(TRUE, s, FALSE)
    BY <2>2 DEF BookTicker, session
  <2>3. CASE \E t \in Tasks : Unwinds(t)
    BY <2>3 DEF Unwinds, Dies, session
  <2> QED
    BY <1>4, <2>1, <2>2, <2>3
    DEF SessionSilent, Start, OpenOrdersGate, AccountGate, Crash, Shutdown, Stopped
<1>5. CASE ExchangeStep
  BY <1>5
  DEF ExchangeStep, Fill, OrderEnds, OrphanFills, OrphanExpires, Operator, session
<1> QED BY <1>1, <1>2, <1>3, <1>4, <1>5

\* A session does not take an event back.
LEMMA LogGrows == ASSUME SessionGoesOn, "during" \notin log' PROVE "during" \notin log
BY SessionIsNext

LEMMA SessionWatched == ASSUME WatchInv, SessionGoesOn PROVE WatchInv'
<1> USE DEF At
<1>1. Watching /\ log' \in {log, log \cup {Logged}} /\ check \in CheckRec
  BY SessionIsNext DEF WatchInv, WatchTypes
<1>2. Logged \in {"since", "during"} /\ (~At("off") => Logged = "during")
  BY DEF Logged
<1>3. CASE At("off")
  <2>1. check' = check
    BY <1>1, <1>3 DEF Watching
  <2> QED
    BY <1>1, <1>2, <1>3, <2>1
    DEF WatchInv, WatchTypes, CountInv, MatchInv, SilentInv, OKWasTrue
<1>4. CASE ~At("off")
  <2>1. /\ check' \in CheckRec
        /\ check'.pc = check.pc /\ check'.alert = check.alert
        /\ IF check.alert
           THEN ~(check'.matched) /\ ~(check'.rolled)
           ELSE /\ check'.position = check.position /\ check'.rolled = check.rolled
                /\ check'.matched = (check.matched \/ Matched')
    BY <1>1, <1>4, LookingLeaves DEF Watching
  <2>2. WatchTypes' /\ CountInv'
    BY <1>1, <1>2, <1>4, <2>1 DEF WatchInv, WatchTypes, CountInv
  <2>3. MatchInv' /\ OKWasTrue'
    BY <2>1 DEF WatchInv, MatchInv, OKWasTrue
  <2>4. SilentInv'
    <3>1. SUFFICES ASSUME "during" \notin log', ~check'.rolled, ~check'.alert, ~check'.matched
                   PROVE  (check'.pc = "marker" => marker' # check'.position) /\ check'.pc # "log"
      BY DEF SilentInv
    <3>2. "during" \notin log /\ ~check.alert /\ ~check.rolled /\ ~check.matched /\ ~Matched'
      BY <2>1, <3>1, LogGrows
    <3>3. ~Matched
      BY <1>4, <3>2 DEF WatchInv, MatchInv
    <3>4. marker' = marker
      BY <1>4, <3>1, <3>2, <3>3, SilentMarker
    <3> QED BY <2>1, <3>2, <3>4 DEF WatchInv, SilentInv
  <2> QED BY <2>2, <2>3, <2>4 DEF WatchInv
<1> QED BY <1>3, <1>4
-----------------------------------------------------------------------------
(***************************************************************************)
(* The steps of the monitor.                                               *)
(***************************************************************************)

\* A reading knows the match of its moment.
LEMMA LookingMatched ==
  ASSUME NEW c \in CheckRec,
         Looking(c), UNCHANGED vars
  PROVE  /\ check' \in CheckRec
         /\ check'.pc = c.pc /\ check'.alert = c.alert
         /\ ~c.alert => /\ check'.position = c.position /\ check'.rolled = c.rolled
                        /\ check'.matched = (c.matched \/ Matched)
         /\ MatchInv'
<1>1. Matched' = Matched
  BY DEF Matched, vars
<1> QED BY <1>1, LookingLeaves DEF MatchInv

\* What falls out of the log within a check is remembered.
LEMMA FallingWatched == ASSUME WatchInv, FallsOut PROVE WatchInv'
<1> USE DEF At
<1>1. PICK S \in SUBSET log :
        /\ log' = log \ S
        /\ IF check.pc = "off"
           THEN UNCHANGED check
           ELSE Looking([check EXCEPT !.rolled = @ \/ "during" \in S])
  BY DEF FallsOut
<1>2. UNCHANGED vars /\ marker' = marker /\ check \in CheckRec
  BY FallingIsSilent DEF vars, session, WatchInv, WatchTypes
<1>3. CASE At("off")
  BY <1>1, <1>3
  DEF WatchInv, WatchTypes, CountInv, MatchInv, SilentInv, OKWasTrue
<1>4. CASE ~At("off")
  <2> DEFINE a == check.rolled \/ "during" \in S
             c == [check EXCEPT !.rolled = a]
  <2>1. a \in BOOLEAN
    BY <1>2, CheckTypes, Zenon
  <2>2. c \in CheckRec
    <3> HIDE DEF a
    <3> QED BY <1>2, <2>1, CheckTypes, Zenon
  <2>3. Looking(c) /\ c.pc = check.pc /\ c.alert = check.alert /\ c.matched = check.matched
        /\ c.position = check.position /\ c.rolled = a
    BY <1>1, <1>2, <1>4 DEF CheckRec
  <2> HIDE DEF c
  <2>4. /\ check' \in CheckRec /\ MatchInv'
        /\ check'.pc = check.pc /\ check'.alert = check.alert
        /\ ~check.alert => /\ check'.position = check.position /\ check'.rolled = a
                           /\ check'.matched = (check.matched \/ Matched)
    BY <1>2, <2>2, <2>3, LookingMatched
  <2>5. WatchTypes' /\ CountInv'
    BY <1>1, <2>4 DEF WatchInv, WatchTypes, CountInv
  <2>6. SilentInv'
    BY <1>1, <1>2, <2>4 DEF WatchInv, SilentInv
  <2>7. OKWasTrue'
    BY <2>4 DEF WatchInv, OKWasTrue
  <2> QED BY <2>4, <2>5, <2>6, <2>7 DEF WatchInv
<1> QED BY <1>3, <1>4

LEMMA MonitorWatched == ASSUME LiveInv, WatchInv, MonitorStep PROVE WatchInv'
<1> USE DEF At
<1>0. UNCHANGED vars /\ WatchTypes /\ net \in Int /\ marker' = marker
  BY MonitorIsSilent DEF WatchInv, LiveInv, ValuesInv, vars
<1>1. CASE CheckStarts
  <2> DEFINE c == [NoCheck EXCEPT !.pc = "orders", !.alert = proc = "down"]
  <2>0. (proc = "down") \in BOOLEAN /\ "orders" \in CheckPcs /\ 0 \in Int
    BY DEF CheckPcs
  <2>a. c \in CheckRec
    BY <2>0, CheckTypes, Zenon
  <2>1. Looking(c) /\ log' = log /\ c.pc = "orders"
        /\ c \in CheckRec
    BY <1>1, <2>a DEF CheckStarts, NoCheck
  <2> HIDE DEF c
  <2>2. MatchInv' /\ WatchTypes' /\ check'.pc = "orders"
    BY <1>0, <2>1, LookingMatched DEF WatchTypes
  <2> QED BY <2>2 DEF WatchInv, CountInv, SilentInv, OKWasTrue
<1>2. CASE ReadsOrders
  <2> DEFINE c == [check EXCEPT !.pc = "position", !.alert = @ \/ OpenOrders]
  <2>1. Looking(c) /\ log' = log /\ c.pc = "position"
        /\ c \in CheckRec
    BY <1>0, <1>2 DEF ReadsOrders, WatchTypes, CheckPcs, OpenOrders, CheckRec
  <2> HIDE DEF c
  <2>2. MatchInv' /\ WatchTypes' /\ check'.pc = "position"
    BY <1>0, <2>1, LookingMatched DEF WatchTypes
  <2> QED BY <2>2 DEF WatchInv, CountInv, SilentInv, OKWasTrue
<1>3. CASE ReadsPosition
  <2> DEFINE c == [check EXCEPT !.pc = "marker", !.position = net]
  <2>1. Looking(c) /\ log' = log /\ c.pc = "marker" /\ c.position = net
        /\ c \in CheckRec
    BY <1>0, <1>3 DEF ReadsPosition, WatchTypes, CheckPcs, CheckRec
  <2> HIDE DEF c
  <2>2. /\ MatchInv' /\ WatchTypes' /\ check'.pc = "marker" /\ check'.alert = c.alert
        /\ ~c.alert => check'.position = net /\ check'.matched = (c.matched \/ Matched)
    BY <1>0, <2>1, LookingMatched DEF WatchTypes
  <2>3. SilentInv'
    BY <1>0, <2>2 DEF SilentInv, Matched
  <2> QED BY <2>2, <2>3 DEF WatchInv, CountInv, OKWasTrue
<1>4. CASE ReadsMarker
  <2> DEFINE c == [check EXCEPT !.pc = "log", !.position = 0, !.alert = @ \/ marker # check.position]
  <2>0. /\ (check.alert \/ marker # check.position) \in BOOLEAN
        /\ check \in CheckRec /\ 0 \in Int /\ "log" \in CheckPcs
    BY <1>0 DEF WatchTypes, CheckPcs
  <2>a. c \in CheckRec
    BY <2>0, CheckTypes, Zenon
  <2>1. /\ Looking(c) /\ log' = log /\ c.pc = "log" /\ c.matched = check.matched /\ c.rolled = check.rolled
        /\ c.alert = (check.alert \/ marker # check.position) /\ At("marker")
        /\ c \in CheckRec
    BY <1>0, <1>4, <2>a DEF ReadsMarker, WatchTypes, CheckRec
  <2> HIDE DEF c
  <2>2. /\ MatchInv' /\ WatchTypes' /\ check'.pc = "log" /\ check'.alert = c.alert
        /\ ~c.alert => /\ check'.rolled = c.rolled
                       /\ check'.matched = (c.matched \/ Matched)
    BY <1>0, <2>1, LookingMatched DEF WatchTypes
  <2>3. SilentInv'
    BY <2>1, <2>2 DEF SilentInv, WatchInv
  <2> QED BY <2>2, <2>3 DEF WatchInv, CountInv, OKWasTrue
<1>5. CASE ReadsLog
  <2> DEFINE c == [check EXCEPT !.pc = "write", !.alert = @ \/ log # {}]
  <2>1. /\ Looking(c) /\ log' = {"told" : e \in log} /\ c.pc = "write"
        /\ c.matched = check.matched /\ c.rolled = check.rolled /\ c.alert = (check.alert \/ log # {}) /\ At("log")
        /\ c \in CheckRec
    BY <1>0, <1>5 DEF ReadsLog, WatchTypes, CheckPcs, CheckRec
  <2> HIDE DEF c
  <2>2. /\ MatchInv' /\ check'.pc = "write"
        /\ check' \in CheckRec
        /\ check'.alert = c.alert
        /\ ~c.alert => check'.rolled = c.rolled /\ check'.matched = (c.matched \/ Matched)
    BY <1>0, <2>1, LookingMatched
  <2>3. WatchTypes' /\ CountInv'
    BY <1>0, <2>1, <2>2 DEF WatchTypes, CountInv
  <2>4. OKWasTrue'
    BY <2>1, <2>2 DEF OKWasTrue, WatchInv, SilentInv
  <2> QED BY <2>2, <2>3, <2>4 DEF WatchInv, SilentInv
<1>6. CASE Writes
  <2>1. /\ check' = NoCheck
        /\ log' = {IF e = "during" THEN "since" ELSE "before" : e \in Uncounted}
    BY <1>6 DEF Writes
  <2>2. \A e \in Uncounted : e = "during"
    BY <1>6 DEF Writes, Uncounted, WatchInv, CountInv
  <2>3. WatchTypes'
    BY <2>1, <2>2, CheckTypes DEF WatchTypes
  <2> QED BY <2>1, <2>3 DEF WatchInv, CountInv, MatchInv, SilentInv, OKWasTrue, NoCheck
<1>7. CASE CheckFails
  <2>1. check' = NoCheck /\ log' = {"since" : e \in log}
    BY <1>7 DEF CheckFails
  <2>2. WatchTypes'
    BY <2>1, CheckTypes DEF WatchTypes
  <2> QED BY <2>1, <2>2 DEF WatchInv, CountInv, MatchInv, SilentInv, OKWasTrue, NoCheck
<1> QED BY <1>1, <1>2, <1>3, <1>4, <1>5, <1>6, <1>7 DEF MonitorStep
-----------------------------------------------------------------------------
\* The inductive invariant of the monitor, beside a session in which anything fails.
THEOREM WatchInvariance == MonitorSpec => []WatchInv
<1>1. MonitorInit => WatchInv
  <2>1. MonitorInit => WatchTypes
    BY CheckTypes DEF MonitorInit, WatchTypes
  <2>2. MonitorInit => At("off") /\ ~At("write") /\ ~At("marker") /\ ~At("log")
    BY DEF MonitorInit, NoCheck, At
  <2> QED BY <2>1, <2>2 DEF WatchInv, CountInv, MatchInv, SilentInv, OKWasTrue
<1>2. LiveInv /\ WatchInv /\ [MonitorNext]_monitored => WatchInv'
  <2>1. ASSUME WatchInv, UNCHANGED monitored PROVE WatchInv'
    BY <2>1
    DEF monitored, vars, WatchInv, WatchTypes, CountInv, MatchInv, SilentInv, OKWasTrue, At, Matched
  <2> QED BY <2>1, SessionWatched, FallingWatched, MonitorWatched DEF MonitorNext
<1> QED BY <1>1, <1>2, OnlyWatches, Invariance, PTL DEF MonitorSpec

\* A report that says OK was true at some moment of its check, although the marker and the
\* position were read at different moments (live_monitor_status.py:127, 142), unless an event
\* of that check was rotated out before it was read (logging_config.py:56-61).
THEOREM OKIsTrue == MonitorSpec => []OKWasTrue
<1>1. WatchInv => OKWasTrue
  BY DEF WatchInv
<1> QED BY <1>1, WatchInvariance, PTL

\* No abnormal event that the file still holds falls between two reports
\* (live_monitor_status.py:162-164, 205), with the log rotated at any moment.
THEOREM NothingMissed == MonitorSpec => []NoEventMissed
<1>1. WatchInv => NoEventMissed
  BY DEF WatchInv, WatchTypes, NoEventMissed
<1> QED BY <1>1, WatchInvariance, PTL
=============================================================================
