----------------------------- MODULE DrySession ----------------------------
(***************************************************************************)
(* run_public_market_dry_run (src/bot/main.py:395-767): one event loop     *)
(* with the session itself, the book-ticker feed (book_ticker_stream.py),  *)
(* and one entry chase at a time on a DryRunExchange that fills nothing.   *)
(*                                                                         *)
(* Time goes in units of chase_interval_seconds.  What is left of a wait   *)
(* counts down and an age counts up; a wait that is over is acted on       *)
(* within the unit.  Of a trigger only its firing is kept, of a book only  *)
(* its age: a crossed one is not published (models.py:103-104), and the    *)
(* maker prices of any other rest.                                         *)
(***************************************************************************)
EXTENDS Integers

CONSTANTS
  Modes,     \* the configurations explored, a subset of AllModes
  Runtime,   \* runtime_seconds
  Wait,      \* min(20, runtime_seconds)
  ChaseTime, \* entry_chase_seconds
  Stale      \* book_ticker_stale_seconds

\* ws: public_market_ws_only; bounded: exit_after_bounded_runtime; sized: the
\* order mode is not account_equity_pct.
AllModes == [ws : BOOLEAN, bounded : BOOLEAN, sized : BOOLEAN]

ASSUME DryAssumption ==
  /\ Modes \subseteq AllModes
  /\ Runtime \in Nat \ {0} /\ Wait \in Nat \ {0}
  /\ ChaseTime \in Nat \ {0} /\ Stale \in Nat \ {0}

VARIABLES
  mode,     \* the configuration of this run
  pc,       \* where the session is
  left,     \* what is left of its current wait
  feed,     \* book_task
  feedLeft, \* what is left of the feed's run
  book,     \* the age of book_stream.latest_snapshot
  chase,    \* entry_task and the order of its chase
  awaited,  \* what became of the entry task the session waits for
  end,      \* how the session ended
  interrupted  \* Ctrl-C was pressed

vars == <<mode, pc, left, feed, feedLeft, book, chase, awaited, end, interrupted>>
-----------------------------------------------------------------------------
NoBook == -1
NoChase == [pc |-> "idle", left |-> 0, sleep |-> 0, order |-> "none", age |-> 0]

Pcs == {"boot", "waiting", "observing", "entry", "feed", "closing", "exited"}
FeedAlive == {"connecting", "open"}
Feeds == FeedAlive \cup {"none", "broken", "closing", "ended"}

IsStale == book = NoBook \/ book > Stale

ActiveChase == chase.pc # "idle"
LiveOrder == chase.order = "live"

Session == <<mode, pc, left, end>>
Feed == <<feed, feedLeft, book>>
-----------------------------------------------------------------------------
(***************************************************************************)
(* The entry task.                                                         *)
(***************************************************************************)
\* The chase cancels its order and returns, or is cancelled and does the same;
\* the session may be waiting for it.
ChaseGivesUp ==
  /\ chase' = NoChase
  /\ awaited' = IF awaited = "running" THEN "done" ELSE awaited

ChaseRests(timeLeft) ==
  /\ chase' = [pc |-> "asleep", left |-> timeLeft, sleep |-> 1, order |-> "live",
               age |-> IF mode.ws THEN book ELSE 0]
  /\ UNCHANGED awaited

\* Mutant: the book is looked at for being there, not for being fresh.
ChaseQuotesAnyAge(timeLeft) ==
  IF mode.ws /\ book = NoBook THEN ChaseGivesUp ELSE ChaseRests(timeLeft)

\* One round of the chase: place, or amend, the order at the maker price of a
\* fresh book, and sleep.  Without the feed the exchange's own book is always
\* fresh.
ChaseQuotes(timeLeft) ==
  IF mode.ws /\ IsStale THEN ChaseGivesUp ELSE ChaseRests(timeLeft)

ChaseStarts ==
  /\ chase.pc = "new"
  /\ IF mode.sized THEN ChaseQuotes(ChaseTime) ELSE ChaseGivesUp
  /\ UNCHANGED <<Session, Feed>>

\* Mutant: the time of the chase is not looked at.
ChaseWakesAnyTime ==
  /\ chase.pc = "asleep" /\ chase.sleep = 0
  /\ ChaseQuotes(chase.left)
  /\ UNCHANGED <<Session, Feed>>

ChaseWakes ==
  /\ chase.pc = "asleep" /\ chase.sleep = 0
  /\ IF chase.left = 0 THEN ChaseGivesUp ELSE ChaseQuotes(chase.left)
  /\ UNCHANGED <<Session, Feed>>

\* handle_strategy_events: a trigger beside an active chase is dropped.
MayTrigger ==
  \/ UNCHANGED chase
  \/ ~ActiveChase /\ chase' = [NoChase EXCEPT !.pc = "new"]
-----------------------------------------------------------------------------
(***************************************************************************)
(* The feed's task.                                                        *)
(***************************************************************************)
FeedConnects ==
  /\ feed = "connecting"
  /\ feed' = IF feedLeft = 0 THEN "ended" ELSE "open"
  /\ UNCHANGED <<Session, feedLeft, book, chase, awaited>>

\* A lost connection, or an error of the socket: the feed connects again.
FeedDrops ==
  /\ feed = "open"
  /\ feed' = "connecting"
  /\ UNCHANGED <<Session, feedLeft, book, chase, awaited>>

\* Any other error ends the task: a refused handshake, an error in the callback.
FeedBreaks ==
  /\ feed \in FeedAlive
  /\ feed' = "broken"
  /\ UNCHANGED <<Session, feedLeft, book, chase, awaited>>

FeedTimeOver ==
  /\ feed = "open" /\ feedLeft = 0
  /\ feed' = "ended"
  /\ UNCHANGED <<Session, feedLeft, book, chase, awaited>>

\* _publish keeps the snapshot and calls update_bookticker_runtime.
BookArrives ==
  /\ feed = "open"
  /\ book' = 0
  /\ MayTrigger
  /\ UNCHANGED <<Session, feed, feedLeft, awaited>>

\* The close of a cancelled feed's connection is over.
FeedClosed ==
  /\ feed = "closing"
  /\ feed' = "ended"
  /\ UNCHANGED <<Session, feedLeft, book, chase, awaited>>
-----------------------------------------------------------------------------
(***************************************************************************)
(* The session.                                                            *)
(***************************************************************************)
\* The coroutine is over, and asyncio.run cancels what is left: a chase cancels
\* its order.
Exit(how) ==
  /\ pc' = "exited"
  /\ end' = how
  /\ chase' = NoChase
  /\ feed' = IF feed \in FeedAlive \cup {"closing"} THEN "ended" ELSE feed
  /\ UNCHANGED <<mode, left, feedLeft, book, awaited>>

\* cancel_active_simulated_orders, then client.close().  The chase and the
\* exchange share the order: the chase sees that it is over.
Cleanup ==
  /\ pc' = "closing"
  /\ chase' = IF LiveOrder THEN [chase EXCEPT !.order = "canceled"] ELSE chase
  /\ UNCHANGED <<mode, left, feed, feedLeft, book, awaited, end>>

\* Mutant: what the feed died of is swallowed like its cancellation.
StopFeedSwallowing ==
  \/ feed \in {"none", "ended", "broken"} /\ Cleanup
  \/ /\ feed \in FeedAlive
     /\ feed' = "closing" /\ pc' = "feed"
     /\ UNCHANGED <<mode, left, feedLeft, book, chase, awaited, end>>

\* The feed is cancelled and waited for; what it died of is raised here.
StopFeed ==
  \/ feed \in {"none", "ended"} /\ Cleanup
  \/ feed = "broken" /\ Exit("escaped")
  \/ /\ feed \in FeedAlive
     /\ feed' = "closing" /\ pc' = "feed"
     /\ UNCHANGED <<mode, left, feedLeft, book, chase, awaited, end>>

\* The start of the finally block: a running entry task is waited for.
LeaveTry ==
  \/ /\ ActiveChase
     /\ pc' = "entry" /\ awaited' = "running"
     /\ UNCHANGED <<mode, left, Feed, chase, end>>
  \/ ~ActiveChase /\ StopFeed

Observe == pc' = "observing" /\ left' = Runtime

\* The filters come from exchangeInfo or from the cache.
Boots ==
  /\ pc = "boot"
  /\ IF mode.ws
     THEN /\ pc' = "waiting" /\ left' = Wait
          /\ feed' = "connecting" /\ feedLeft' = Runtime
     ELSE Observe /\ UNCHANGED <<feed, feedLeft>>
  /\ UNCHANGED <<mode, book, chase, awaited, end>>

\* Neither is there, which is raised.
BootFails == pc = "boot" /\ LeaveTry

\* wait_for_first returns or gives up; either way the session goes on.
FirstBook ==
  /\ pc = "waiting"
  /\ book # NoBook \/ left = 0
  /\ Observe
  /\ UNCHANGED <<mode, Feed, chase, awaited, end>>

KlineTriggers ==
  /\ pc = "observing" /\ mode.bounded
  /\ MayTrigger /\ chase' # chase
  /\ UNCHANGED <<Session, Feed, awaited>>

\* The time is over, or an error no branch handles.
ObservingEnds == pc = "observing" /\ left = 0 /\ LeaveTry
KlinesFail == pc = "observing" /\ left > 0 /\ LeaveTry

EntryAwaited == pc = "entry" /\ awaited = "done" /\ StopFeed

FeedAwaited == pc = "feed" /\ feed = "ended" /\ Cleanup

\* The summary says "completed", whatever led here.
SummaryWritten == pc = "closing" /\ Exit("summary")

\* Ctrl-C cancels the session at its await: the try block is left, the task it
\* waits for is cancelled with it, and the close of the client is cut off.
Interrupted ==
  /\ ~interrupted /\ interrupted' = TRUE
  /\ \/ pc \in {"boot", "waiting", "observing"} /\ LeaveTry
     \/ pc = "entry" /\ awaited = "running" /\ ChaseGivesUp /\ UNCHANGED <<Session, Feed>>
     \/ pc = "entry" /\ awaited # "running" /\ StopFeed
     \/ FeedClosed /\ pc = "feed"
     \/ FeedAwaited
     \/ pc = "closing" /\ Exit("cut")
-----------------------------------------------------------------------------
(***************************************************************************)
(* Time.                                                                   *)
(***************************************************************************)
Due ==
  \/ chase.pc = "asleep" /\ chase.sleep = 0
  \/ pc \in {"waiting", "observing"} /\ left = 0
  \/ feed = "open" /\ feedLeft = 0

\* Mutant: max(0.0, ...) is forgotten.
DownPastZero(n) == n - 1

Down(n) == IF n > 0 THEN n - 1 ELSE 0

\* Ages stop counting where they no longer matter.
Older(age) == IF age > Stale + 1 THEN age ELSE age + 1

ClockTicks ==
  /\ pc # "exited" /\ ~Due
  /\ left' = IF pc \in {"waiting", "observing"} THEN Down(left) ELSE left
  /\ feedLeft' = IF feed \in FeedAlive THEN Down(feedLeft) ELSE feedLeft
  /\ book' = IF book = NoBook THEN book ELSE Older(book)
  /\ chase' = IF chase.pc = "asleep"
              THEN [chase EXCEPT !.left = Down(@), !.sleep = Down(@), !.age = Older(@)]
              ELSE chase
  /\ UNCHANGED <<mode, pc, feed, awaited, end>>

Init ==
  /\ mode \in Modes
  /\ pc = "boot" /\ left = 0
  /\ feed = "none" /\ feedLeft = 0
  /\ book = NoBook
  /\ chase = NoChase
  /\ awaited = "none" /\ end = "running"
  /\ interrupted = FALSE

ChaseStep == ChaseStarts \/ ChaseWakes

FeedStep ==
  \/ FeedConnects \/ FeedDrops \/ FeedBreaks \/ FeedTimeOver \/ FeedClosed
  \/ BookArrives

SessionStep ==
  \/ Boots \/ BootFails \/ FirstBook \/ KlineTriggers \/ ObservingEnds \/ KlinesFail
  \/ EntryAwaited \/ FeedAwaited \/ SummaryWritten

Uninterrupted(step) == step /\ UNCHANGED interrupted

Finished == pc = "exited" /\ UNCHANGED vars

Next ==
  \/ Uninterrupted(ChaseStep \/ FeedStep \/ SessionStep \/ ClockTicks)
  \/ Interrupted
  \/ Finished

Spec == Init /\ [][Next]_vars

(***************************************************************************)
(* The clock goes on; the event loop runs a task whose timer or await is   *)
(* over; a connection attempt and a close are bounded by websockets        *)
(* (open_timeout, close_timeout) and a request by httpx (timeout=10).      *)
(* Nothing is assumed of what the feeds carry or of when they drop.        *)
(***************************************************************************)
SessionGoesOn ==
  \/ Boots \/ BootFails \/ FirstBook \/ ObservingEnds
  \/ EntryAwaited \/ FeedAwaited \/ SummaryWritten

Fairness ==
  /\ WF_vars(Uninterrupted(ClockTicks))
  /\ WF_vars(Uninterrupted(ChaseStep))
  /\ WF_vars(Uninterrupted(FeedTimeOver \/ FeedClosed))
  /\ WF_vars(Uninterrupted(SessionGoesOn))

FairSpec == Spec /\ Fairness
-----------------------------------------------------------------------------
(***************************************************************************)
(* Properties.                                                             *)
(***************************************************************************)
\* The values the state may have.
TypeOK ==
  /\ mode \in Modes
  /\ pc \in Pcs
  /\ left \in Nat /\ feedLeft \in Nat
  /\ feed \in Feeds
  /\ book \in Nat \cup {NoBook}
  /\ chase \in [pc : {"idle", "new", "asleep"}, left : Nat, sleep : Nat,
                order : {"none", "live", "canceled"}, age : Int]
  /\ awaited \in {"none", "running", "done"}
  /\ end \in {"running", "summary", "escaped", "cut"}
  /\ interrupted \in BOOLEAN

\* A chase never rests at a price older than a stale book and one sleep
\* (book_ticker_provider.py:69-75): whatever happens to the feed meanwhile, it
\* is amended or cancelled.
RestingPriceRecent == mode.ws /\ LiveOrder => chase.age <= Stale + 1

\* A session that ends by itself wrote its summary, and says "completed" in it,
\* exactly when its feed did not die: whatever the feed died of, long before or
\* while a chase was waited for, comes out at the end (main.py:645-669).
CleanExit ==
  pc = "exited" =>
    /\ end = "summary" => feed # "broken"
    /\ end # "summary" => feed = "broken" \/ interrupted

\* Every bounded session ends, whatever the feeds do, with a chase at work or
\* without.
SessionEnds == <>(pc = "exited")
=============================================================================
