-------------------------- MODULE DrySessionProofs --------------------------
(***************************************************************************)
(* Safety of the dry run, for every runtime, chase time and staleness.     *)
(* The core of the argument: what the feed's task does follows where the   *)
(* session is, so a feed that died is met before the summary               *)
(* (FeedFollowsSession, EndExplained), and a chase goes to sleep only at a *)
(* fresh price and for one unit (PriceRecent).                             *)
(***************************************************************************)
EXTENDS DrySession, TLAPS

\* Where the session is tells what the feed's task does.
FeedFollowsSession ==
  /\ pc = "boot" => feed = "none"
  /\ pc = "feed" => feed \in {"closing", "ended"}
  /\ feed = "closing" => pc = "feed"
  /\ pc = "closing" => feed \in {"none", "ended"}

\* How a session ended tells what became of the feed.
EndExplained ==
  /\ pc = "exited" <=> end # "running"
  /\ end = "summary" => feed \in {"none", "ended"}
  /\ end = "escaped" => feed = "broken"
  /\ end = "cut" => interrupted

IInv == TypeOK /\ FeedFollowsSession /\ EndExplained

LEMMA ModeFields ==
  ASSUME TypeOK
  PROVE  mode.ws \in BOOLEAN /\ mode.bounded \in BOOLEAN /\ mode.sized \in BOOLEAN
BY DryAssumption DEF TypeOK, AllModes

LEMMA InitIInv == Init => IInv
<1> SUFFICES ASSUME Init PROVE IInv OBVIOUS
<1>1. TypeOK
  <2>1. chase \in [pc : {"idle", "new", "asleep"}, left : Nat, sleep : Nat,
                  order : {"none", "live", "canceled"}, age : Int]
    BY DEF Init, NoChase
  <2>2. QED BY <2>1 DEF Init, TypeOK, Pcs, Feeds, FeedAlive
<1>2. QED
  BY <1>1 DEF Init, IInv, FeedFollowsSession, EndExplained,
              NoBook, NoChase, LiveOrder

USE DEF NoBook, NoChase

LEMMA QuotesKeep ==
  ASSUME IInv, NEW n \in Nat, ChaseQuotes(n) \/ ChaseGivesUp, UNCHANGED <<Session, Feed, interrupted>>
  PROVE  IInv'
<1> USE DEF Session, Feed, Feeds, FeedAlive
<1>1. CASE ChaseGivesUp
  BY <1>1, ModeFields DEF ChaseGivesUp, IInv, TypeOK, FeedFollowsSession, EndExplained
<1>2. CASE ChaseRests(n)
  <2>1. (IF mode.ws THEN book ELSE 0) \in Int BY DEF IInv, TypeOK
  <2>2. chase' \in [pc : {"idle", "new", "asleep"}, left : Nat, sleep : Nat,
                    order : {"none", "live", "canceled"}, age : Int]
    BY <1>2, <2>1 DEF ChaseRests
  <2>3. QED BY <1>2, <2>2 DEF ChaseRests, IInv, TypeOK, FeedFollowsSession, EndExplained
<1>3. QED BY <1>1, <1>2 DEF ChaseQuotes

LEMMA ChaseKeeps ==
  ASSUME IInv, ChaseStep, UNCHANGED interrupted
  PROVE  IInv'
<1>1. ChaseTime \in Nat BY DryAssumption
<1>2. chase.left \in Nat BY DEF IInv, TypeOK
<1>3. CASE ChaseStarts BY <1>1, <1>3, QuotesKeep DEF ChaseStarts, Session, Feed
<1>4. CASE ChaseWakes BY <1>2, <1>4, QuotesKeep DEF ChaseWakes, Session, Feed
<1>5. QED BY <1>3, <1>4 DEF ChaseStep

LEMMA FeedKeeps ==
  ASSUME IInv, FeedStep, UNCHANGED interrupted
  PROVE  IInv'
<1> USE ModeFields DEF Session, Feeds, FeedAlive, IInv, TypeOK,    FeedFollowsSession, EndExplained, LiveOrder
<1>1. CASE FeedConnects BY <1>1 DEF FeedConnects
<1>2. CASE FeedDrops BY <1>2 DEF FeedDrops
<1>3. CASE FeedBreaks BY <1>3 DEF FeedBreaks
<1>4. CASE FeedTimeOver BY <1>4 DEF FeedTimeOver
<1>5. CASE FeedClosed BY <1>5 DEF FeedClosed
<1>6. CASE BookArrives BY <1>6 DEF BookArrives, MayTrigger, ActiveChase
<1>7. QED BY <1>1, <1>2, <1>3, <1>4, <1>5, <1>6 DEF FeedStep

\* The ways out of the try block and of the finally block.
LEMMA ExitKeeps ==
  ASSUME IInv, NEW how \in {"summary", "escaped", "cut"}, Exit(how),
         pc # "exited",
         how = "summary" => feed \in {"none", "ended"},
         how = "escaped" => feed = "broken",
         how = "cut" => interrupted',
         interrupted' \in BOOLEAN
  PROVE  IInv'
BY ModeFields DEF Exit, Pcs, Feeds, FeedAlive, IInv, TypeOK, 
   FeedFollowsSession, EndExplained, LiveOrder

LEMMA CleanupKeeps ==
  ASSUME IInv, Cleanup, pc # "exited", feed \in {"none", "ended"}, interrupted' \in BOOLEAN
  PROVE  IInv'
BY ModeFields DEF Cleanup, Pcs, Feeds, FeedAlive, IInv, TypeOK, 
   FeedFollowsSession, EndExplained, LiveOrder

LEMMA StopFeedKeeps ==
  ASSUME IInv, StopFeed, pc # "exited", interrupted' \in BOOLEAN
  PROVE  IInv'
<1>1. CASE feed \in {"none", "ended"} /\ Cleanup BY <1>1, CleanupKeeps
<1>2. CASE feed = "broken" /\ Exit("escaped") BY <1>2, ExitKeeps
<1>3. CASE feed \in FeedAlive /\ ~Cleanup /\ feed' = "closing"
  BY <1>3, ModeFields DEF StopFeed, Exit, Pcs, Feeds, FeedAlive, IInv, TypeOK, FeedFollowsSession, EndExplained, LiveOrder
<1>4. QED BY <1>1, <1>2, <1>3 DEF StopFeed, Cleanup, FeedAlive

LEMMA LeaveTryKeeps ==
  ASSUME IInv, LeaveTry, pc # "exited", feed # "closing", interrupted' \in BOOLEAN
  PROVE  IInv'
<1>1. CASE ~ActiveChase /\ StopFeed BY <1>1, StopFeedKeeps
<1>2. CASE ActiveChase
  BY <1>2, ModeFields DEF LeaveTry, Feed, Pcs, Feeds, FeedAlive, IInv, TypeOK, FeedFollowsSession, EndExplained, LiveOrder
<1>3. QED BY <1>1, <1>2 DEF LeaveTry

LEMMA SessionKeeps ==
  ASSUME IInv, SessionStep, UNCHANGED interrupted
  PROVE  IInv'
<1>0. interrupted' \in BOOLEAN BY DEF IInv, TypeOK
<1>1. ASSUME pc # "feed" PROVE feed # "closing" BY <1>1 DEF IInv, FeedFollowsSession
<1>2. CASE Boots
  BY <1>2, DryAssumption, ModeFields DEF Boots, Observe, Pcs, Feeds, FeedAlive, IInv, TypeOK,
     FeedFollowsSession, EndExplained, LiveOrder
<1>3. CASE BootFails BY <1>0, <1>1, <1>3, LeaveTryKeeps DEF BootFails
<1>4. CASE FirstBook
  BY <1>4, DryAssumption, ModeFields DEF FirstBook, Observe, Feed, Pcs, Feeds, FeedAlive, IInv,
     TypeOK, FeedFollowsSession, EndExplained, LiveOrder
<1>5. CASE KlineTriggers
  BY <1>5, ModeFields DEF KlineTriggers, MayTrigger, ActiveChase, Session, Feed, IInv, TypeOK,
     FeedFollowsSession, EndExplained, LiveOrder
<1>6. CASE ObservingEnds BY <1>0, <1>1, <1>6, LeaveTryKeeps DEF ObservingEnds
<1>7. CASE KlinesFail BY <1>0, <1>1, <1>7, LeaveTryKeeps DEF KlinesFail
<1>8. CASE EntryAwaited BY <1>0, <1>8, StopFeedKeeps DEF EntryAwaited
<1>9. CASE FeedAwaited BY <1>0, <1>9, CleanupKeeps DEF FeedAwaited
<1>10. CASE SummaryWritten
  <2>1. feed \in {"none", "ended"} BY <1>10 DEF SummaryWritten, IInv, FeedFollowsSession
  <2>2. QED BY <1>0, <1>10, <2>1, ExitKeeps DEF SummaryWritten
<1>11. QED
  BY <1>2, <1>3, <1>4, <1>5, <1>6, <1>7, <1>8, <1>9, <1>10 DEF SessionStep

LEMMA ClockKeeps ==
  ASSUME IInv, ClockTicks, UNCHANGED interrupted
  PROVE  IInv'
<1>1. left' \in Nat /\ feedLeft' \in Nat BY DEF ClockTicks, Down, IInv, TypeOK
<1>2. chase' \in [pc : {"idle", "new", "asleep"}, left : Nat, sleep : Nat,
                 order : {"none", "live", "canceled"}, age : Int]
      /\ chase'.order = chase.order
  <2>1. CASE chase.pc = "asleep"
    <3>1. Down(chase.left) \in Nat /\ Down(chase.sleep) \in Nat BY DEF Down, IInv, TypeOK
    <3>2. Older(chase.age) \in Int BY DryAssumption DEF Older, IInv, TypeOK
    <3>3. QED BY <2>1, <3>1, <3>2 DEF ClockTicks, IInv, TypeOK
  <2>2. CASE chase.pc # "asleep" BY <2>2 DEF ClockTicks, IInv, TypeOK
  <2>3. QED BY <2>1, <2>2
<1>3. book' \in Nat \cup {NoBook}
  BY DryAssumption DEF ClockTicks, Older, IInv, TypeOK
<1>4. QED
  BY <1>1, <1>2, <1>3 DEF ClockTicks, IInv, TypeOK, FeedFollowsSession, EndExplained

LEMMA InterruptKeeps ==
  ASSUME IInv, Interrupted
  PROVE  IInv'
<1>1. interrupted' \in BOOLEAN /\ interrupted' BY DEF Interrupted
<1>2. CASE pc \in {"boot", "waiting", "observing"} /\ LeaveTry
  <2>1. feed # "closing" BY <1>2 DEF IInv, FeedFollowsSession
  <2>2. QED BY <1>1, <1>2, <2>1, LeaveTryKeeps
<1>3. CASE pc = "entry" /\ awaited = "running" /\ ChaseGivesUp /\ UNCHANGED <<Session, Feed>>
  BY <1>1, <1>3, ModeFields DEF ChaseGivesUp, Session, Feed, Feeds, IInv, TypeOK,
     FeedFollowsSession, EndExplained, LiveOrder
<1>4. CASE pc = "entry" /\ awaited # "running" /\ StopFeed BY <1>1, <1>4, StopFeedKeeps
<1>5. CASE FeedClosed /\ pc = "feed"
  BY <1>1, <1>5, ModeFields DEF FeedClosed, Session, Feeds, FeedAlive, IInv, TypeOK,
     FeedFollowsSession, EndExplained, LiveOrder
<1>6. CASE FeedAwaited BY <1>1, <1>6, CleanupKeeps DEF FeedAwaited
<1>7. CASE pc = "closing" /\ Exit("cut") BY <1>1, <1>7, ExitKeeps
<1>8. QED BY <1>2, <1>3, <1>4, <1>5, <1>6, <1>7 DEF Interrupted

LEMMA StepIInv == IInv /\ [Next]_vars => IInv'
<1> SUFFICES ASSUME IInv, [Next]_vars PROVE IInv' OBVIOUS
<1>1. CASE Uninterrupted(ChaseStep \/ FeedStep \/ SessionStep \/ ClockTicks)
  BY <1>1, ChaseKeeps, FeedKeeps, SessionKeeps, ClockKeeps DEF Uninterrupted
<1>2. CASE Interrupted BY <1>2, InterruptKeeps
<1>3. CASE UNCHANGED vars
  BY <1>3 DEF vars, IInv, TypeOK, FeedFollowsSession, EndExplained,
     LiveOrder
<1>4. QED BY <1>1, <1>2, <1>3 DEF Next, Finished

\* The invariant of the dry run, its feed and its chase holds for every duration,
\* staleness limit and interrupt.
THEOREM IInvAlways == Spec => []IInv
BY InitIInv, StepIInv, PTL DEF Spec

\* The state keeps its shape (all of run_public_market_dry_run).
THEOREM TypeCorrect == Spec => []TypeOK
<1>1. IInv => TypeOK BY DEF IInv
<1>2. QED BY <1>1, IInvAlways, PTL

\* A session that is not interrupted writes its summary exactly when its feed did
\* not die (main.py:645-677): no error of the feed is swallowed, and none
\* but the feed's keeps the summary from being written.
THEOREM ExitsCleanly == Spec => []CleanExit
<1>1. IInv => CleanExit
  BY DEF IInv, TypeOK, EndExplained, CleanExit
<1>2. QED BY <1>1, IInvAlways, PTL

-----------------------------------------------------------------------------
\* The age of a resting price when its chase wakes next.
PriceRecent ==
  LiveOrder => /\ chase.pc = "asleep" /\ chase.sleep \in {0, 1}
               /\ mode.ws => chase.age + chase.sleep <= Stale + 1

LEMMA QuotesRecent ==
  ASSUME IInv, NEW n \in Nat, ChaseQuotes(n) \/ ChaseGivesUp, mode' = mode
  PROVE  PriceRecent'
<1>1. CASE chase' = NoChase BY <1>1 DEF PriceRecent, LiveOrder
<1>2. CASE chase' # NoChase
  <2>1. /\ ~(mode.ws /\ IsStale)
        /\ chase' = [pc |-> "asleep", left |-> n, sleep |-> 1, order |-> "live",
                     age |-> IF mode.ws THEN book ELSE 0]
    BY <1>2 DEF ChaseQuotes, ChaseRests, ChaseGivesUp
  <2>2. mode.ws => book \in Int /\ book <= Stale
    BY <2>1, DryAssumption DEF IsStale, IInv, TypeOK
  <2>3. QED BY <2>1, <2>2, DryAssumption DEF PriceRecent, LiveOrder
<1>3. QED BY <1>1, <1>2

LEMMA ClockRecent ==
  ASSUME IInv, PriceRecent, ClockTicks
  PROVE  PriceRecent'
<1> SUFFICES ASSUME LiveOrder' PROVE PriceRecent' BY DEF PriceRecent
<1>1. LiveOrder /\ chase.pc = "asleep" BY DEF ClockTicks, LiveOrder, PriceRecent
<1>2. chase.sleep = 1 BY <1>1 DEF PriceRecent, ClockTicks, Due
<1>3. chase.age \in Int BY DEF IInv, TypeOK
<1>4. chase' = [chase EXCEPT !.left = Down(@), !.sleep = Down(@), !.age = Older(@)] /\ mode' = mode
  BY <1>1 DEF ClockTicks
<1>5. chase'.pc = "asleep" /\ chase'.sleep = 0 /\ chase'.age = Older(chase.age)
  BY <1>1, <1>2, <1>4 DEF Down, IInv, TypeOK
<1>6. mode.ws => chase.age + 1 <= Stale + 1 BY <1>1, <1>2 DEF PriceRecent
<1>7. QED BY <1>3, <1>4, <1>5, <1>6, DryAssumption DEF PriceRecent, Older

LEMMA StepRecent == IInv /\ PriceRecent /\ [Next]_vars => PriceRecent'
<1> SUFFICES ASSUME IInv, PriceRecent, [Next]_vars PROVE PriceRecent' OBVIOUS
<1>1. ASSUME UNCHANGED <<mode, chase>> PROVE PriceRecent' BY <1>1 DEF PriceRecent, LiveOrder
<1>2. ASSUME mode' = mode, chase'.order # "live" PROVE PriceRecent' BY <1>2 DEF PriceRecent, LiveOrder
<1>3. CASE ChaseStep
  <2>1. ChaseTime \in Nat /\ chase.left \in Nat BY DryAssumption DEF IInv, TypeOK
  <2>2. QED BY <1>3, <2>1, QuotesRecent DEF ChaseStep, ChaseStarts, ChaseWakes, Session
<1>4. ASSUME MayTrigger, mode' = mode PROVE PriceRecent' BY <1>1, <1>2, <1>4 DEF MayTrigger
<1>5. CASE FeedStep
  BY <1>1, <1>4, <1>5 DEF FeedStep, FeedConnects, FeedDrops, FeedBreaks, FeedTimeOver, FeedClosed,
     BookArrives, Session
<1>6. ASSUME NEW how, Exit(how) PROVE PriceRecent' BY <1>2, <1>6 DEF Exit
<1>7. CASE Cleanup
  <2>1. CASE LiveOrder
    BY <1>2, <1>7, <2>1 DEF Cleanup, IInv, TypeOK
  <2>2. CASE ~LiveOrder BY <1>1, <1>7, <2>2 DEF Cleanup
  <2>3. QED BY <2>1, <2>2
<1>8. CASE StopFeed BY <1>1, <1>6, <1>7, <1>8 DEF StopFeed
<1>9. CASE LeaveTry BY <1>1, <1>8, <1>9 DEF LeaveTry
<1>10. CASE SessionStep
  BY <1>1, <1>4, <1>6, <1>7, <1>8, <1>9, <1>10 DEF SessionStep, Boots, BootFails, FirstBook, Observe,
     KlineTriggers, ObservingEnds, KlinesFail, EntryAwaited, FeedAwaited, SummaryWritten, Session
<1>11. CASE Interrupted
  BY <1>1, <1>2, <1>6, <1>7, <1>8, <1>9, <1>11 DEF Interrupted, ChaseGivesUp, FeedClosed,
     FeedAwaited, Session
<1>12. CASE UNCHANGED vars BY <1>1, <1>12 DEF vars
<1>13. QED
  BY <1>3, <1>5, <1>10, <1>11, <1>12, ClockRecent DEF Next, Finished, Uninterrupted

\* Whatever becomes of the feed, no chase of the dry run rests at a price older
\* than a stale book and one sleep (book_ticker_provider.py:69-75).
THEOREM RestingPricesAreRecent == Spec => []RestingPriceRecent
<1>1. Init => PriceRecent BY DEF Init, PriceRecent, LiveOrder
<1>2. IInv /\ PriceRecent => RestingPriceRecent
  BY DryAssumption DEF IInv, TypeOK, PriceRecent, RestingPriceRecent
<1>3. Spec => [](IInv /\ PriceRecent)
  BY <1>1, InitIInv, StepIInv, StepRecent, PTL DEF Spec
<1>4. QED BY <1>2, <1>3, PTL
=============================================================================
