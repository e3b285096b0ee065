----------------------------- MODULE PineParity ----------------------------
(***************************************************************************)
(* The bot's strategy and the Pine script side by side on the same market: *)
(* every closed candle is a bar of the script, price updates are not.  Two *)
(* history variables record what has fired.                                *)
(***************************************************************************)
EXTENDS PivotStrategy

CONSTANT LoseBars  \* a reconnecting kline stream may miss candles

ASSUME LoseAssumption == LoseBars \in BOOLEAN

VARIABLES
  bars, price, entry,  \* the script
  spent,               \* sides that fired on their present pivot
  firedInBar           \* sides that fired since the last closed candle

Pine == INSTANCE PineReference

parityVars == <<vars, bars, price, entry, spent, firedInBar>>

FiredNow == {s \in Sides : <<"fired", s>> \in emitted'}

\* Between two closed candles.
Update(r, chase, open) ==
  /\ LivePrice(r, chase, open)
  /\ spent' = spent \cup FiredNow
  /\ firedInBar' = firedInBar \cup FiredNow
  /\ UNCHANGED <<bars, price, entry>>

\* A closed candle that reaches the bot.
Close(c, chase, open) ==
  /\ ClosedKline(c, chase, open)
  /\ Pine!Bar(c)
  /\ spent' = {s \in spent \cup FiredNow : ~Pivot(s, candles')}
  /\ firedInBar' = {}

\* stream_closed_klines reconnects without asking for what it missed.
LostClose(c) ==
  /\ LoseBars
  /\ Pine!Bar(c)
  /\ emitted' = {}
  /\ UNCHANGED <<candles, level, armed, trigger, spent, firedInBar>>

ParityInit ==
  /\ Init
  /\ Pine!Init
  /\ spent = {}
  /\ firedInBar = {}

ParityNext ==
  \/ \E r \in Ranges, chase \in BOOLEAN, open \in Sides \cup {"NONE"} :
       Update(r, chase, open) \/ Close(r, chase, open)
  \/ \E c \in Ranges : LostClose(c)

ParitySpec == ParityInit /\ [][ParityNext]_parityVars
-----------------------------------------------------------------------------
\* docs/trading_rules.md:5 makes the script the strategy core: hprice and
\* lprice of the bot are those of the script, never from an early pivot.
LevelsArePine == level = price

\* le and se of the bot are those of the script, except that the bot also
\* clears a flag when its trigger fired on the present pivot (mark_triggered).
FlagsArePine ==
  \A s \in Sides : armed[s] <=> entry[s] /\ s \notin spent

\* A pending trigger stands exactly for the stop order the script has out, at
\* the script's price (_sync_pending_long, _sync_pending_short).
TriggersArePine ==
  \A s \in Sides : trigger[s].state = "active" => entry[s] /\ trigger[s].price = Pine!Stop(s)

\* A side whose stop order the script has out and that did not fire has its
\* trigger pending, unless the other side fired within this bar.
NoTriggerForgotten ==
  \A s \in Sides :
    entry[s] /\ s \notin spent /\ firedInBar = {} => trigger[s].state = "active"

\* One pivot starts at most one entry, however often prices come back to it.
OncePerPivot ==
  [][ \A s \in Sides : <<"fired", s>> \in emitted' => s \notin spent ]_parityVars

\* Between two closed candles at most one side fires (invalidate_opposite_trigger),
\* so a wide bar never starts a long and a short entry.
OneFirePerBar ==
  [][ \A s \in Sides : <<"fired", s>> \in emitted' => firedInBar = {} ]_parityVars
=============================================================================
