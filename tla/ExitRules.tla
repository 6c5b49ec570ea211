----------------------------- MODULE ExitRules -----------------------------
(***************************************************************************)
(* JangDongMinStrategy's judgement of one holding (strategy/               *)
(* jang_dong_min.py), with the parameters TradingController picks for the  *)
(* time of day (_get_exit_context).  Pure definitions: a holding p, the    *)
(* time, and what the candles show give the rule that sells it.            *)
(*                                                                         *)
(* Prices are won, percentages basis points, times minutes since the first *)
(* midnight.  What a rule computes from the candles is a set of facts:     *)
(* "above" and "below" the 20-bar EMA, "climax" and "distribution" volume. *)
(* The exemption of strong trends from the time cut does not appear: it    *)
(* asks for a vel_ratio that Position does not have.                       *)
(***************************************************************************)
EXTENDS Integers

CONSTANT Cfg    \* SmartScannerConfig: the fields of the type below

PerSlot == [{"opening", "morning", "midday", "afternoon", "late"} -> Int]

ASSUME CfgAssumption ==
    /\ Cfg.stopLoss \in PerSlot /\ Cfg.activation \in PerSlot
    /\ Cfg.trail1 \in PerSlot /\ Cfg.trail2 \in PerSlot
    /\ Cfg.timeCut \in PerSlot
    /\ \A f \in {"trail3", "trail1Max", "trail2Max", "hardStop", "openingHardStop",
                 "earlyRelax", "earlyHold", "takeProfit", "minHold", "trendDecayMin",
                 "breakeven", "partialProfit", "climaxMin"} : Cfg[f] \in Int
    /\ \A k \in 1..3 : Cfg.gapStop[k] \in Int /\ Cfg.gapProfit[k] \in Int

Day(now)    == now \div 1440
Minute(now) == now % 1440

\* _get_exit_context.
Slot(m) ==
    CASE m \in 540..569 -> "opening"
      [] m \in 660..779 -> "midday"
      [] m \in 780..869 -> "afternoon"
      [] m >= 870       -> "late"
      [] OTHER          -> "morning"

\* price_change_pct_vs_avg compared with a percentage.
AtMost(p, pct)  == (p.cur - p.avg) * 10000 <= pct * p.avg
AtLeast(p, pct) == (p.cur - p.avg) * 10000 >= pct * p.avg
Losing(p)       == p.cur < p.avg

Held(p, now, minutes) == p.at = 0 \/ now - p.at >= minutes

----------------------------------------------------------------------------
(* Stops and targets *)

\* _get_gap_dynamic_sl_tp: the tier of an opening gap, 0 without one.
GapTier(p) ==
    IF p.at = 0 \/ Minute(p.at) \notin 540..599 \/ p.gap < 200 THEN 0
    ELSE IF p.gap < 500 THEN 1
    ELSE IF p.gap < 1000 THEN 2 ELSE 3

Relax(p, now) == IF Held(p, now, Cfg.earlyHold) THEN 0 ELSE Cfg.earlyRelax

Lower(a, b)  == IF a <= b THEN a ELSE b
Higher(a, b) == IF a >= b THEN a ELSE b

BoughtAtOpening(p) == p.at # 0 /\ Minute(p.at) \in 540..569

HardStop(p, now) ==
    LET base ==
          IF GapTier(p) > 0 THEN Lower(Cfg.hardStop, (Cfg.gapStop[GapTier(p)] * 3) \div 2)
          ELSE IF BoughtAtOpening(p) THEN Higher(Cfg.hardStop, Cfg.openingHardStop)
          ELSE Cfg.hardStop
    IN base - Relax(p, now)

StopLoss(p, now) ==
    (IF GapTier(p) > 0 THEN Cfg.gapStop[GapTier(p)]
                       ELSE Cfg.stopLoss[Slot(Minute(now))]) - Relax(p, now)

TakeProfit(p) == IF GapTier(p) > 0 THEN Cfg.gapProfit[GapTier(p)] ELSE Cfg.takeProfit

----------------------------------------------------------------------------
(* The trailing stop *)

PeakAtLeast(p, pct) == (p.peak - p.avg) * 10000 >= pct * p.avg

TrailWidth(p, slot) ==
    CASE PeakAtLeast(p, Cfg.trail2Max) -> Cfg.trail3
      [] ~PeakAtLeast(p, Cfg.trail2Max) /\ ~PeakAtLeast(p, Cfg.trail1Max)
           /\ p.trend < 3 /\ ~p.partial -> Cfg.trail1[slot]
      [] OTHER -> Cfg.trail2[slot]

\* get_trail_price, 0 while the stop is not active.
get_trail_price(p, slot) ==
    IF p.peak <= 0 \/ ~PeakAtLeast(p, Cfg.activation[slot]) THEN 0
    ELSE (p.peak * (10000 - TrailWidth(p, slot))) \div 10000

\* update_state: the exit loop raises the peak only above the activation price.
update_state(p, now) ==
    IF p.cur > p.peak /\ AtLeast(p, Cfg.activation[Slot(Minute(now))])
    THEN [p EXCEPT !.peak = p.cur] ELSE p

----------------------------------------------------------------------------
(* should_exit *)

BeforeGap(p) == p.eod /\ ~p.held

\* A rule of should_exit; "support" is the EMA protection, which keeps the
\* holding and ends the evaluation.
Fires(rule, p, now, facts) ==
    LET trail  == get_trail_price(p, Slot(Minute(now)))
        sunken == ~BeforeGap(p) /\ AtMost(p, StopLoss(p, now))
    IN
    \/ rule = "hard stop"    /\ AtMost(p, HardStop(p, now))
    \/ rule = "trail"        /\ trail > 0 /\ p.cur <= trail
    \/ rule = "take profit"  /\ trail <= 0 /\ AtLeast(p, TakeProfit(p))
    \/ rule = "support"      /\ sunken /\ "above" \in facts
    \/ rule = "stop loss"    /\ sunken /\ "above" \notin facts
    \/ rule = "time cut"     /\ ~p.eod /\ p.at # 0
                             /\ now - p.at >= Cfg.timeCut[Slot(Minute(now))]
    \/ rule = "breakeven"    /\ p.partial /\ AtMost(p, Cfg.breakeven)
    \/ rule = "ema20"        /\ Held(p, now, Cfg.minHold) /\ "below" \in facts
    \/ rule = "trend decay"  /\ ~p.eod /\ AtLeast(p, Cfg.trendDecayMin)
                             /\ p.prev = 3 /\ p.trend <= 1
    \/ rule = "climax"       /\ AtLeast(p, Cfg.climaxMin) /\ "climax" \in facts
    \/ rule = "distribution" /\ Held(p, now, Cfg.minHold) /\ Losing(p)
                             /\ "distribution" \in facts

\* Mutation of Order: the EMA protection is asked before the hard stop.
OrderSupportFirst ==
    <<"support", "hard stop", "trail", "take profit", "stop loss", "time cut",
      "breakeven", "ema20", "trend decay", "climax", "distribution">>

Order ==
    <<"hard stop", "trail", "take profit", "support", "stop loss", "time cut",
      "breakeven", "ema20", "trend decay", "climax", "distribution">>

First(indices) == CHOOSE i \in indices : \A j \in indices : i <= j

should_exit(p, now, facts) ==
    LET firing == {i \in DOMAIN Order : Fires(Order[i], p, now, facts)}
    IN IF firing = {} THEN "hold" ELSE Order[First(firing)]

Sells(verdict) == verdict \notin {"hold", "support"}

should_partial_exit(p) == ~p.partial /\ AtLeast(p, Cfg.partialProfit)

\* check_and_exit_all: the exits that bar the code for the day, on disk too.
LossReasons == {"stop loss", "hard stop", "breakeven", "distribution"}

IsLossExit(verdict, p) ==
    \/ verdict \in LossReasons
    \/ verdict \in {"ema20", "trend decay", "time cut", "trail"} /\ Losing(p)
=============================================================================
